------------------------- MODULE ConversionsProofs -------------------------
(***************************************************************************)
(* What the conversions keep for every name, value, option and environment *)
(* that satisfies the assumptions of Conversions.                          *)
(*                                                                         *)
(* Every property is about what one step makes of its input, and so each   *)
(* theorem comes down to a lemma about the operators.  For keys and queues *)
(* it counts: a name is joined of parts, so its length and the segment at  *)
(* each place are known, and of two joinings of the same name the parts    *)
(* must be the same.  The definitions here (Joined, IsRouterKey, IsSent,   *)
(* and the like) say what a value consists of, in the lemmas' words.       *)
(***************************************************************************)
EXTENDS Conversions, ConfigModelProofs

(* Four sequences, one behind the other: a key. *)
Joined(k, a, b, c, d) == k = a \o b \o c \o d

LEMMA FourParts ==
  ASSUME NEW S, NEW a \in Seq(S), NEW b \in Seq(S), NEW c \in Seq(S), NEW d \in Seq(S),
         NEW k, Joined(k, a, b, c, d)
  PROVE  /\ k \in Seq(S)
         /\ Len(k) = Len(a) + Len(b) + Len(c) + Len(d)
         /\ \A i \in 1..Len(a) : k[i] = a[i]
         /\ \A i \in 1..Len(b) : k[Len(a) + i] = b[i]
         /\ \A i \in 1..Len(c) : k[Len(a) + Len(b) + i] = c[i]
         /\ \A i \in 1..Len(d) : k[Len(a) + Len(b) + Len(c) + i] = d[i]
<1>1. PICK ab : ab = a \o b
  OBVIOUS
<1>2. PICK abc : abc = ab \o c
  OBVIOUS
<1>3. k = abc \o d
  BY <1>1, <1>2 DEF Joined
<1>4. Len(a) \in Nat /\ Len(b) \in Nat /\ Len(c) \in Nat /\ Len(d) \in Nat
  OBVIOUS
<1>5. /\ ab \in Seq(S) /\ Len(ab) = Len(a) + Len(b)
      /\ \A i \in 1..Len(a) : ab[i] = a[i]
      /\ \A i \in 1..Len(b) : ab[Len(a) + i] = b[i]
  BY <1>1, TwoParts
<1>6. /\ abc \in Seq(S) /\ Len(abc) = Len(ab) + Len(c)
      /\ \A i \in 1..Len(ab) : abc[i] = ab[i]
      /\ \A i \in 1..Len(c) : abc[Len(ab) + i] = c[i]
  <2>1. ab \in Seq(S)
    BY <1>5
  <2>2. QED
    BY <1>2, <2>1, TwoParts
<1>7. /\ k \in Seq(S) /\ Len(k) = Len(abc) + Len(d)
      /\ \A i \in 1..Len(abc) : k[i] = abc[i]
      /\ \A i \in 1..Len(d) : k[Len(abc) + i] = d[i]
  <2>1. abc \in Seq(S)
    BY <1>6
  <2>2. QED
    BY <1>3, <2>1, TwoParts
<1>8. \A i \in 1..Len(a) : i \in 1..Len(ab) /\ i \in 1..Len(abc)
  BY <1>4, <1>5, <1>6
<1>9. \A i \in 1..Len(b) : Len(a) + i \in 1..Len(ab) /\ Len(a) + i \in 1..Len(abc)
  BY <1>4, <1>5, <1>6
<1>10. \A i \in 1..Len(c) : Len(a) + Len(b) + i \in 1..Len(abc)
  BY <1>4, <1>5, <1>6
<1>11. QED
  BY <1>4, <1>5, <1>6, <1>7, <1>8, <1>9, <1>10

(* The words that names are made of: those of the constants, and the SDK's
   own, of which the provers do not know that they are strings. *)
Word == STRING \cup Values \cup
    {"invoke", "dispatch", "griffino", "router", "node", "result", "v1",
     "action", "plugin", "consumer", "config", "user"}
Segments == Seq(Word)

(* A name of plain words has a segment of one letter, the word, for each. *)
LEMMA NameIs ==
  ASSUME NEW w \in Seq(Word)
  PROVE  /\ Name(w) \in Seq(Segments)
         /\ Len(Name(w)) = Len(w)
         /\ \A i \in 1..Len(w) : Name(w)[i] = <<w[i]>>
<1>1. DOMAIN w = 1..Len(w) /\ Len(w) \in Nat
  OBVIOUS
<1>2. Name(w) = [i \in 1..Len(w) |-> <<w[i]>>]
  BY <1>1 DEF Name
<1>3. \A i \in 1..Len(w) : <<w[i]>> \in Segments
  BY DEF Segments
<1>4. QED
  BY <1>1, <1>2, <1>3

(* The names with one word. *)
LEMMA WordIs ==
  ASSUME NEW w \in Word
  PROVE  Name(<<w>>) \in Seq(Segments) /\ Len(Name(<<w>>)) = 1 /\ Name(<<w>>)[1] = <<w>>
<1>1. <<w>> \in Seq(Word) /\ Len(<<w>>) = 1 /\ <<w>>[1] = w
  OBVIOUS
<1>2. PICK s : s = <<w>>
  OBVIOUS
<1>3. s \in Seq(Word) /\ Len(s) = 1 /\ s[1] = w
  BY <1>1, <1>2
<1>4. Name(s) \in Seq(Segments) /\ Len(Name(s)) = Len(s) /\ \A i \in 1..Len(s) : Name(s)[i] = <<s[i]>>
  BY <1>3, NameIs
<1>5. QED
  BY <1>2, <1>3, <1>4

(* A dotted name is never empty. *)
LEMMA DottedIs ==
  ASSUME NEW name \in DottedNames
  PROVE  name \in Seq(Segments) /\ Len(name) \in Nat \ {0}
<1>1. STRING \subseteq Word
  BY DEF Word
<1>2. Seq(STRING) \subseteq Segments
  BY <1>1, SeqMonotonic DEF Segments
<1>3. name \in Seq(Seq(STRING)) /\ name # <<>>
  BY DEF DottedNames
<1>4. name \in Seq(Segments)
  BY <1>2, <1>3, SeqMonotonic
<1>5. QED
  BY <1>3, <1>4, EmptySeq

(* A key on the router exchange. *)
IsRouterKey(k, verb, user, name) ==
    k = Name(<<verb, "griffino", "router">>) \o user \o name \o V1

(* Its length, and where its verb, its user and its name are. *)
LEMMA RouterKey ==
  ASSUME NEW verb \in Word, NEW user \in Seq(Segments), NEW name \in Seq(Segments),
         NEW k, IsRouterKey(k, verb, user, name)
  PROVE  /\ Len(k) = Len(user) + Len(name) + 4
         /\ k[1] = <<verb>>
         /\ \A i \in 1..Len(user) : k[3 + i] = user[i]
         /\ \A i \in 1..Len(name) : k[3 + Len(user) + i] = name[i]
<1>1. PICK head : head = Name(<<verb, "griffino", "router">>)
  OBVIOUS
<1>2. head \in Seq(Segments) /\ Len(head) = 3 /\ head[1] = <<verb>>
  <2>1. PICK w : w = <<verb, "griffino", "router">>
    OBVIOUS
  <2>2. w \in Seq(Word) /\ Len(w) = 3 /\ w[1] = verb
    BY <2>1 DEF Word
  <2>3. Name(w) \in Seq(Segments) /\ Len(Name(w)) = Len(w) /\ Name(w)[1] = <<w[1]>>
    BY <2>2, NameIs
  <2>4. QED
    BY <1>1, <2>1, <2>2, <2>3
<1>3. V1 \in Seq(Segments) /\ Len(V1) = 1
  BY WordIs DEF V1, Word
<1>4. Len(user) \in Nat /\ Len(name) \in Nat
  OBVIOUS
<1>5. Joined(k, head, user, name, V1)
  BY <1>1 DEF Joined, IsRouterKey
<1>6. /\ Len(k) = Len(head) + Len(user) + Len(name) + Len(V1)
      /\ \A i \in 1..Len(head) : k[i] = head[i]
      /\ \A i \in 1..Len(user) : k[Len(head) + i] = user[i]
      /\ \A i \in 1..Len(name) : k[Len(head) + Len(user) + i] = name[i]
  <2>1. head \in Seq(Segments) /\ V1 \in Seq(Segments)
    BY <1>2, <1>3
  <2>2. QED
    BY <1>5, <2>1, FourParts
<1>7. Len(k) = Len(user) + Len(name) + 4
  BY <1>2, <1>3, <1>4, <1>6
<1>8. k[1] = <<verb>>
  <2>1. 1 \in 1..Len(head)
    BY <1>2
  <2>2. QED
    BY <1>2, <1>6, <2>1
<1>9. ASSUME NEW i \in 1..Len(user)
      PROVE  k[3 + i] = user[i]
  <2>1. k[Len(head) + i] = user[i]
    BY <1>6
  <2>2. QED
    BY <1>2, <2>1
<1>10. ASSUME NEW i \in 1..Len(name)
       PROVE  k[3 + Len(user) + i] = name[i]
  <2>1. k[Len(head) + Len(user) + i] = name[i]
    BY <1>6
  <2>2. QED
    BY <1>2, <2>1
<1>11. QED
  BY <1>7, <1>8, <1>9, <1>10

(* What a message's key says of it, if the user's id has no dots. *)
LEMMA KeysTellApart ==
  ASSUME NEW v1 \in Word, NEW u1 \in Seq(Segments), NEW n1 \in Seq(Segments),
         NEW v2 \in Word, NEW u2 \in Seq(Segments), NEW n2 \in Seq(Segments),
         Len(u1) = 1, Len(u2) = 1,
         NEW k, IsRouterKey(k, v1, u1, n1), IsRouterKey(k, v2, u2, n2)
  PROVE  v1 = v2 /\ u1 = u2 /\ n1 = n2
<1>1. ASSUME NEW v \in Word, NEW u \in Seq(Segments), NEW n \in Seq(Segments),
             IsRouterKey(k, v, u, n), Len(u) = 1
      PROVE  /\ Len(k) = Len(n) + 5 /\ k[1] = <<v>> /\ k[4] = u[1]
             /\ \A i \in 1..Len(n) : k[4 + i] = n[i]
  <2>1. Len(u) = 1 /\ Len(n) \in Nat
    BY <1>1
  <2>2. /\ Len(k) = Len(u) + Len(n) + 4 /\ k[1] = <<v>>
        /\ \A i \in 1..Len(u) : k[3 + i] = u[i]
        /\ \A i \in 1..Len(n) : k[3 + Len(u) + i] = n[i]
    <3>1. IsRouterKey(k, v, u, n)
      BY <1>1
    <3>2. QED
      BY ONLY <3>1, RouterKey, v \in Word, u \in Seq(Segments), n \in Seq(Segments)
  <2>3. k[3 + 1] = u[1]
    BY <2>1, <2>2
  <2>4. ASSUME NEW i \in 1..Len(n)
        PROVE  k[4 + i] = n[i]
    <3>1. k[3 + Len(u) + i] = n[i]
      BY <2>2
    <3>2. 3 + Len(u) + i = 4 + i
      BY <2>1
    <3>3. QED
      BY <3>1, <3>2
  <2>5. QED
    BY <2>1, <2>2, <2>3, <2>4
<1>2. /\ Len(k) = Len(n1) + 5 /\ k[1] = <<v1>> /\ k[4] = u1[1]
      /\ \A i \in 1..Len(n1) : k[4 + i] = n1[i]
  BY <1>1
<1>3. /\ Len(k) = Len(n2) + 5 /\ k[1] = <<v2>> /\ k[4] = u2[1]
      /\ \A i \in 1..Len(n2) : k[4 + i] = n2[i]
  BY <1>1
<1>4. Len(n1) = Len(n2)
  BY <1>2, <1>3
<1>5. n1 = n2
  BY <1>2, <1>3, <1>4, SeqEqual
<1>6. u1 = u2
  <2>1. u1[1] = u2[1]
    BY <1>2, <1>3
  <2>2. \A i \in 1..Len(u1) : u1[i] = u2[i]
    BY <2>1
  <2>3. QED
    BY <2>2, SeqEqual
<1>7. v1 = v2
  <2>1. <<v1>>[1] = <<v2>>[1]
    BY <1>2, <1>3
  <2>2. QED
    BY <2>1
<1>8. QED
  BY <1>5, <1>6, <1>7

-----------------------------------------------------------------------------
(* What each conversion is given. *)
Inputs ==
    /\ op = "action" => arg \in [plugin : PluginIDs, user : UserIDs, action : Names]
    /\ op = "queues" => arg \in Registrations \X Registrations
    /\ op = "keys" => arg \in Routes \X Routes
    /\ op = "new" => arg \in [given : Given, id : Values, env : Environments]
    /\ op = "call" => arg \in [user : Values, call : Calls]
    /\ op = "stored" => arg \in [env : Redis, mine : [owner : Owners, payload : StoredPayloads],
                                 other : [owner : Owners, payload : {"object", "other"}]]
    /\ op = "field" => arg \in Fields
    /\ op = "answer" => arg \in [message : Incoming, default : Values]

(* The step that converts is the one of the operation; no step changes the input. *)
LEMMA Steps ==
  ASSUME [Next]_vars
  PROVE  /\ UNCHANGED <<op, arg>>
         /\ \/ UNCHANGED vars
            \/ op = "action" /\ RouteAction
            \/ op = "queues" /\ NameQueues
            \/ op = "keys" /\ NameRoutes
            \/ op = "new" /\ MakeClient
            \/ op = "call" /\ Call
            \/ op = "stored" /\ ReadStored
            \/ op = "field" /\ DescribeField
            \/ op = "answer" /\ AnswerTask
<1>1. CASE UNCHANGED vars \/ Rest
  BY <1>1 DEF Rest, vars
<1>2. CASE RouteAction
  BY <1>2 DEF RouteAction, Convert
<1>3. CASE NameQueues
  BY <1>3 DEF NameQueues, Convert
<1>4. CASE NameRoutes
  BY <1>4 DEF NameRoutes, Convert
<1>5. CASE MakeClient
  BY <1>5 DEF MakeClient, Convert
<1>6. CASE Call
  BY <1>6, Zenon DEF Call, Convert
<1>7. CASE ReadStored
  BY <1>7, Zenon DEF ReadStored, Convert
<1>8. CASE DescribeField
  BY <1>8, Zenon DEF DescribeField, Convert
<1>9. CASE AnswerTask
  BY <1>9, Zenon DEF AnswerTask, Convert
<1>10. QED
  BY <1>1, <1>2, <1>3, <1>4, <1>5, <1>6, <1>7, <1>8, <1>9 DEF Next

(* The input is the one a behaviour starts with. *)
LEMMA InputsInvariance == Spec => []Inputs
<1>1. Init => Inputs
  BY DEF Init, Inputs
<1>2. Inputs /\ [Next]_vars => Inputs'
  BY Steps DEF Inputs
<1>3. QED
  BY <1>1, <1>2, PTL DEF Spec

(* The third segment from the end of an action's key is the action's id when
   the id has one segment: ActionIDFromRoutingKey finds it behind any plugin
   and any user. *)
LEMMA ActionFound ==
  ASSUME NEW plugin \in DottedNames, NEW user \in DottedNames, NEW action \in DottedNames,
         Len(action) = 1
  PROVE  <<ActionIDFromRoutingKey(ActionRoutingKey(plugin, user, action))>> = action
<1> DEFINE rest == plugin \o user
<1>1. PICK k, head : Joined(k, head \o plugin, user, action, V1) /\ head = Name(<<"action">>)
                     /\ k = ActionRoutingKey(plugin, user, action)
  BY DEF Joined, ActionRoutingKey
<1>2. head \in Seq(Segments) /\ Len(head) = 1
  BY <1>1, WordIs DEF Word
<1>3. V1 \in Seq(Segments) /\ Len(V1) = 1
  BY WordIs DEF V1, Word
<1>4. /\ plugin \in Seq(Segments) /\ Len(plugin) \in Nat \ {0}
      /\ user \in Seq(Segments) /\ Len(user) \in Nat \ {0}
      /\ action \in Seq(Segments)
  BY DottedIs
<1>5. PICK hp : hp = head \o plugin
  OBVIOUS
<1>6. hp \in Seq(Segments) /\ Len(hp) = 1 + Len(plugin)
  <2>1. head \in Seq(Segments)
    BY <1>2
  <2>2. hp \in Seq(Segments) /\ Len(hp) = Len(head) + Len(plugin)
    BY <1>4, <1>5, <2>1, TwoParts
  <2>3. QED
    BY <1>2, <2>2
<1>7. /\ k \in Seq(Segments)
      /\ Len(k) = Len(hp) + Len(user) + Len(action) + Len(V1)
      /\ \A i \in 1..Len(action) : k[Len(hp) + Len(user) + i] = action[i]
  <2>1. Joined(k, hp, user, action, V1) /\ hp \in Seq(Segments) /\ V1 \in Seq(Segments)
    BY <1>1, <1>3, <1>5, <1>6
  <2>2. action \in Seq(Segments) /\ user \in Seq(Segments)
    BY <1>4
  <2>3. QED
    BY ONLY <2>1, <2>2, FourParts
<1>8. Len(k) >= 5 /\ Len(k) - 1 = Len(hp) + Len(user) + 1
  BY <1>3, <1>4, <1>6, <1>7
<1>9. k[Len(k) - 1] = action[1]
  <2>1. k[Len(hp) + Len(user) + 1] = action[1]
    BY <1>7
  <2>2. QED
    BY <1>8, <2>1
<1>10. ActionIDFromRoutingKey(k) = action[1]
  BY <1>8, <1>9 DEF ActionIDFromRoutingKey
<1>11. <<action[1]>> = action
  BY <1>4
<1>12. QED
  BY <1>1, <1>10, <1>11

(* ActionIDFromRoutingKey of an action's routing key is the id that the plugin
   registered, whatever dots the plugin's and the user's ids have, if the
   action's has none. *)
THEOREM ActionsAreFound == Spec => []ActionsFindTheirHandler
<1>1. Init => ActionsFindTheirHandler
  BY DEF Init, ActionsFindTheirHandler
<1>2. Inputs /\ ActionsFindTheirHandler /\ [Next]_vars => ActionsFindTheirHandler'
  <2>1. SUFFICES ASSUME Inputs, ActionsFindTheirHandler, [Next]_vars,
                        op' = "action", done', Len(arg'.action) = 1
                 PROVE  <<out'>> = arg'.action
    BY DEF ActionsFindTheirHandler
  <2>2. CASE UNCHANGED vars
    BY <2>1, <2>2 DEF ActionsFindTheirHandler, vars
  <2>3. CASE RouteAction
    <3>1. op = "action" /\ arg' = arg
          /\ out' = ActionIDFromRoutingKey(ActionRoutingKey(arg.plugin, arg.user, arg.action))
      BY <2>3 DEF RouteAction, Convert
    <3>2. arg.plugin \in DottedNames /\ arg.user \in DottedNames /\ arg.action \in DottedNames
      BY <2>1, <3>1, NamesAssumption DEF Inputs
    <3>3. QED
      BY <2>1, <3>1, <3>2, ActionFound
  <2>4. QED
    BY <2>1, <2>2, <2>3, Steps
<1>3. QED
  BY <1>1, <1>2, InputsInvariance, PTL DEF Spec

(* The name of a node result is a dotted name of two words. *)
LEMMA NodeResultIs == NodeResult \in Seq(Segments)
<1>1. PICK w : w = <<"node", "result">>
  OBVIOUS
<1>2. w \in Seq(Word)
  BY <1>1 DEF Word
<1>3. Name(w) \in Seq(Segments)
  BY <1>2, NameIs
<1>4. QED
  BY <1>1, <1>3 DEF NodeResult

(* Whatever is published on the router exchange has a key of that shape. *)
LEMMA RouteIs ==
  ASSUME NEW r \in Routes
  PROVE  /\ r.kind \in {"invoke", "dispatch", "node_result"}
         /\ r.user \in Seq(Segments)
         /\ r.name \in Seq(Segments)
         /\ IsRouterKey(KeyOf(r), IF r.kind = "invoke" THEN "invoke" ELSE "dispatch", r.user, r.name)
<1>1. CASE r \in [kind : {"invoke", "dispatch"}, user : UserIDs, name : Names]
  <2>1. r.user \in DottedNames /\ r.name \in DottedNames /\ r.kind \in {"invoke", "dispatch"}
    BY <1>1, NamesAssumption
  <2>2. r.user \in Seq(Segments) /\ r.name \in Seq(Segments)
    BY <2>1, DottedIs
  <2>3. KeyOf(r) = IF r.kind = "invoke" THEN InvokeRoutingKey(r.user, r.name)
                                        ELSE DispatchRoutingKey(r.user, r.name)
    BY <2>1 DEF KeyOf
  <2>4. QED
    BY <2>1, <2>2, <2>3 DEF IsRouterKey, InvokeRoutingKey, DispatchRoutingKey
<1>2. CASE r \in [kind : {"node_result"}, user : UserIDs, name : {NodeResult}]
  <2>1. r.user \in DottedNames /\ r.name = NodeResult /\ r.kind = "node_result"
    BY <1>2, NamesAssumption
  <2>2. r.user \in Seq(Segments) /\ r.name \in Seq(Segments)
    BY <2>1, DottedIs, NodeResultIs
  <2>3. KeyOf(r) = DispatchRoutingKey(r.user, r.name)
    BY <2>1 DEF KeyOf, NodeResultRoutingKey, NodeResult
  <2>4. QED
    BY <2>1, <2>2, <2>3 DEF IsRouterKey, DispatchRoutingKey
<1>3. QED
  BY <1>1, <1>2 DEF Routes

(* The routing keys of invokes, dispatches and node results of rabbitmq.go are
   different for different users and names, if user ids have no dots; an
   invoke's differs from an event's. *)
THEOREM RoutesAreApart == Spec => []RoutesKeepApart
<1>1. Init => RoutesKeepApart
  BY DEF Init, RoutesKeepApart
<1>2. Inputs /\ RoutesKeepApart /\ [Next]_vars => RoutesKeepApart'
  <2>1. SUFFICES ASSUME Inputs, RoutesKeepApart, [Next]_vars, op' = "keys", done',
                        Undotted(arg'[1]), Undotted(arg'[2]), out'[1] = out'[2]
                 PROVE  /\ arg'[1].user = arg'[2].user
                        /\ arg'[1].name = arg'[2].name
                        /\ "invoke" \in {arg'[1].kind, arg'[2].kind} => arg'[1].kind = arg'[2].kind
    BY DEF RoutesKeepApart, Undotted
  <2>2. CASE UNCHANGED vars
    BY <2>1, <2>2 DEF RoutesKeepApart, vars
  <2>3. CASE NameRoutes
    <3>1. op = "keys" /\ arg' = arg /\ out' = <<KeyOf(arg[1]), KeyOf(arg[2])>>
      BY <2>3 DEF NameRoutes, Convert
    <3>2. PICK r \in Routes, q \in Routes : arg[1] = r /\ arg[2] = q
      BY <2>1, <3>1 DEF Inputs
    <3>3. KeyOf(r) = KeyOf(q) /\ Len(r.user) = 1 /\ Len(q.user) = 1
      BY <2>1, <3>1, <3>2 DEF Undotted
    <3> DEFINE V(x) == IF x.kind = "invoke" THEN "invoke" ELSE "dispatch"
    <3>4. V(r) \in Word /\ V(q) \in Word
      BY DEF Word
    <3>5. /\ r.user \in Seq(Segments) /\ r.name \in Seq(Segments)
          /\ q.user \in Seq(Segments) /\ q.name \in Seq(Segments)
          /\ IsRouterKey(KeyOf(r), V(r), r.user, r.name)
          /\ IsRouterKey(KeyOf(r), V(q), q.user, q.name)
      BY <3>3, RouteIs
    <3>6. V(r) = V(q) /\ r.user = q.user /\ r.name = q.name
      <4> HIDE DEF V
      <4>1. QED
        BY <3>3, <3>4, <3>5, KeysTellApart
    <3>7. r.kind \in {"invoke", "dispatch", "node_result"} /\ q.kind \in {"invoke", "dispatch", "node_result"}
      BY RouteIs
    <3>8. "invoke" \in {r.kind, q.kind} => r.kind = q.kind
      BY <3>6, <3>7
    <3>9. QED
      BY <3>1, <3>2, <3>6, <3>8
  <2>4. QED
    BY <2>1, <2>2, <2>3, Steps
<1>3. QED
  BY <1>1, <1>2, InputsInvariance, PTL DEF Spec

-----------------------------------------------------------------------------
(* Of segments of one letter each, FlattenSeq makes the sequence of the letters:
   were it to fail, there would be a least place where it does. *)
LEMMA FlattenWords ==
  ASSUME NEW S, NEW s \in Seq(Seq(S)), s # <<>>, \A i \in DOMAIN s : Len(s[i]) = 1
  PROVE  FlattenSeq(s) = [i \in 1..Len(s) |-> s[i][1]]
<1> DEFINE w == [n \in 1..Len(s) |-> [i \in 1..n |-> s[i][1]]]
<1>1. Len(s) \in Nat /\ Len(s) # 0 /\ DOMAIN s = 1..Len(s)
  BY EmptySeq
<1>2. ASSUME NEW i \in 1..Len(s)
      PROVE  s[i] \in Seq(S) /\ Len(s[i]) = 1 /\ s[i] = <<s[i][1]>> /\ s[i][1] \in S
  <2>1. s[i] \in Seq(S)
    BY ElementOfSeq
  <2>2. Len(s[i]) = 1
    BY <1>1
  <2>3. \A t \in Seq(S) : Len(t) = 1 => t = <<t[1]>> /\ t[1] \in S
    OBVIOUS
  <2>4. QED
    BY <2>1, <2>2, <2>3
<1>3. Flattens(w, s)
  <2>1. ASSUME NEW n \in 1..Len(s)
        PROVE  w[n] = IF n = 1 THEN s[n] ELSE w[n - 1] \o s[n]
    <3>1. n \in Nat /\ 1..n \subseteq 1..Len(s)
      BY <1>1
    <3>2. CASE n = 1
      BY <1>2, <3>2
    <3>3. CASE n # 1
      <4>1. n - 1 \in 1..Len(s) /\ 1..(n - 1) \subseteq 1..Len(s) /\ n - 1 \in Nat
        BY <1>1, <3>3
      <4>2. w[n - 1] = [i \in 1..(n - 1) |-> s[i][1]] /\ w[n] = [i \in 1..n |-> s[i][1]]
        BY <4>1
      <4>3. PICK p : p = w[n - 1]
        OBVIOUS
      <4>4. p \in Seq(S) /\ Len(p) = n - 1 /\ \A i \in 1..(n - 1) : p[i] = s[i][1]
        BY <1>2, <4>1, <4>2, <4>3
      <4>5. PICK l : l = w[n]
        OBVIOUS
      <4>6. l \in Seq(S) /\ Len(l) = n /\ \A i \in 1..n : l[i] = s[i][1]
        BY <1>2, <3>1, <4>2, <4>5
      <4>7. PICK e : e = s[n]
        OBVIOUS
      <4>8. e \in Seq(S) /\ Len(e) = 1 /\ e[1] = s[n][1]
        BY <1>2, <4>7
      <4> HIDE DEF w
      <4>9. PICK k : k = p \o e
        OBVIOUS
      <4>10. /\ k \in Seq(S) /\ Len(k) = Len(p) + Len(e)
             /\ \A i \in 1..Len(p) : k[i] = p[i]
             /\ \A i \in 1..Len(e) : k[Len(p) + i] = e[i]
        <5>1. p \in Seq(S) /\ e \in Seq(S)
          BY <4>4, <4>8
        <5>2. QED
          BY ONLY <4>9, <5>1, TwoParts
      <4>11. k[n] = e[1]
        <5>1. 1 \in 1..Len(e) /\ Len(p) + 1 = n
          BY <3>1, <4>4, <4>8
        <5>2. QED
          BY <4>10, <5>1
      <4>12. Len(k) = Len(l) /\ \A i \in 1..Len(l) : k[i] = l[i]
        BY <3>1, <4>4, <4>6, <4>8, <4>10, <4>11
      <4>13. k = l
        BY <4>6, <4>10, <4>12, SeqEqual
      <4>14. QED
        BY <3>3, <4>3, <4>5, <4>7, <4>9, <4>13
    <3>4. QED
      BY <3>2, <3>3
  <2>2. w = [n \in 1..Len(s) |-> IF n = 1 THEN s[n] ELSE w[n - 1] \o s[n]]
    <3>1. DOMAIN w = 1..Len(s) /\ w = [n \in 1..Len(s) |-> w[n]]
      OBVIOUS
    <3> HIDE DEF w
    <3>2. QED
      BY <2>1, <3>1
  <2>3. QED
    BY <2>2, Zenon DEF Flattens
<1>4. ASSUME NEW f, Flattens(f, s)
      PROVE  \A n \in 1..Len(s) : f[n] = w[n]
  <2> DEFINE T == {n \in 1..Len(s) : f[n] # w[n]}
  <2>1. \A n \in 1..Len(s) : f[n] = IF n = 1 THEN s[n] ELSE f[n - 1] \o s[n]
    BY <1>4 DEF Flattens
  <2>2. \A n \in 1..Len(s) : w[n] = IF n = 1 THEN s[n] ELSE w[n - 1] \o s[n]
    <3> HIDE DEF w
    <3>1. QED
      BY <1>3 DEF Flattens
  <2> HIDE DEF w
  <2>3. SUFFICES ASSUME T # {} PROVE FALSE
    BY DEF T
  <2>4. T \in SUBSET Nat
    BY <1>1
  <2>5. PICK m \in T : \A n \in T : m <= n
    <3> HIDE DEF T
    <3>1. QED
      BY <2>3, <2>4, Least
  <2>6. m # 1
    BY <2>1, <2>2, <2>5
  <2>7. m - 1 \in 1..Len(s) /\ m - 1 \notin T
    BY <1>1, <2>5, <2>6
  <2>8. f[m - 1] = w[m - 1]
    BY <2>7
  <2>9. QED
    BY <2>1, <2>2, <2>5, <2>6, <2>8
<1>5. Flattens(CHOOSE f : Flattens(f, s), s)
  <2> HIDE DEF w
  <2>1. QED
    BY <1>3, Zenon
<1>6. (CHOOSE f : Flattens(f, s))[Len(s)] = w[Len(s)]
  <2>1. Len(s) \in 1..Len(s)
    BY <1>1
  <2> HIDE DEF w
  <2>2. QED
    BY <1>4, <1>5, <2>1
<1>7. w[Len(s)] = [i \in 1..Len(s) |-> s[i][1]]
  BY <1>1
<1>8. QED
  BY <1>1, <1>6, <1>7, FlattenIs

(* An event's words are those of its name when no segment has an underscore. *)
LEMMA ConsumerSegments ==
  ASSUME NEW e \in DottedNames, \A i \in DOMAIN e : Len(e[i]) = 1
  PROVE  /\ <<FlattenSeq(e)>> \in Seq(Segments)
         /\ Len(FlattenSeq(e)) = Len(e)
         /\ \A i \in 1..Len(e) : e[i] = <<FlattenSeq(e)[i]>>
<1>1. e \in Seq(Seq(Word)) /\ Len(e) \in Nat \ {0} /\ DOMAIN e = 1..Len(e)
  BY DottedIs DEF Segments
<1>2. FlattenSeq(e) = [i \in 1..Len(e) |-> e[i][1]]
  <2>1. e # <<>>
    BY <1>1
  <2>2. QED
    BY <1>1, <2>1, FlattenWords
<1>3. ASSUME NEW i \in 1..Len(e)
      PROVE  e[i] = <<e[i][1]>> /\ e[i][1] \in Word
  <2>1. e[i] \in Seq(Word)
    BY <1>1, ElementOfSeq
  <2>2. Len(e[i]) = 1
    BY <1>1
  <2>3. \A t \in Seq(Word) : Len(t) = 1 => t = <<t[1]>> /\ t[1] \in Word
    OBVIOUS
  <2>4. QED
    BY <2>1, <2>3
<1>4. PICK f : f = FlattenSeq(e)
  OBVIOUS
<1>5. f \in Seq(Word) /\ Len(f) = Len(e) /\ \A i \in 1..Len(e) : f[i] = e[i][1]
  BY <1>1, <1>2, <1>3, <1>4
<1>6. <<f>> \in Seq(Segments)
  BY <1>5 DEF Segments
<1>7. QED
  BY <1>3, <1>4, <1>5, <1>6

(* Two such events with the same words are the same event. *)
LEMMA EventsAreTheirWords ==
  ASSUME NEW d \in DottedNames, NEW e \in DottedNames, FlattenSeq(d) = FlattenSeq(e),
         \A i \in DOMAIN d : Len(d[i]) = 1, \A i \in DOMAIN e : Len(e[i]) = 1
  PROVE  d = e
<1>1. d \in Seq(Segments) /\ e \in Seq(Segments)
  BY DottedIs
<1>2. Len(d) = Len(e) /\ \A i \in 1..Len(d) : d[i] = e[i]
  BY ConsumerSegments
<1>3. QED
  BY <1>1, <1>2, SeqEqual

(* The three shapes of a queue's name. *)
LEMMA ProviderQueue ==
  ASSUME NEW p \in Seq(Segments), NEW c \in Seq(Segments)
  PROVE  LET q == ProviderQueueName(p, c)
         IN  /\ q \in Seq(Segments)
             /\ Len(q) = 1 + Len(p) + Len(c)
             /\ q[1] = <<"plugin">>
             /\ \A i \in 1..Len(p) : q[1 + i] = p[i]
             /\ \A i \in 1..Len(c) : q[1 + Len(p) + i] = c[i]
<1>1. PICK head : head = Name(<<"plugin">>)
  OBVIOUS
<1>2. head \in Seq(Segments) /\ Len(head) = 1 /\ head[1] = <<"plugin">>
  BY <1>1, WordIs DEF Word
<1>5. PICK q : q = ProviderQueueName(p, c)
  OBVIOUS
<1>6. PICK hp : hp = head \o p
  OBVIOUS
<1>7. /\ hp \in Seq(Segments) /\ Len(hp) = Len(head) + Len(p)
      /\ \A i \in 1..Len(head) : hp[i] = head[i]
      /\ \A i \in 1..Len(p) : hp[Len(head) + i] = p[i]
  <2>1. head \in Seq(Segments)
    BY <1>2
  <2>2. QED
    BY ONLY <1>6, <2>1, p \in Seq(Segments), TwoParts
<1>8. q = hp \o c
  BY <1>1, <1>5, <1>6 DEF ProviderQueueName
<1>9. /\ q \in Seq(Segments) /\ Len(q) = Len(hp) + Len(c)
      /\ \A i \in 1..Len(hp) : q[i] = hp[i]
      /\ \A i \in 1..Len(c) : q[Len(hp) + i] = c[i]
  <2>1. hp \in Seq(Segments)
    BY <1>7
  <2>2. QED
    BY ONLY <1>8, <2>1, c \in Seq(Segments), TwoParts
<1>10. Len(p) \in Nat /\ Len(c) \in Nat /\ Len(hp) = 1 + Len(p)
  BY <1>2, <1>7
<1>11. q[1] = <<"plugin">>
  <2>1. 1 \in 1..Len(head) /\ 1 \in 1..Len(hp)
    BY <1>2, <1>10
  <2>2. QED
    BY <1>2, <1>7, <1>9, <2>1
<1>12. ASSUME NEW i \in 1..Len(p)
       PROVE  q[1 + i] = p[i]
  <2>1. Len(head) + i = 1 + i /\ 1 + i \in 1..Len(hp)
    BY <1>2, <1>10
  <2>2. QED
    BY <1>7, <1>9, <2>1
<1>13. ASSUME NEW i \in 1..Len(c)
       PROVE  q[1 + Len(p) + i] = c[i]
  BY <1>9, <1>10
<1>14. Len(q) = 1 + Len(p) + Len(c)
  BY <1>9, <1>10
<1>15. QED
  BY <1>5, <1>9, <1>11, <1>12, <1>13, <1>14

LEMMA ConsumerQueue ==
  ASSUME NEW p \in Seq(Segments), NEW e, <<FlattenSeq(e)>> \in Seq(Segments)
  PROVE  LET q == ConsumerQueueName(p, e)
         IN  /\ Len(q) = 3 + Len(p)
             /\ q[1] = <<"plugin">>
             /\ \A i \in 1..Len(p) : q[1 + i] = p[i]
             /\ q[2 + Len(p)] = <<"consumer">>
             /\ q[3 + Len(p)] = FlattenSeq(e)
<1>1. PICK head, mark, last : /\ head = Name(<<"plugin">>)
                              /\ mark = Name(<<"consumer">>)
                              /\ last = <<FlattenSeq(e)>>
  OBVIOUS
<1>2. head \in Seq(Segments) /\ Len(head) = 1 /\ head[1] = <<"plugin">>
  BY <1>1, WordIs DEF Word
<1>3. mark \in Seq(Segments) /\ Len(mark) = 1 /\ mark[1] = <<"consumer">>
  BY <1>1, WordIs DEF Word
<1>4. last \in Seq(Segments) /\ Len(last) = 1 /\ last[1] = FlattenSeq(e)
  BY <1>1
<1>5. PICK q : q = ConsumerQueueName(p, e)
  OBVIOUS
<1>6. Joined(q, head, p, mark, last)
  BY <1>1, <1>5 DEF Joined, ConsumerQueueName
<1>7. /\ Len(q) = Len(head) + Len(p) + Len(mark) + Len(last)
      /\ \A i \in 1..Len(head) : q[i] = head[i]
      /\ \A i \in 1..Len(p) : q[Len(head) + i] = p[i]
      /\ \A i \in 1..Len(mark) : q[Len(head) + Len(p) + i] = mark[i]
      /\ \A i \in 1..Len(last) : q[Len(head) + Len(p) + Len(mark) + i] = last[i]
  <2>1. head \in Seq(Segments) /\ mark \in Seq(Segments) /\ last \in Seq(Segments)
    BY <1>2, <1>3, <1>4
  <2>2. QED
    BY ONLY <1>6, <2>1, p \in Seq(Segments), FourParts
<1>8. Len(p) \in Nat /\ 1 \in 1..Len(head) /\ 1 \in 1..Len(mark) /\ 1 \in 1..Len(last)
  BY <1>2, <1>3, <1>4
<1>9. /\ q[1] = head[1]
      /\ q[Len(head) + Len(p) + 1] = mark[1]
      /\ q[Len(head) + Len(p) + Len(mark) + 1] = last[1]
  BY <1>7, <1>8
<1>10. /\ Len(head) + Len(p) + 1 = 2 + Len(p)
       /\ Len(head) + Len(p) + Len(mark) + 1 = 3 + Len(p)
       /\ Len(q) = 3 + Len(p)
  BY <1>2, <1>3, <1>4, <1>7, <1>8
<1>11. ASSUME NEW i \in 1..Len(p)
       PROVE  q[1 + i] = p[i]
  <2>1. q[Len(head) + i] = p[i]
    BY <1>7
  <2>2. QED
    BY <1>2, <2>1
<1>12. QED
  BY <1>2, <1>3, <1>4, <1>5, <1>9, <1>10, <1>11

LEMMA ActionQueue ==
  ASSUME NEW p \in Seq(Segments)
  PROVE  LET q == ActionQueueName(p)
         IN  /\ Len(q) = 1 + Len(p)
             /\ q[1] = <<"action">>
             /\ \A i \in 1..Len(p) : q[1 + i] = p[i]
<1>1. PICK head : head = Name(<<"action">>)
  OBVIOUS
<1>2. head \in Seq(Segments) /\ Len(head) = 1 /\ head[1] = <<"action">>
  BY <1>1, WordIs DEF Word
<1>3. PICK q : q = head \o p
  OBVIOUS
<1>4. /\ Len(q) = Len(head) + Len(p)
      /\ \A i \in 1..Len(head) : q[i] = head[i]
      /\ \A i \in 1..Len(p) : q[Len(head) + i] = p[i]
  <2>1. head \in Seq(Segments)
    BY <1>2
  <2>2. QED
    BY ONLY <1>3, <2>1, p \in Seq(Segments), TwoParts
<1>5. q[1] = <<"action">>
  <2>1. 1 \in 1..Len(head)
    BY <1>2
  <2>2. QED
    BY <1>2, <1>4, <2>1
<1>6. ASSUME NEW i \in 1..Len(p)
      PROVE  q[1 + i] = p[i]
  <2>1. q[Len(head) + i] = p[i]
    BY <1>4
  <2>2. QED
    BY <1>2, <2>1
<1>7. q = ActionQueueName(p)
  BY <1>1, <1>3 DEF ActionQueueName
<1>8. QED
  BY <1>2, <1>4, <1>5, <1>6, <1>7

(* What a queue's name says of what it serves. *)
LEMMA QueueIs ==
  ASSUME NEW r \in Registrations, Plain(r)
  PROVE  LET q == QueueOf(r)
             n == Len(r.plugin)
         IN  /\ r.plugin \in Seq(Segments) /\ n \in Nat \ {0}
             /\ \A i \in 1..n : q[1 + i] = r.plugin[i] /\ r.plugin[i] # <<"consumer">>
             /\ \/ /\ r.kind = "provider" /\ q[1] = <<"plugin">> /\ Len(q) = n + 2
                   /\ r.id = <<q[n + 2]>>
                \/ /\ r.kind = "event" /\ q[1] = <<"plugin">> /\ Len(q) = n + 3
                   /\ q[n + 2] = <<"consumer">> /\ q[n + 3] = FlattenSeq(r.id)
                   /\ r.id \in DottedNames /\ \A i \in DOMAIN r.id : Len(r.id[i]) = 1
                \/ r.kind = "action" /\ q[1] = <<"action">> /\ Len(q) = n + 1
<1>1. /\ r.kind \in {"provider", "event", "action"}
      /\ r.plugin \in DottedNames /\ r.id \in DottedNames
  BY NamesAssumption DEF Registrations
<1>2. /\ r.plugin \in Seq(Segments) /\ Len(r.plugin) \in Nat \ {0}
      /\ r.id \in Seq(Segments)
  BY <1>1, DottedIs
<1>3. \A i \in 1..Len(r.plugin) : r.plugin[i] # <<"consumer">>
  BY <1>2 DEF Plain
<1>4. CASE r.kind = "provider"
  <2>1. QueueOf(r) = ProviderQueueName(r.plugin, r.id)
    BY <1>4 DEF QueueOf
  <2>2. Len(r.id) = 1
    BY <1>4 DEF Plain
  <2>3. PICK q, p, c : q = QueueOf(r) /\ p = r.plugin /\ c = r.id
    OBVIOUS
  <2>4. /\ Len(q) = 1 + Len(p) + Len(c)
        /\ q[1] = <<"plugin">>
        /\ \A i \in 1..Len(p) : q[1 + i] = p[i]
        /\ \A i \in 1..Len(c) : q[1 + Len(p) + i] = c[i]
    <3>1. p \in Seq(Segments) /\ c \in Seq(Segments) /\ q = ProviderQueueName(p, c)
      BY <1>2, <2>1, <2>3
    <3>2. QED
      BY ONLY <3>1, ProviderQueue
  <2>5. Len(p) \in Nat /\ Len(c) = 1 /\ c \in Seq(Segments)
    BY <1>2, <2>2, <2>3
  <2>6. q[1 + Len(p) + 1] = c[1] /\ 1 + Len(p) + 1 = Len(p) + 2
    BY <2>4, <2>5
  <2>7. c = <<c[1]>>
    BY <2>5
  <2>8. Len(q) = Len(p) + 2 /\ c = <<q[Len(p) + 2]>>
    BY <2>4, <2>5, <2>6, <2>7
  <2>9. QED
    BY <1>2, <1>3, <1>4, <2>3, <2>4, <2>8
<1>5. CASE r.kind = "event"
  <2>1. QueueOf(r) = ConsumerQueueName(r.plugin, r.id)
    BY <1>5 DEF QueueOf
  <2>2. \A i \in DOMAIN r.id : Len(r.id[i]) = 1
    BY <1>5 DEF Plain
  <2>3. <<FlattenSeq(r.id)>> \in Seq(Segments)
    BY <1>1, <2>2, ConsumerSegments
  <2>4. PICK q, p, e : q = QueueOf(r) /\ p = r.plugin /\ e = r.id
    OBVIOUS
  <2>5. /\ Len(q) = 3 + Len(p)
        /\ q[1] = <<"plugin">>
        /\ \A i \in 1..Len(p) : q[1 + i] = p[i]
        /\ q[2 + Len(p)] = <<"consumer">>
        /\ q[3 + Len(p)] = FlattenSeq(e)
    <3>1. p \in Seq(Segments) /\ <<FlattenSeq(e)>> \in Seq(Segments) /\ q = ConsumerQueueName(p, e)
      BY <1>2, <2>1, <2>3, <2>4
    <3>2. QED
      BY ONLY <3>1, ConsumerQueue
  <2>6. Len(p) \in Nat /\ 3 + Len(p) = Len(p) + 3 /\ 2 + Len(p) = Len(p) + 2
    BY <1>2, <2>4
  <2>7. QED
    BY <1>1, <1>2, <1>3, <1>5, <2>2, <2>4, <2>5, <2>6
<1>6. CASE r.kind = "action"
  <2>1. QueueOf(r) = ActionQueueName(r.plugin)
    BY <1>6 DEF QueueOf
  <2>2. PICK q, p : q = QueueOf(r) /\ p = r.plugin
    OBVIOUS
  <2>3. /\ Len(q) = 1 + Len(p)
        /\ q[1] = <<"action">>
        /\ \A i \in 1..Len(p) : q[1 + i] = p[i]
    <3>1. p \in Seq(Segments) /\ q = ActionQueueName(p)
      BY <1>2, <2>1, <2>2
    <3>2. QED
      BY ONLY <3>1, ActionQueue
  <2>4. QED
    BY <1>2, <1>3, <1>6, <2>2, <2>3
<1>7. QED
  BY <1>1, <1>4, <1>5, <1>6

(* So two plain registrations have one queue only if they are of one kind and
   plugin, and of one id unless they are actions. *)
LEMMA QueuesTellApart ==
  ASSUME NEW r \in Registrations, NEW t \in Registrations, Plain(r), Plain(t),
         QueueOf(r) = QueueOf(t)
  PROVE  /\ r.kind = t.kind
         /\ r.plugin = t.plugin
         /\ r.kind # "action" => r.id = t.id
<1>1. PICK q, n, m, p, o : q = QueueOf(r) /\ n = Len(r.plugin) /\ m = Len(t.plugin)
                           /\ p = r.plugin /\ o = t.plugin
  OBVIOUS
<1>2. /\ p \in Seq(Segments) /\ n \in Nat \ {0} /\ n = Len(p)
      /\ \A i \in 1..n : q[1 + i] = p[i] /\ p[i] # <<"consumer">>
      /\ \/ /\ r.kind = "provider" /\ q[1] = <<"plugin">> /\ Len(q) = n + 2
            /\ r.id = <<q[n + 2]>>
         \/ /\ r.kind = "event" /\ q[1] = <<"plugin">> /\ Len(q) = n + 3
            /\ q[n + 2] = <<"consumer">> /\ q[n + 3] = FlattenSeq(r.id)
            /\ r.id \in DottedNames /\ \A i \in DOMAIN r.id : Len(r.id[i]) = 1
         \/ r.kind = "action" /\ q[1] = <<"action">> /\ Len(q) = n + 1
  BY <1>1, QueueIs
<1>3. /\ o \in Seq(Segments) /\ m \in Nat \ {0} /\ m = Len(o)
      /\ \A i \in 1..m : q[1 + i] = o[i] /\ o[i] # <<"consumer">>
      /\ \/ /\ t.kind = "provider" /\ q[1] = <<"plugin">> /\ Len(q) = m + 2
            /\ t.id = <<q[m + 2]>>
         \/ /\ t.kind = "event" /\ q[1] = <<"plugin">> /\ Len(q) = m + 3
            /\ q[m + 2] = <<"consumer">> /\ q[m + 3] = FlattenSeq(t.id)
            /\ t.id \in DottedNames /\ \A i \in DOMAIN t.id : Len(t.id[i]) = 1
         \/ t.kind = "action" /\ q[1] = <<"action">> /\ Len(q) = m + 1
  BY <1>1, QueueIs
<1>4. <<"plugin">> # <<"action">>
  <2>1. <<"plugin">>[1] # <<"action">>[1]
    OBVIOUS
  <2>2. QED
    BY <2>1
<1>5. r.kind = t.kind
  <2>1. ~(r.kind = "provider" /\ t.kind = "event")
    <3>1. SUFFICES ASSUME r.kind = "provider", t.kind = "event" PROVE FALSE
      OBVIOUS
    <3>2. n + 2 = m + 3 /\ q[m + 2] = <<"consumer">>
      BY <1>2, <1>3, <3>1
    <3>3. n = m + 1 /\ n \in 1..n /\ 1 + n = m + 2
      BY <1>2, <1>3, <3>2
    <3>4. q[1 + n] # <<"consumer">>
      BY <1>2, <3>3
    <3>5. QED
      BY <3>2, <3>3, <3>4
  <2>2. ~(r.kind = "event" /\ t.kind = "provider")
    <3>1. SUFFICES ASSUME r.kind = "event", t.kind = "provider" PROVE FALSE
      OBVIOUS
    <3>2. n + 3 = m + 2 /\ q[n + 2] = <<"consumer">>
      BY <1>2, <1>3, <3>1
    <3>3. m = n + 1 /\ m \in 1..m /\ 1 + m = n + 2
      BY <1>2, <1>3, <3>2
    <3>4. q[1 + m] # <<"consumer">>
      BY <1>3, <3>3
    <3>5. QED
      BY <3>2, <3>3, <3>4
  <2>3. QED
    BY <1>2, <1>3, <1>4, <2>1, <2>2
<1>6. n = m
  BY <1>2, <1>3, <1>5
<1>7. p = o
  <2>1. Len(p) = Len(o) /\ \A i \in 1..Len(p) : p[i] = o[i]
    BY <1>2, <1>3, <1>6
  <2>2. QED
    BY <1>2, <1>3, <2>1, SeqEqual
<1>8. CASE r.kind = "provider"
  BY <1>1, <1>2, <1>3, <1>5, <1>6, <1>7, <1>8
<1>9. CASE r.kind = "event"
  <2>1. /\ FlattenSeq(r.id) = FlattenSeq(t.id)
        /\ r.id \in DottedNames /\ \A i \in DOMAIN r.id : Len(r.id[i]) = 1
        /\ t.id \in DottedNames /\ \A i \in DOMAIN t.id : Len(t.id[i]) = 1
    BY <1>2, <1>3, <1>5, <1>6, <1>9
  <2>2. r.id = t.id
    BY <2>1, EventsAreTheirWords
  <2>3. QED
    BY <1>1, <1>5, <1>7, <2>2
<1>10. CASE r.kind = "action"
  BY <1>1, <1>5, <1>7, <1>10
<1>11. QED
  BY <1>2, <1>8, <1>9, <1>10

(* The queues that a client declares for its registrations are told apart by
   their names: as long as the ids are plain, nothing but a plugin's actions
   shares one. *)
THEOREM QueuesAreApart == Spec => []QueuesIdentifyRegistrations
<1>1. Init => QueuesIdentifyRegistrations
  BY DEF Init, QueuesIdentifyRegistrations
<1>2. Inputs /\ QueuesIdentifyRegistrations /\ [Next]_vars => QueuesIdentifyRegistrations'
  <2>1. SUFFICES ASSUME Inputs, QueuesIdentifyRegistrations, [Next]_vars, op' = "queues", done',
                        Plain(arg'[1]), Plain(arg'[2]), out'[1] = out'[2]
                 PROVE  /\ arg'[1].kind = arg'[2].kind
                        /\ arg'[1].plugin = arg'[2].plugin
                        /\ arg'[1].kind # "action" => arg'[1].id = arg'[2].id
    BY DEF QueuesIdentifyRegistrations, Plain
  <2>2. CASE UNCHANGED vars
    <3>1. op' = op /\ arg' = arg /\ done' = done /\ out' = out
      BY <2>2 DEF vars
    <3>2. Plain(arg[1]) /\ Plain(arg[2])
      BY <2>1, <3>1
    <3>3. QED
      BY <2>1, <3>1, <3>2 DEF QueuesIdentifyRegistrations
  <2>3. CASE NameQueues
    <3>1. op = "queues" /\ arg' = arg /\ out' = <<QueueOf(arg[1]), QueueOf(arg[2])>>
      BY <2>3 DEF NameQueues, Convert
    <3>2. PICK r \in Registrations, t \in Registrations : arg[1] = r /\ arg[2] = t
      BY <2>1, <3>1 DEF Inputs
    <3>3. Plain(r) /\ Plain(t) /\ QueueOf(r) = QueueOf(t)
      BY <2>1, <3>1, <3>2
    <3>4. QED
      BY <3>1, <3>2, <3>3, QueuesTellApart
  <2>4. QED
    BY <2>1, <2>2, <2>3, Steps
<1>3. QED
  BY <1>1, <1>2, InputsInvariance, PTL DEF Spec

-----------------------------------------------------------------------------
(* A field that is set leaves the others as they are. *)
LEMMA WithField ==
  ASSUME NEW m, NEW f, NEW v, NEW g \in DOMAIN m, g # f
  PROVE  g \in DOMAIN With(m, f, v) /\ With(m, f, v)[g] = m[g]
BY DEF With

(* A field that has a string, or null for the empty one. *)
HasString(m, f, s) == f \in DOMAIN m /\ m[f] = Str(s)
HasNullable(m, f, s) == f \in DOMAIN m /\ m[f] = NullableString(s)

(* What the handler context reads of a field that has a string. *)
LEMMA StringField ==
  ASSUME NEW r, NEW f, NEW s, HasString(r, f, s)
  PROVE  /\ Has(r, f, "string") /\ OptionalString(r, f)
         /\ StringOrEmpty(r, f) = s /\ r[f].value = s
BY DEF HasString, Str, Has, OptionalString, StringOrEmpty

(* And of one that has a string or null: null reads as the empty string. *)
LEMMA NullableField ==
  ASSUME NEW r, NEW f, NEW s, HasNullable(r, f, s)
  PROVE  OptionalString(r, f) /\ StringOrEmpty(r, f) = s
<1>1. CASE s = ""
  <2>1. Null.type = "null"
    BY DEF Null
  <2>2. r[f].type = "null" /\ f \in DOMAIN r
    BY <1>1, <2>1 DEF HasNullable, NullableString
  <2>3. QED
    BY <1>1, <2>2 DEF OptionalString, StringOrEmpty, Has
<1>2. CASE s # ""
  <2>1. HasString(r, f, s)
    BY <1>2 DEF HasNullable, HasString, NullableString
  <2>2. QED
    BY <2>1, StringField
<1>3. QED
  BY <1>1, <1>2

(* JSON leaves strings as they are. *)
LEMMA StringsArrive ==
  ASSUME NEW m, NEW f, NEW s
  PROVE  /\ HasString(m, f, s) => HasString(Received(m), f, s)
         /\ HasNullable(m, f, s) => HasNullable(Received(m), f, s)
<1>1. Object("ints").type = "object" /\ Str(s).type = "string" /\ Null.type = "null"
  BY DEF Object, Str, Null
<1>2. Str(s) # Object("ints") /\ Null # Object("ints")
  BY <1>1
<1>3. Decoded(Str(s)) = Str(s) /\ Decoded(Null) = Null
  BY <1>2 DEF Decoded
<1>4. Decoded(NullableString(s)) = NullableString(s)
  BY <1>3 DEF NullableString
<1>5. QED
  BY <1>3, <1>4 DEF HasString, HasNullable, Received

(* What every envelope says, whatever else is in it. *)
IsEnvelope(m, taskID, msgID, userID, pluginID) ==
    /\ "context" \notin DOMAIN m
    /\ HasNullable(m, "taskId", taskID)
    /\ HasString(m, "msgId", msgID)
    /\ HasString(m, "userId", userID)
    /\ HasString(m, "pluginId", pluginID)

(* Envelope makes one. *)
LEMMA EnvelopeIs ==
  ASSUME NEW taskID, NEW msgID, NEW userID, NEW pluginID
  PROVE  /\ IsEnvelope(Envelope(taskID, msgID, userID, pluginID), taskID, msgID, userID, pluginID)
         /\ DOMAIN Envelope(taskID, msgID, userID, pluginID) = {"taskId", "msgId", "userId", "pluginId"}
BY DEF Envelope, IsEnvelope, HasString, HasNullable

(* A field of its own leaves the rest of the envelope as it is. *)
LEMMA WithEnvelope ==
  ASSUME NEW m, NEW taskID, NEW msgID, NEW userID, NEW pluginID, NEW f, NEW v,
         IsEnvelope(m, taskID, msgID, userID, pluginID),
         f \notin {"taskId", "msgId", "userId", "pluginId", "context"}
  PROVE  IsEnvelope(With(m, f, v), taskID, msgID, userID, pluginID)
<1>1. DOMAIN With(m, f, v) = DOMAIN m \cup {f}
  BY DEF With
<1>2. \A g \in DOMAIN m \ {f} : With(m, f, v)[g] = m[g]
  BY WithField
<1>3. QED
  BY <1>1, <1>2 DEF IsEnvelope, HasString, HasNullable

(* What the receiver's context says then. *)
Understood(hc, userID, pluginID, taskID, nodeID) ==
    /\ hc.ok
    /\ hc.userID = userID
    /\ hc.pluginID = pluginID
    /\ hc.taskID = taskID
    /\ hc.nodeID = nodeID

PayloadOf(message) ==
    IF Has(message, "payload", "object") THEN message["payload"].value ELSE "empty"

(* ContextFromMessage accepts an envelope with the id of a plugin, and reads
   from it what was written, whatever id the receiver has of its own. *)
LEMMA EnvelopeArrives ==
  ASSUME NEW m, NEW taskID, NEW msgID, NEW userID, NEW pluginID, NEW default,
         IsEnvelope(m, taskID, msgID, userID, pluginID), pluginID # "",
         NEW nodeID, \/ HasString(m, "nodeId", nodeID)
                     \/ "nodeId" \notin DOMAIN m /\ nodeID = ""
  PROVE  /\ Understood(ContextFromMessage(Received(m), default), userID, pluginID, taskID, nodeID)
         /\ ContextFromMessage(Received(m), default).payload = PayloadOf(Received(m))
<1>1. PICK r : r = Received(m)
  OBVIOUS
<1>2. DOMAIN r = DOMAIN m
  BY <1>1 DEF Received
<1>3. "context" \notin DOMAIN r
  BY <1>2 DEF IsEnvelope
<1>4. /\ HasNullable(r, "taskId", taskID)
      /\ HasString(r, "msgId", msgID)
      /\ HasString(r, "userId", userID)
      /\ HasString(r, "pluginId", pluginID)
  BY <1>1, StringsArrive DEF IsEnvelope
<1>5. /\ Has(r, "userId", "string") /\ r["userId"].value = userID
      /\ Has(r, "msgId", "string")
  BY <1>4, StringField
<1>6. PluginIDOf(r, default) = pluginID
  <2>1. "pluginId" \in DOMAIN r /\ StringOrEmpty(r, "pluginId") = pluginID
    BY <1>4, StringField DEF HasString
  <2>2. QED
    BY <2>1 DEF PluginIDOf
<1>7. OptionalString(r, "taskId") /\ StringOrEmpty(r, "taskId") = taskID
  BY <1>4, NullableField
<1>8. OptionalString(r, "nodeId") /\ StringOrEmpty(r, "nodeId") = nodeID
  <2>1. CASE HasString(m, "nodeId", nodeID)
    <3>1. HasString(r, "nodeId", nodeID)
      BY <1>1, <2>1, StringsArrive
    <3>2. QED
      BY <3>1, StringField
  <2>2. CASE "nodeId" \notin DOMAIN m /\ nodeID = ""
    BY <1>2, <2>2 DEF OptionalString, StringOrEmpty, Has
  <2>3. QED
    BY <2>1, <2>2
<1>9. /\ Has(r, "userId", "string") /\ PluginIDOf(r, default) # "" /\ Has(r, "msgId", "string")
      /\ OptionalString(r, "taskId") /\ OptionalString(r, "nodeId")
      /\ "context" \notin DOMAIN r
  BY <1>3, <1>5, <1>6, <1>7, <1>8
<1>10. PICK hc : hc = ContextFromMessage(r, default)
  OBVIOUS
<1>11. hc =
         [ok |-> TRUE, userID |-> r["userId"].value, pluginID |-> PluginIDOf(r, default),
          msgID |-> r["msgId"].value, taskID |-> StringOrEmpty(r, "taskId"),
          nodeID |-> StringOrEmpty(r, "nodeId"), payload |-> PayloadOf(r)]
  BY <1>9, <1>10 DEF ContextFromMessage, PayloadOf
<1>12. /\ hc.ok /\ hc.userID = r["userId"].value /\ hc.pluginID = PluginIDOf(r, default)
       /\ hc.taskID = StringOrEmpty(r, "taskId") /\ hc.nodeID = StringOrEmpty(r, "nodeId")
       /\ hc.payload = PayloadOf(r)
  BY <1>11
<1>13. Understood(hc, userID, pluginID, taskID, nodeID)
  BY <1>5, <1>6, <1>7, <1>8, <1>12 DEF Understood
<1>14. QED
  BY <1>1, <1>10, <1>12, <1>13

(* The node result says which task, node and user it is about. *)
IsNodeResult(m, taskID, msgID, userID, nodeID) ==
    IsEnvelope(m, taskID, msgID, userID, "self") /\ HasString(m, "nodeId", nodeID)

(* BuildNodeResultEnvelope makes one, whatever the outcome it reports. *)
LEMMA NodeResultNames ==
  ASSUME NEW taskID, NEW msgID, NEW userID, NEW nodeID, NEW ok, NEW output, NEW reason
  PROVE  IsNodeResult(
            BuildNodeResultEnvelope(taskID, msgID, userID, "self", nodeID, ok, output, reason),
            taskID, msgID, userID, nodeID)
<1> DEFINE b == [type |-> "boolean", value |-> IF ok THEN "true" ELSE "false"]
           e0 == Envelope(taskID, msgID, userID, "self")
           e1 == With(e0, "nodeId", Str(nodeID))
           e2 == With(e1, "ok", b)
           e3 == With(e2, "output", Payload(output))
           e4 == With(e3, "failReason", Str(reason))
           Names3(m) == IsNodeResult(m, taskID, msgID, userID, nodeID)
<1>1. Names3(e1)
  <2>1. IsEnvelope(e1, taskID, msgID, userID, "self")
    BY EnvelopeIs, WithEnvelope
  <2>2. HasString(e1, "nodeId", nodeID)
    BY DEF With, HasString
  <2>3. QED
    BY <2>1, <2>2 DEF IsNodeResult
<1>2. ASSUME NEW m, NEW v, NEW f \in {"ok", "output", "failReason"}, Names3(m)
      PROVE  Names3(With(m, f, v))
  <2>1. IsEnvelope(m, taskID, msgID, userID, "self") /\ HasString(m, "nodeId", nodeID)
    BY <1>2 DEF IsNodeResult
  <2>2. IsEnvelope(With(m, f, v), taskID, msgID, userID, "self")
    BY <2>1, WithEnvelope
  <2>3. HasString(With(m, f, v), "nodeId", nodeID)
    BY <2>1, WithField DEF HasString
  <2>4. QED
    BY <2>2, <2>3 DEF IsNodeResult
<1> HIDE DEF Names3, b, e1
<1>3. Names3(e2)
  BY <1>1, <1>2
<1>4. Names3(e3)
  <2> HIDE DEF e2
  <2>1. QED
    BY <1>2, <1>3
<1>5. Names3(e4)
  <2> HIDE DEF e3
  <2>1. QED
    BY <1>2, <1>4
<1>6. BuildNodeResultEnvelope(taskID, msgID, userID, "self", nodeID, ok, output, reason)
        = IF reason = "" THEN e3 ELSE e4
  BY DEF BuildNodeResultEnvelope, WithUnlessEmpty, b, e1
<1>7. QED
  <2> HIDE DEF e3, e4
  <2>1. QED
    BY <1>4, <1>5, <1>6 DEF Names3

(* A node result that answers a message decodes, and to the user, the task and
   the node of the context that ContextFromMessage made of the message, which
   may have lacked any of its fields or had them in another type. *)
THEOREM AnswersKeepTheirTask == Spec => []AnswersNameTheirTask
<1>1. Init => AnswersNameTheirTask
  BY DEF Init, AnswersNameTheirTask
<1>2. AnswersNameTheirTask /\ [Next]_vars => AnswersNameTheirTask'
  <2>1. SUFFICES ASSUME AnswersNameTheirTask, [Next]_vars, op' = "answer", done', out'.context.ok
                 PROVE  AnswersNameTheirTask'
    BY DEF AnswersNameTheirTask
  <2>2. CASE UNCHANGED vars
    BY <2>1, <2>2 DEF AnswersNameTheirTask, vars
  <2>3. CASE AnswerTask
    <3>1. PICK hc, result :
            /\ hc = ContextFromMessage(arg.message, arg.default)
            /\ result = BuildNodeResultEnvelope(hc.taskID, "id2", hc.userID, "self", hc.nodeID,
                                                FALSE, "empty", "reason")
      OBVIOUS
    <3>2. out' = [context |-> hc, result |-> IF hc.ok THEN Received(result) ELSE <<>>]
      BY <2>3, <3>1 DEF AnswerTask, Convert
    <3>3. out'.context = hc /\ out'.result = Received(result)
      BY <2>1, <3>2
    <3>4. IsNodeResult(result, hc.taskID, "id2", hc.userID, hc.nodeID)
      BY <3>1, NodeResultNames, Zenon
    <3>5. IsEnvelope(result, hc.taskID, "id2", hc.userID, "self") /\ HasString(result, "nodeId", hc.nodeID)
      BY <3>4 DEF IsNodeResult
    <3>6. PICK back : back = ContextFromMessage(Received(result), "")
      OBVIOUS
    <3>7. Understood(back, hc.userID, "self", hc.taskID, hc.nodeID)
      BY <3>5, <3>6, EnvelopeArrives
    <3>8. QED
      BY <3>3, <3>6, <3>7 DEF AnswersNameTheirTask, Understood
  <2>4. QED
    BY <2>1, <2>2, <2>3, Steps
<1>3. QED
  BY <1>1, <1>2, PTL DEF Spec

-----------------------------------------------------------------------------
(* Defaults fill in what is missing, and keep the rest. *)
IsConfig(c) == c.ok /\ DOMAIN c = DOMAIN ZeroConfig

LEMMA DefaultsFill ==
  ASSUME NEW c, IsConfig(c)
  PROVE  /\ IsConfig(WithDefaults(c))
         /\ WithDefaults(c).port # 0 /\ WithDefaults(c).timeout # 0
         /\ WithDefaults(c).router # "" /\ WithDefaults(c).plugins # ""
         /\ WithDefaults(c).host = c.host /\ WithDefaults(c).user = c.user
         /\ WithDefaults(c).password = c.password /\ WithDefaults(c).pluginID = c.pluginID
         /\ WithDefaults(c).userID = c.userID
         /\ c.timeout = 0 => WithDefaults(c).timeout = DefaultTimeout
<1> DEFINE c1 == [c EXCEPT !.port = OrDefault(@, 0, DefaultPort)]
           c2 == [c1 EXCEPT !.timeout = OrDefault(@, 0, DefaultTimeout)]
           c3 == [c2 EXCEPT !.router = OrDefault(@, "", "griffino.router")]
           c4 == [c3 EXCEPT !.plugins = OrDefault(@, "", "griffino.plugins")]
           Kept(d, e) == /\ IsConfig(e) /\ e.host = d.host /\ e.user = d.user
                         /\ e.password = d.password /\ e.pluginID = d.pluginID
                         /\ e.userID = d.userID
<1> USE DEF IsConfig, ZeroConfig, OrDefault, DefaultPort, DefaultTimeout
<1>1. Kept(c, c1) /\ c1.port # 0 /\ c1.timeout = c.timeout
  OBVIOUS
<1>2. Kept(c1, c2) /\ c2.port = c1.port /\ c2.timeout # 0
      /\ (c1.timeout = 0 => c2.timeout = DefaultTimeout)
  <2> HIDE DEF c1
  <2>1. IsConfig(c1)
    BY <1>1
  <2>2. QED
    BY <2>1
<1>3. Kept(c2, c3) /\ c3.port = c2.port /\ c3.timeout = c2.timeout /\ c3.router # ""
  <2> HIDE DEF c1, c2
  <2>1. IsConfig(c2)
    BY <1>2
  <2>2. QED
    BY <2>1
<1>4. Kept(c3, c4) /\ c4.port = c3.port /\ c4.timeout = c3.timeout
      /\ c4.router = c3.router /\ c4.plugins # ""
  <2> HIDE DEF c1, c2, c3
  <2>1. IsConfig(c3)
    BY <1>3
  <2>2. QED
    BY <2>1
<1>5. WithDefaults(c) = c4
  BY DEF WithDefaults
<1>6. QED
  <2> HIDE DEF c1, c2, c3, c4, IsConfig, ZeroConfig, OrDefault, DefaultPort, DefaultTimeout
  <2>1. QED
    BY <1>1, <1>2, <1>3, <1>4, <1>5

(* A configuration from the environment has an address, both credentials and a
   plugin id. *)
LEMMA EnvironmentConfig ==
  ASSUME NEW env, ConfigFromEnv(env).ok
  PROVE  /\ IsConfig(ConfigFromEnv(env))
         /\ ConfigFromEnv(env).host # "" /\ ConfigFromEnv(env).user # ""
         /\ ConfigFromEnv(env).password # "" /\ ConfigFromEnv(env).pluginID # ""
<1>1. (\A name \in Required : env[name] # "") /\ ConfigFromEnv(env) = WithDefaults(FromEnv(env))
  BY DEF ConfigFromEnv, NoConfig
<1>2. PICK c : c = FromEnv(env)
  OBVIOUS
<1>3. /\ IsConfig(c)
      /\ c.host = env["RABBITMQ_HOST"] /\ c.user = env["RABBITMQ_USER"]
      /\ c.password = env["RABBITMQ_PASSWORD"] /\ c.pluginID = env["GRIFFINO_PLUGIN_ID"]
  BY <1>2 DEF FromEnv, ZeroConfig, IsConfig
<1>4. QED
  BY <1>1, <1>2, <1>3, DefaultsFill DEF Required

(* A placeholder has none of them, and the plugin id it is made for. *)
LEMMA PlaceholderIs ==
  ASSUME NEW id
  PROVE  /\ IsConfig(PlaceholderConfig(id))
         /\ PlaceholderConfig(id).host = "" /\ PlaceholderConfig(id).user = ""
         /\ PlaceholderConfig(id).password = "" /\ PlaceholderConfig(id).pluginID = id
<1>1. PICK c : c = [ZeroConfig EXCEPT !.pluginID = id]
  OBVIOUS
<1>2. IsConfig(c) /\ c.host = "" /\ c.user = "" /\ c.password = "" /\ c.pluginID = id
  BY <1>1 DEF ZeroConfig, IsConfig
<1>3. PlaceholderConfig(id) = WithDefaults(c)
  BY <1>1 DEF PlaceholderConfig
<1>4. QED
  BY <1>2, <1>3, DefaultsFill

(* The address and both credentials are there, or none of them is. *)
Together(c) == (c.host = "") = (c.user = "") /\ (c.host = "") = (c.password = "")

(* What a program gives with WithConfig is a configuration. *)
LEMMA GivenIs ==
  ASSUME NEW given \in Given, given.ok
  PROVE  IsConfig(given)
<1>1. \A h, n, p, t : IsConfig(Configured(h, n, p, t))
  BY DEF Configured, ZeroConfig, IsConfig
<1>2. given # NoConfig
  BY DEF NoConfig
<1>3. QED
  BY <1>1, <1>2 DEF Given

(* So a client that New configures itself has them together, and every client
   has a port, a timeout and both exchanges. *)
LEMMA NewIs ==
  ASSUME NEW given \in Given, NEW id, NEW env, New(given, id, env).ok
  PROVE  /\ New(given, id, env).port # 0 /\ New(given, id, env).timeout # 0
         /\ New(given, id, env).router # "" /\ New(given, id, env).plugins # ""
         /\ ~given.ok => Together(New(given, id, env)) /\ New(given, id, env).pluginID # ""
<1>1. PICK c : c = ResolvedConfig(given, id, env)
  OBVIOUS
<1>2. c.ok /\ New(given, id, env) = [WithDefaults(c) EXCEPT !.pluginID = OrDefault(@, "", id)]
  BY <1>1 DEF New, NoConfig
<1>3. IsConfig(c) /\ (~given.ok => Together(c) /\ c.pluginID # "")
  <2>1. CASE given.ok
    BY <1>1, <2>1, GivenIs DEF ResolvedConfig
  <2>2. CASE ~given.ok /\ ConfigFromEnv(env).ok
    BY <1>1, <2>2, EnvironmentConfig DEF ResolvedConfig, Together
  <2>3. CASE ~given.ok /\ ~ConfigFromEnv(env).ok
    <3>1. id # "" /\ c = PlaceholderConfig(id)
      BY <1>1, <1>2, <2>3 DEF ResolvedConfig, NoConfig
    <3>2. QED
      BY <3>1, PlaceholderIs DEF Together
  <2>4. QED
    BY <2>1, <2>2, <2>3
<1>4. PICK d : d = WithDefaults(c)
  OBVIOUS
<1>5. /\ IsConfig(d)
      /\ d.port # 0 /\ d.timeout # 0 /\ d.router # "" /\ d.plugins # ""
      /\ d.host = c.host /\ d.user = c.user /\ d.password = c.password /\ d.pluginID = c.pluginID
  BY <1>3, <1>4, DefaultsFill
<1>6. PICK new : new = [d EXCEPT !.pluginID = OrDefault(@, "", id)]
  OBVIOUS
<1>7. /\ new.port = d.port /\ new.timeout = d.timeout /\ new.router = d.router
      /\ new.plugins = d.plugins /\ new.host = d.host /\ new.user = d.user
      /\ new.password = d.password
      /\ d.pluginID # "" => new.pluginID = d.pluginID
  BY <1>5, <1>6 DEF IsConfig, ZeroConfig, OrDefault
<1>8. New(given, id, env) = new
  BY <1>2, <1>4, <1>6
<1>9. QED
  BY <1>3, <1>5, <1>7, <1>8 DEF Together

(* New makes no half-configured client: ports, timeouts and exchanges are never
   zero, and the broker's address and credentials come together. *)
THEOREM ClientsHaveEverything == Spec => []ClientsAreWhole
<1>1. Init => ClientsAreWhole
  BY DEF Init, ClientsAreWhole
<1>2. Inputs /\ ClientsAreWhole /\ [Next]_vars => ClientsAreWhole'
  <2>1. SUFFICES ASSUME Inputs, ClientsAreWhole, [Next]_vars, op' = "new", done', out'.client.ok
                 PROVE  ClientsAreWhole'
    BY DEF ClientsAreWhole
  <2>2. CASE UNCHANGED vars
    BY <2>1, <2>2 DEF ClientsAreWhole, vars
  <2>3. CASE MakeClient
    <3>1. PICK client : client = New(arg.given, arg.id, arg.env)
      OBVIOUS
    <3>2. out'.client = client /\ arg' = arg /\ op = "new"
      BY <2>3, <3>1 DEF MakeClient, Convert
    <3>3. arg.given \in Given
      BY <2>1, <3>2 DEF Inputs
    <3>4. /\ client.port # 0 /\ client.timeout # 0 /\ client.router # "" /\ client.plugins # ""
          /\ ~arg.given.ok => Together(client)
      BY <2>1, <3>1, <3>2, <3>3, NewIs
    <3>5. ~arg.given.ok =>
            {client.host = "", client.user = "", client.password = ""} \in {{TRUE}, {FALSE}}
      BY <3>4 DEF Together
    <3>6. QED
      BY <3>2, <3>4, <3>5 DEF ClientsAreWhole
  <2>4. QED
    BY <2>1, <2>2, <2>3, Steps
<1>3. QED
  BY <1>1, <1>2, InputsInvariance, PTL DEF Spec

-----------------------------------------------------------------------------
(* What a client sends has its payload, and comes from no task node. *)
IsSent(m, taskID, userID, pluginID, payload) ==
    /\ IsEnvelope(m, taskID, "id", userID, pluginID)
    /\ "nodeId" \notin DOMAIN m
    /\ "payload" \in DOMAIN m /\ m["payload"] = Payload(payload)

(* The slot of an invoke and the event of a dispatch are besides. *)
LEMMA WithSent ==
  ASSUME NEW m, NEW taskID, NEW userID, NEW pluginID, NEW payload,
         IsSent(m, taskID, userID, pluginID, payload),
         NEW f \in {"slot", "event"}, NEW v
  PROVE  IsSent(With(m, f, v), taskID, userID, pluginID, payload)
<1>1. /\ IsEnvelope(m, taskID, "id", userID, pluginID)
      /\ "nodeId" \notin DOMAIN m
      /\ "payload" \in DOMAIN m /\ m["payload"] = Payload(payload)
  BY DEF IsSent
<1>2. IsEnvelope(With(m, f, v), taskID, "id", userID, pluginID)
  BY <1>1, WithEnvelope
<1>3. DOMAIN With(m, f, v) = DOMAIN m \cup {f}
  BY DEF With
<1>4. With(m, f, v)["payload"] = m["payload"]
  BY <1>1, WithField
<1>5. QED
  BY <1>1, <1>2, <1>3, <1>4 DEF IsSent

(* An envelope with a payload is such a message, *)
LEMMA SentEnvelope ==
  ASSUME NEW taskID, NEW userID, NEW pluginID, NEW payload
  PROVE  IsSent(With(Envelope(taskID, "id", userID, pluginID), "payload", Payload(payload)),
                taskID, userID, pluginID, payload)
<1>1. PICK e, m : /\ e = Envelope(taskID, "id", userID, pluginID)
                  /\ m = With(e, "payload", Payload(payload))
  OBVIOUS
<1>2. /\ IsEnvelope(e, taskID, "id", userID, pluginID)
      /\ DOMAIN e = {"taskId", "msgId", "userId", "pluginId"}
  BY <1>1, EnvelopeIs
<1>3. IsEnvelope(m, taskID, "id", userID, pluginID)
  BY <1>1, <1>2, WithEnvelope
<1>4. DOMAIN m = DOMAIN e \cup {"payload"} /\ m["payload"] = Payload(payload)
  BY <1>1 DEF With
<1>5. IsSent(m, taskID, userID, pluginID, payload)
  BY <1>2, <1>3, <1>4 DEF IsSent
<1>6. QED
  BY <1>1, <1>5

(* and so is what Invoke sends *)
LEMMA InvokeIsSent ==
  ASSUME NEW taskID, NEW userID, NEW pluginID, NEW payload, NEW slot
  PROVE  IsSent(BuildInvokeEnvelope(taskID, "id", userID, pluginID, payload, slot),
                taskID, userID, pluginID, payload)
<1>1. PICK m : m = With(Envelope(taskID, "id", userID, pluginID), "payload", Payload(payload))
  OBVIOUS
<1>2. IsSent(m, taskID, userID, pluginID, payload)
  BY <1>1, SentEnvelope
<1>3. IsSent(With(m, "slot", Str(slot)), taskID, userID, pluginID, payload)
  BY <1>2, WithSent
<1>4. BuildInvokeEnvelope(taskID, "id", userID, pluginID, payload, slot)
        = IF slot = "" THEN m ELSE With(m, "slot", Str(slot))
  BY <1>1 DEF BuildInvokeEnvelope, WithUnlessEmpty
<1>5. QED
  BY <1>2, <1>3, <1>4

(* and what Dispatch sends. *)
LEMMA DispatchIsSent ==
  ASSUME NEW taskID, NEW userID, NEW pluginID, NEW event, NEW payload
  PROVE  IsSent(BuildDispatchEnvelope(taskID, "id", userID, pluginID, event, payload),
                taskID, userID, pluginID, payload)
<1>1. PICK m : m = With(Envelope(taskID, "id", userID, pluginID), "payload", Payload(payload))
  OBVIOUS
<1>2. IsSent(m, taskID, userID, pluginID, payload)
  BY <1>1, SentEnvelope
<1>3. BuildDispatchEnvelope(taskID, "id", userID, pluginID, event, payload)
        = With(m, "event", Str(event))
  BY <1>1 DEF BuildDispatchEnvelope
<1>4. QED
  BY <1>2, <1>3, WithSent

(* A nil payload arrives as an empty one, integers as floats. *)
LEMMA PayloadArrives ==
  ASSUME NEW m, NEW taskID, NEW userID, NEW pluginID, NEW payload \in Payloads,
         IsSent(m, taskID, userID, pluginID, payload), Encodable(m)
  PROVE  PayloadOf(Received(m)) \in {"empty", "floats"}
<1>1. PICK r : r = Received(m)
  OBVIOUS
<1>2. "payload" \in DOMAIN r /\ r["payload"] = Decoded(Payload(payload))
  BY <1>1 DEF IsSent, Received
<1>3. Null.type = "null" /\ \A o : Object(o).type = "object" /\ Object(o).value = o
  BY DEF Null, Object
<1>4. CASE payload = "nil"
  <2>1. Payload(payload) = Null /\ Null # Object("ints")
    BY <1>3, <1>4 DEF Payload
  <2>2. r["payload"] = Null
    BY <1>2, <2>1 DEF Decoded
  <2>3. PayloadOf(r) = "empty"
    BY <1>3, <2>2 DEF PayloadOf, Has
  <2>4. QED
    BY <1>1, <2>3
<1>5. CASE payload # "nil"
  <2>1. m["payload"] = Object(payload)
    BY <1>5 DEF IsSent, Payload
  <2>2. payload # "unencodable"
    BY <2>1 DEF Encodable, IsSent
  <2>3. payload \in {"empty", "ints", "floats"}
    BY <1>5, <2>2 DEF Payloads
  <2>4. Payload(payload) = Object(payload)
    BY <1>5 DEF Payload
  <2>5. r["payload"] = Object(IF payload = "ints" THEN "floats" ELSE payload)
    <3>1. CASE payload = "ints"
      BY <1>2, <2>4, <3>1 DEF Decoded
    <3>2. CASE payload # "ints"
      <4>1. Object(payload).value # Object("ints").value
        BY <1>3, <3>2
      <4>2. QED
        BY <1>2, <2>4, <3>2, <4>1 DEF Decoded
    <3>3. QED
      BY <3>1, <3>2
  <2>6. Has(r, "payload", "object") /\ r["payload"].value = IF payload = "ints" THEN "floats" ELSE payload
    BY <1>2, <1>3, <2>5 DEF Has
  <2>7. QED
    BY <1>1, <2>3, <2>6 DEF PayloadOf
<1>6. QED
  BY <1>4, <1>5

(* What is sent under the id of a plugin decodes to what was sent. *)
LEMMA SentArrives ==
  ASSUME NEW m, NEW taskID, NEW userID, NEW pluginID, NEW payload \in Payloads, NEW default,
         IsSent(m, taskID, userID, pluginID, payload), Encodable(m), pluginID # ""
  PROVE  LET hc == ContextFromMessage(Received(m), default)
         IN  /\ hc.ok
             /\ hc.pluginID = pluginID
             /\ hc.userID = userID
             /\ NullableString(hc.taskID) = m["taskId"]
             /\ hc.nodeID = ""
             /\ hc.payload \in {"empty", "floats"}
<1>1. PICK hc : hc = ContextFromMessage(Received(m), default)
  OBVIOUS
<1>2. IsEnvelope(m, taskID, "id", userID, pluginID) /\ "nodeId" \notin DOMAIN m
  BY DEF IsSent
<1>3. Understood(hc, userID, pluginID, taskID, "") /\ hc.payload = PayloadOf(Received(m))
  BY <1>1, <1>2, EnvelopeArrives
<1>4. m["taskId"] = NullableString(taskID)
  BY <1>2 DEF IsEnvelope, HasNullable
<1>5. QED
  BY <1>1, <1>3, <1>4, PayloadArrives DEF Understood

(* What a client that New configured sends with Invoke and Dispatch decodes at
   the receiver, to the sender's user, plugin and task: the plugin id is never
   empty there, which ContextFromMessage would refuse. *)
THEOREM EnvelopesAreUnderstood == Spec => []EnvelopesArrive
<1>1. Init => EnvelopesArrive
  BY DEF Init, EnvelopesArrive
<1>2. Inputs /\ EnvelopesArrive /\ [Next]_vars => EnvelopesArrive'
  <2>1. SUFFICES ASSUME Inputs, EnvelopesArrive, [Next]_vars, op' = "new", done', out'.client.ok,
                        ~arg'.given.ok
                 PROVE  EnvelopesArrive'
    BY DEF EnvelopesArrive
  <2>2. CASE UNCHANGED vars
    BY <2>1, <2>2 DEF EnvelopesArrive, vars
  <2>3. CASE MakeClient
    <3>1. PICK client : client = New(arg.given, arg.id, arg.env)
      OBVIOUS
    <3> DEFINE invokes == {BuildInvokeEnvelope(task, "id", client.userID, client.pluginID, payload, slot) :
                              task \in Values, slot \in Values, payload \in Payloads}
               events == {BuildDispatchEnvelope(task, "id", client.userID, client.pluginID, "e", payload) :
                              task \in Values, payload \in Payloads}
               sent == IF ~client.ok THEN {} ELSE invokes \cup events
    <3>2. out' = [client |-> client, sent |-> {m \in sent : Encodable(m)}] /\ arg' = arg /\ op = "new"
      BY <2>3, <3>1 DEF MakeClient, Convert
    <3>3. out'.client = client /\ out'.sent = {m \in sent : Encodable(m)}
      <4> HIDE DEF sent
      <4>1. QED
        BY <3>2
    <3>4. arg.given \in Given /\ client.ok /\ ~arg.given.ok
      BY <2>1, <3>2, <3>3 DEF Inputs
    <3>5. client.pluginID # ""
      BY <3>1, <3>4, NewIs
    <3>6. ASSUME NEW m \in out'.sent
          PROVE  Encodable(m) /\ \E task : \E payload \in Payloads :
                    IsSent(m, task, client.userID, client.pluginID, payload)
      <4>1. Encodable(m) /\ m \in invokes \cup events
        BY <3>3, <3>4
      <4>2. CASE m \in invokes
        BY <4>1, <4>2, InvokeIsSent
      <4>3. CASE m \in events
        BY <4>1, <4>3, DispatchIsSent
      <4>4. QED
        BY <4>1, <4>2, <4>3
    <3> HIDE DEF sent
    <3>7. ASSUME NEW m \in out'.sent, NEW default \in Values
          PROVE  LET hc == ContextFromMessage(Received(m), default)
                 IN  /\ hc.ok
                     /\ hc.pluginID = client.pluginID
                     /\ hc.userID = client.userID
                     /\ NullableString(hc.taskID) = m["taskId"]
                     /\ hc.nodeID = ""
                     /\ hc.payload \in {"empty", "floats"}
      <4>1. PICK task : \E payload \in Payloads : IsSent(m, task, client.userID, client.pluginID, payload)
        BY <3>6
      <4>2. PICK payload \in Payloads : IsSent(m, task, client.userID, client.pluginID, payload)
        BY <4>1
      <4>3. Encodable(m)
        BY <3>6
      <4>4. QED
        BY <3>5, <4>2, <4>3, SentArrives
    <3>8. QED
      BY <3>3, <3>7, Zenon DEF EnvelopesArrive
  <2>4. QED
    BY <2>1, <2>2, <2>3, Steps
<1>3. QED
  BY <1>1, <1>2, InputsInvariance, PTL DEF Spec

-----------------------------------------------------------------------------
(* An option that is given counts, and otherwise the default does. *)
LEMMA OptionIs ==
  ASSUME NEW S, NEW option \in MayGive(S), NEW default
  PROVE  /\ option = {} => OptionOr(option, default) = default
         /\ option # {} => OptionOr(option, default) \in S /\ option = {OptionOr(option, default)}
<1>1. option = {} \/ \E x \in S : option = {x}
  BY DEF MayGive
<1>2. CASE option = {}
  BY <1>2 DEF OptionOr
<1>3. CASE option # {}
  <2>1. PICK x \in S : option = {x}
    BY <1>1, <1>3
  <2>2. (CHOOSE v \in option : TRUE) = x
    BY <2>1
  <2>3. QED
    BY <1>3, <2>1, <2>2 DEF OptionOr
<1>4. QED
  BY <1>2, <1>3

(* What the truncation towards zero loses. *)
LEMMA MillisecondsLose ==
  ASSUME NEW d \in Int
  PROVE  /\ Milliseconds(d) \in Int
         /\ d - Milliseconds(d) * 1000 \in -999..999
         /\ d >= 0 => Milliseconds(d) * 1000 \in 0..d
<1>1. CASE d < 0
  BY <1>1 DEF Milliseconds
<1>2. CASE ~(d < 0)
  BY <1>2 DEF Milliseconds
<1>3. QED
  BY <1>1, <1>2

(* The configuration of a client with a user. *)
LEMMA CallersConfig ==
  ASSUME NEW user
  PROVE  LET config == WithDefaults([ZeroConfig EXCEPT !.pluginID = "p", !.userID = user])
         IN  config.pluginID = "p" /\ config.userID = user /\ config.timeout = DefaultTimeout
<1>1. PICK c : c = [ZeroConfig EXCEPT !.pluginID = "p", !.userID = user]
  OBVIOUS
<1>2. IsConfig(c) /\ c.pluginID = "p" /\ c.userID = user /\ c.timeout = 0
  BY <1>1 DEF ZeroConfig, IsConfig
<1>3. QED
  BY <1>1, <1>2, DefaultsFill

(* A published message: its key and its body are for one user. *)
IsFor(p, user, taskID) ==
    /\ p.key[4] = <<user>>
    /\ \E payload \in Payloads : IsSent(p.body, taskID, user, "p", payload) /\ Encodable(p.body)

(* The fourth segment of a key on the router exchange is its user. *)
LEMMA KeyNamesUser ==
  ASSUME NEW verb \in Word, NEW user \in Values, NEW k,
         IsRouterKey(k, verb, Name(<<user>>), NodeResult)
  PROVE  k[4] = <<user>>
<1>1. PICK u, n : u = Name(<<user>>) /\ n = NodeResult
  OBVIOUS
<1>2. u \in Seq(Segments) /\ Len(u) = 1 /\ u[1] = <<user>>
  BY <1>1, WordIs DEF Word
<1>3. n \in Seq(Segments) /\ IsRouterKey(k, verb, u, n)
  BY <1>1, NodeResultIs
<1>4. \A i \in 1..Len(u) : k[3 + i] = u[i]
  <2>1. u \in Seq(Segments)
    BY <1>2
  <2>2. QED
    BY ONLY <1>3, <2>1, verb \in Word, RouterKey
<1>5. k[3 + 1] = u[1]
  BY <1>2, <1>4
<1>6. QED
  BY <1>2, <1>5

(* JSON encodes what a call with a payload of integers sends. *)
LEMMA EncodableEnvelope ==
  ASSUME NEW taskID, NEW userID, NEW pluginID, NEW slot
  PROVE  /\ Encodable(BuildInvokeEnvelope(taskID, "id", userID, pluginID, "ints", slot))
         /\ Encodable(BuildDispatchEnvelope(taskID, "id", userID, pluginID, "e", "ints"))
<1>1. Null.type = "null" /\ \A o : Object(o).type = "object" /\ Object(o).value = o
      /\ Str(o).type = "string"
  BY DEF Null, Object, Str
<1>2. \A s : Str(s) # Object("unencodable") /\ NullableString(s) # Object("unencodable")
  BY <1>1 DEF NullableString
<1>3. Payload("ints") # Object("unencodable")
  BY <1>1 DEF Payload
<1>4. Encodable(Envelope(taskID, "id", userID, pluginID))
  BY <1>2 DEF Envelope, Encodable
<1>5. ASSUME NEW m, NEW f, NEW v, Encodable(m), v # Object("unencodable")
      PROVE  Encodable(With(m, f, v))
  BY <1>5 DEF Encodable, With
<1>6. PICK m : m = With(Envelope(taskID, "id", userID, pluginID), "payload", Payload("ints"))
  OBVIOUS
<1>7. Encodable(m)
  BY <1>3, <1>4, <1>5, <1>6
<1>8. Encodable(With(m, "slot", Str(slot))) /\ Encodable(With(m, "event", Str("e")))
  BY <1>2, <1>5, <1>7
<1>9. QED
  BY <1>6, <1>7, <1>8 DEF BuildInvokeEnvelope, BuildDispatchEnvelope, WithUnlessEmpty

(* So is what Invoke publishes, for the user of its options, *)
LEMMA InvokesAgree ==
  ASSUME NEW config, NEW options, config.pluginID = "p", NEW user \in Values,
         user = UserOf(options, config),
         NEW p, p = PublishedInvoke(InvokeRequest(config, options, "ints"), NodeResult)
  PROVE  IsFor(p, user, OptionOr(options.taskID, ""))
<1>1. PICK req, task, slot :
        /\ req = InvokeRequest(config, options, "ints")
        /\ task = OptionOr(options.taskID, "")
        /\ slot = OptionOr(options.slot, "")
  OBVIOUS
<1>2. /\ req.userID = user /\ req.pluginID = "p" /\ req.taskID = task /\ req.slot = slot /\ req.payload = "ints"
  BY <1>1 DEF InvokeRequest
<1>3. /\ p.key = InvokeRoutingKey(Name(<<user>>), NodeResult)
      /\ p.body = BuildInvokeEnvelope(task, "id", user, "p", "ints", slot)
  BY <1>1, <1>2 DEF PublishedInvoke
<1>4. IsRouterKey(p.key, "invoke", Name(<<user>>), NodeResult)
  BY <1>3 DEF IsRouterKey, InvokeRoutingKey
<1>5. "invoke" \in Word /\ user \in Values
  BY DEF Word
<1>6. p.key[4] = <<user>>
  BY <1>4, <1>5, KeyNamesUser
<1>7. IsSent(p.body, task, user, "p", "ints") /\ Encodable(p.body) /\ "ints" \in Payloads
  BY <1>3, InvokeIsSent, EncodableEnvelope DEF Payloads
<1>8. QED
  BY <1>1, <1>3, <1>6, <1>7 DEF IsFor

(* and what Dispatch publishes. *)
LEMMA DispatchesAgree ==
  ASSUME NEW config, NEW options, config.pluginID = "p", NEW user \in Values,
         user = UserOf(options, config),
         NEW p, p = PublishedDispatch(DispatchRequest(config, options, "ints"), NodeResult)
  PROVE  /\ IsFor(p, user, OptionOr(options.taskID, ""))
         /\ p.expiration = {} /\ p.timer = {}
<1>1. PICK req, task :
        /\ req = DispatchRequest(config, options, "ints")
        /\ task = OptionOr(options.taskID, "")
  OBVIOUS
<1>2. req.userID = user /\ req.pluginID = "p" /\ req.taskID = task /\ req.payload = "ints"
  BY <1>1 DEF DispatchRequest
<1>3. /\ p.key = DispatchRoutingKey(Name(<<user>>), NodeResult)
      /\ p.body = BuildDispatchEnvelope(task, "id", user, "p", "e", "ints")
      /\ p.expiration = {} /\ p.timer = {}
  BY <1>1, <1>2 DEF PublishedDispatch
<1>4. IsRouterKey(p.key, "dispatch", Name(<<user>>), NodeResult)
  BY <1>3 DEF IsRouterKey, DispatchRoutingKey
<1>5. "dispatch" \in Word /\ user \in Values
  BY DEF Word
<1>6. p.key[4] = <<user>>
  BY <1>4, <1>5, KeyNamesUser
<1>7. IsSent(p.body, task, user, "p", "ints") /\ Encodable(p.body) /\ "ints" \in Payloads
  BY <1>3, DispatchIsSent, EncodableEnvelope DEF Payloads
<1>8. QED
  BY <1>1, <1>3, <1>6, <1>7 DEF IsFor

(* What one call published agrees in itself. *)
Agrees(call, default, p) ==
    LET user == OptionOr(call.userID, default)
        hc == ContextFromMessage(Received(p.body), "q")
    IN  /\ hc.ok
        /\ hc.userID = user
        /\ p.key[4] = <<user>>
        /\ hc.taskID = OptionOr(call.taskID, "")
        /\ p.expiration = p.timer
        /\ call.kind = "invoke" =>
            \A asked \in call.timeout : \A ms \in p.expiration :
                /\ asked - ms * 1000 \in -999..999
                /\ asked >= 0 => ms * 1000 \in 0..asked

(* Such a message decodes to its user and task. *)
LEMMA ForArrives ==
  ASSUME NEW p, NEW user, NEW task, IsFor(p, user, task)
  PROVE  /\ p.key[4] = <<user>>
         /\ LET hc == ContextFromMessage(Received(p.body), "q")
            IN  hc.ok /\ hc.userID = user /\ hc.taskID = task
<1>1. PICK payload \in Payloads : IsSent(p.body, task, user, "p", payload)
  BY DEF IsFor
<1>2. PICK m : m = p.body
  OBVIOUS
<1>3. IsEnvelope(m, task, "id", user, "p") /\ "nodeId" \notin DOMAIN m
  BY <1>1, <1>2 DEF IsSent
<1>4. Understood(ContextFromMessage(Received(m), "q"), user, "p", task, "")
  BY <1>3, EnvelopeArrives
<1>5. QED
  BY <1>2, <1>4 DEF IsFor, Understood

(* A call of Invoke agrees, *)
LEMMA InvokeAgrees ==
  ASSUME NEW default \in Values, NEW config, config.pluginID = "p", config.userID = default,
         NEW call, call.kind = "invoke", call.userID \in MayGive(Values),
         call.timeout \in MayGive(Timeouts)
  PROVE  Agrees(call, default, PublishedInvoke(InvokeRequest(config, call, "ints"), NodeResult))
<1>1. PICK p, ms, user, task :
        /\ p = PublishedInvoke(InvokeRequest(config, call, "ints"), NodeResult)
        /\ ms = InvokeRequest(config, call, "ints").timeoutMS
        /\ user = UserOf(call, config)
        /\ task = OptionOr(call.taskID, "")
  OBVIOUS
<1>2. user = OptionOr(call.userID, default) /\ user \in Values
  BY <1>1, OptionIs DEF UserOf
<1>3. IsFor(p, user, task) /\ p.expiration = {ms} /\ p.timer = {ms}
  <2>1. IsFor(p, user, task)
    BY <1>1, <1>2, InvokesAgree
  <2>2. p.expiration = {ms} /\ p.timer = {ms}
    BY <1>1 DEF PublishedInvoke
  <2>3. QED
    BY <2>1, <2>2
<1>4. /\ p.key[4] = <<user>>
      /\ LET hc == ContextFromMessage(Received(p.body), "q")
         IN  hc.ok /\ hc.userID = user /\ hc.taskID = task
  BY <1>3, ForArrives
<1>5. ASSUME NEW asked \in call.timeout
      PROVE  /\ asked - ms * 1000 \in -999..999
             /\ asked >= 0 => ms * 1000 \in 0..asked
  <2>1. call.timeout = {asked} /\ asked \in Int
    BY <1>5, TimeoutsAssumption DEF MayGive
  <2>2. ms = Milliseconds(asked)
    BY <1>1, <2>1 DEF OptionOr, InvokeRequest
  <2>3. asked \in Int
    BY <2>1
  <2>4. /\ asked - Milliseconds(asked) * 1000 \in -999..999
        /\ asked >= 0 => Milliseconds(asked) * 1000 \in 0..asked
    BY ONLY <2>3, MillisecondsLose
  <2>5. QED
    BY <2>2, <2>4
<1>6. ASSUME NEW asked \in call.timeout, NEW given \in p.expiration
      PROVE  /\ asked - given * 1000 \in -999..999
             /\ asked >= 0 => given * 1000 \in 0..asked
  <2>1. given = ms
    BY <1>3
  <2>2. QED
    BY <1>5, <2>1
<1>7. p.expiration = p.timer
  BY <1>3
<1>8. Agrees(call, default, p)
  <2>1. user = OptionOr(call.userID, default) /\ task = OptionOr(call.taskID, "")
    BY <1>1, <1>2
  <2>2. /\ p.key[4] = <<OptionOr(call.userID, default)>>
        /\ LET hc == ContextFromMessage(Received(p.body), "q")
           IN  /\ hc.ok
               /\ hc.userID = OptionOr(call.userID, default)
               /\ hc.taskID = OptionOr(call.taskID, "")
    BY <1>4, <2>1
  <2>3. QED
    BY <1>6, <1>7, <2>2, Zenon DEF Agrees
<1>9. QED
  BY <1>1, <1>8

(* and a call of Dispatch. *)
LEMMA DispatchAgrees ==
  ASSUME NEW default \in Values, NEW config, config.pluginID = "p", config.userID = default,
         NEW call, call.kind = "dispatch", call.userID \in MayGive(Values)
  PROVE  Agrees(call, default, PublishedDispatch(DispatchRequest(config, call, "ints"), NodeResult))
<1>1. PICK p, user, task :
        /\ p = PublishedDispatch(DispatchRequest(config, call, "ints"), NodeResult)
        /\ user = UserOf(call, config)
        /\ task = OptionOr(call.taskID, "")
  OBVIOUS
<1>2. user = OptionOr(call.userID, default) /\ user \in Values
  BY <1>1, OptionIs DEF UserOf
<1>3. IsFor(p, user, task) /\ p.expiration = {} /\ p.timer = {}
  BY <1>1, <1>2, DispatchesAgree
<1>4. /\ p.key[4] = <<user>>
      /\ LET hc == ContextFromMessage(Received(p.body), "q")
         IN  hc.ok /\ hc.userID = user /\ hc.taskID = task
  BY <1>3, ForArrives
<1>5. QED
  BY <1>1, <1>2, <1>3, <1>4 DEF Agrees

(* The routing key, the envelope and the receiver's context of a call name one
   user and task, the call's options over the client's configuration; the
   expiration of an invoke is its timer, within a millisecond of what was
   asked and never above it, unless that is negative. *)
THEOREM RequestsAreConsistent == Spec => []RequestsAgree
<1>1. Init => RequestsAgree
  BY DEF Init, RequestsAgree
<1>2. Inputs /\ RequestsAgree /\ [Next]_vars => RequestsAgree'
  <2>1. SUFFICES ASSUME Inputs, RequestsAgree, [Next]_vars, op' = "call", done'
                 PROVE  RequestsAgree'
    BY DEF RequestsAgree
  <2>2. CASE UNCHANGED vars
    <3>1. op' = op /\ arg' = arg /\ done' = done /\ out' = out
      BY <2>2 DEF vars
    <3>2. Agrees(arg.call, arg.user, out)
      BY <2>1, <3>1, Zenon DEF RequestsAgree, Agrees
    <3>3. Agrees(arg'.call, arg'.user, out')
      BY <3>1, <3>2
    <3>4. QED
      BY <3>3, Zenon DEF RequestsAgree, Agrees
  <2>3. CASE Call
    <3>1. PICK config : config = WithDefaults([ZeroConfig EXCEPT !.pluginID = "p", !.userID = arg.user])
      OBVIOUS
    <3>2. PICK call : call = arg.call
      OBVIOUS
    <3>3. /\ arg' = arg /\ op = "call"
          /\ out' = IF call.kind = "invoke"
                    THEN PublishedInvoke(InvokeRequest(config, call, "ints"), NodeResult)
                    ELSE PublishedDispatch(DispatchRequest(config, call, "ints"), NodeResult)
      BY <2>3, <3>1, <3>2, Zenon DEF Call, Convert
    <3>4. config.pluginID = "p" /\ config.userID = arg.user
      BY <3>1, CallersConfig
    <3>5. /\ arg.user \in Values /\ call.userID \in MayGive(Values)
          /\ call.kind \in {"invoke", "dispatch"}
          /\ call.kind = "invoke" => call.timeout \in MayGive(Timeouts)
      BY <2>1, <3>2, <3>3 DEF Inputs, Calls
    <3>6. Agrees(call, arg.user, out')
      <4>1. CASE call.kind = "invoke"
        BY <3>3, <3>4, <3>5, <4>1, InvokeAgrees
      <4>2. CASE call.kind = "dispatch"
        BY <3>3, <3>4, <3>5, <4>2, DispatchAgrees
      <4>3. QED
        BY <3>5, <4>1, <4>2
    <3>7. Agrees(arg'.call, arg'.user, out')
      BY <3>2, <3>3, <3>6
    <3>8. QED
      BY <3>7, Zenon DEF RequestsAgree, Agrees
  <2>4. QED
    BY <2>1, <2>2, <2>3, Steps
<1>3. QED
  BY <1>1, <1>2, InputsInvariance, PTL DEF Spec

-----------------------------------------------------------------------------
(* The key that the store asks for is the one that the platform writes. *)
LEMMA StoreIs ==
  ASSUME NEW plugin, NEW env, NEW store, store = NewStore(plugin, RedisConfigFromEnv(env)), store.ok
  PROVE  store.pluginID = plugin /\ store.keyPrefix = <<Prefix(env)>>
<1>1. PICK cfg : cfg = RedisConfigFromEnv(env)
  OBVIOUS
<1>2. ~NoConfig.ok
  BY DEF NoConfig
<1>3. /\ cfg.ok
      /\ store.pluginID = plugin
      /\ store.keyPrefix = <<OrDefault(cfg.keyPrefix, "", "user")>>
  BY <1>1, <1>2 DEF NewStore
<1>4. cfg.keyPrefix = Prefix(env)
  BY <1>1, <1>2, <1>3 DEF RedisConfigFromEnv, Prefix
<1>5. Prefix(env) # ""
  BY DEF Prefix, OrDefault
<1>6. OrDefault(cfg.keyPrefix, "", "user") = Prefix(env)
  BY <1>4, <1>5 DEF OrDefault
<1>7. QED
  BY <1>3, <1>6

(* What the colons of a key separate is among the words. *)
LEMMA SegmentsAreWords == Seq(STRING) \subseteq Seq(Word)
<1>1. STRING \subseteq Word
  BY DEF Word
<1>2. QED
  BY <1>1, SeqMonotonic

(* The platform's key of an owner, in its parts. *)
LEMMA OwnersKey ==
  ASSUME NEW prefix \in Word, NEW owner \in Owners, Len(owner.user) = 1,
         NEW k, k = PlatformKey(prefix, owner)
  PROVE  /\ Len(k) = Len(owner.plugin) + 4
         /\ k[2] = owner.user[1]
         /\ \A i \in 1..Len(owner.plugin) : k[3 + i] = owner.plugin[i]
<1>1. PICK u, g, a, c, e :
        u = owner.user /\ g = owner.plugin /\ a = <<prefix>> /\ c = <<"plugin">> /\ e = <<"config">>
  OBVIOUS
<1>2. /\ u \in Seq(Word) /\ Len(u) = 1
      /\ g \in Seq(Word) /\ Len(g) \in Nat
  BY <1>1, SegmentsAreWords, OwnersAssumption
<1>3. /\ a \in Seq(Word) /\ Len(a) = 1
      /\ c \in Seq(Word) /\ Len(c) = 1
      /\ e \in Seq(Word) /\ Len(e) = 1
  BY <1>1 DEF Word
<1>4. PICK j : Joined(j, a, u, c, g)
  BY DEF Joined
<1>5. /\ j \in Seq(Word)
      /\ Len(j) = Len(a) + Len(u) + Len(c) + Len(g)
      /\ \A i \in 1..Len(u) : j[Len(a) + i] = u[i]
      /\ \A i \in 1..Len(g) : j[Len(a) + Len(u) + Len(c) + i] = g[i]
  <2>1. a \in Seq(Word) /\ u \in Seq(Word) /\ c \in Seq(Word) /\ g \in Seq(Word)
    BY <1>2, <1>3
  <2>2. QED
    BY ONLY <1>4, <2>1, FourParts
<1>6. k = j \o e
  BY <1>1, <1>4 DEF PlatformKey, Joined
<1>7. Len(k) = Len(j) + Len(e) /\ \A i \in 1..Len(j) : k[i] = j[i]
  <2>1. j \in Seq(Word) /\ e \in Seq(Word)
    BY <1>3, <1>5
  <2>2. QED
    BY ONLY <1>6, <2>1, TwoParts
<1>8. Len(j) = Len(g) + 3 /\ Len(k) = Len(g) + 4
  BY <1>2, <1>3, <1>5, <1>7
<1>9. k[2] = u[1]
  <2>1. j[2] = u[1]
    BY <1>2, <1>3, <1>5
  <2>2. QED
    BY <1>2, <1>7, <1>8, <2>1
<1>10. ASSUME NEW i \in 1..Len(g)
       PROVE  k[3 + i] = g[i]
  <2>1. j[3 + i] = g[i]
    <3>1. j[Len(a) + Len(u) + Len(c) + i] = g[i]
      BY <1>5
    <3>2. Len(a) + Len(u) + Len(c) + i = 3 + i
      BY <1>2, <1>3
    <3>3. QED
      BY <3>1, <3>2
  <2>2. 3 + i \in 1..Len(j)
    BY <1>2, <1>8
  <2>3. QED
    BY <1>7, <2>1, <2>2
<1>11. QED
  BY <1>1, <1>8, <1>9, <1>10

(* A key is of one owner, if user ids have no colons: the user is its second
   part, and the plugin is what the fixed words leave. *)
LEMMA OwnersTellApart ==
  ASSUME NEW prefix \in Word, NEW one \in Owners, NEW other \in Owners,
         Len(one.user) = 1, Len(other.user) = 1,
         PlatformKey(prefix, one) = PlatformKey(prefix, other)
  PROVE  one = other
<1>1. PICK k : k = PlatformKey(prefix, one)
  OBVIOUS
<1>2. /\ Len(k) = Len(one.plugin) + 4 /\ k[2] = one.user[1]
      /\ \A i \in 1..Len(one.plugin) : k[3 + i] = one.plugin[i]
  BY <1>1, OwnersKey
<1>3. /\ Len(k) = Len(other.plugin) + 4 /\ k[2] = other.user[1]
      /\ \A i \in 1..Len(other.plugin) : k[3 + i] = other.plugin[i]
  BY <1>1, OwnersKey
<1>4. /\ one \in [user : Seq(STRING) \ {<<>>}, plugin : Seq(STRING) \ {<<>>}]
      /\ other \in [user : Seq(STRING) \ {<<>>}, plugin : Seq(STRING) \ {<<>>}]
  BY OwnersAssumption
<1>5. /\ one.plugin \in Seq(STRING) /\ other.plugin \in Seq(STRING)
      /\ one.user \in Seq(STRING) /\ other.user \in Seq(STRING)
  BY <1>4
<1>6. one.plugin = other.plugin
  <2>1. Len(one.plugin) = Len(other.plugin)
    BY <1>2, <1>3, <1>5
  <2>2. \A i \in 1..Len(one.plugin) : one.plugin[i] = other.plugin[i]
    BY <1>2, <1>3, <2>1
  <2>3. QED
    BY <1>5, <2>1, <2>2, SeqEqual
<1>7. one.user = other.user
  <2>1. one.user[1] = other.user[1]
    BY <1>2, <1>3
  <2>2. Len(one.user) = Len(other.user)
    OBVIOUS
  <2>3. \A i \in 1..Len(one.user) : one.user[i] = other.user[i]
    BY <2>1
  <2>4. QED
    BY <1>5, <2>2, <2>3, SeqEqual
<1>8. QED
  BY <1>4, <1>6, <1>7

(* Two keys that differ hold what was stored under each. *)
LEMMA BothAreStored ==
  ASSUME NEW prefix, NEW one, NEW other,
         PlatformKey(prefix, one.owner) # PlatformKey(prefix, other.owner),
         NEW redis, redis = Stored(prefix, one, other)
  PROVE  \A x \in {one, other} :
            /\ PlatformKey(prefix, x.owner) \in DOMAIN redis
            /\ redis[PlatformKey(prefix, x.owner)] = x.payload
BY DEF Stored

(* GetValues reads for a user and a plugin what the platform stored for them,
   under the prefix of the environment, and nothing that was stored for other
   owners: the two keys differ. *)
THEOREM StoresReadTheirOwn == Spec => []StoredConfigsAreFound
<1>1. Init => StoredConfigsAreFound
  BY DEF Init, StoredConfigsAreFound
<1>2. Inputs /\ StoredConfigsAreFound /\ [Next]_vars => StoredConfigsAreFound'
  <2>1. SUFFICES ASSUME Inputs, StoredConfigsAreFound, [Next]_vars, op' = "stored", done', out'.store.ok,
                        arg'.mine.owner # arg'.other.owner,
                        Len(arg'.mine.owner.user) = 1, Len(arg'.other.owner.user) = 1
                 PROVE  StoredConfigsAreFound'
    BY DEF StoredConfigsAreFound
  <2>2. CASE UNCHANGED vars
    BY <2>1, <2>2 DEF StoredConfigsAreFound, vars
  <2>3. CASE ReadStored
    <3>1. PICK mine, other, env, prefix, store :
            /\ mine = arg.mine /\ other = arg.other /\ env = arg.env
            /\ prefix = Prefix(env)
            /\ store = NewStore(mine.owner.plugin, RedisConfigFromEnv(env))
      OBVIOUS
    <3> DEFINE contents == {Stored(prefix, mine, other), Stored(prefix, other, mine)}
               read == {GetValues(store, redis, mine.owner.user) : redis \in contents}
    <3>2. /\ arg' = arg /\ op = "stored"
          /\ out' = [store |-> store, read |-> IF ~store.ok THEN {} ELSE read]
      BY <2>3, <3>1, Zenon DEF ReadStored, Convert
    <3>3. out'.store = store /\ (store.ok => out'.read = read)
      <4> HIDE DEF read
      <4>1. QED
        BY <3>2
    <3>4. store.ok /\ out'.read = read
      BY <2>1, <3>3
    <3>5. /\ mine.owner \in Owners /\ other.owner \in Owners /\ mine.payload \in StoredPayloads
          /\ env \in Redis
      BY <2>1, <3>1, <3>2 DEF Inputs
    <3>6. prefix \in Word
      <4>1. env["GRIFFINO_REDIS_USER_CONFIG_PREFIX"] \in STRING
        BY <3>5, OwnersAssumption DEF RedisVariables
      <4>2. QED
        BY <3>1, <4>1 DEF Prefix, OrDefault, Word
    <3>7. PlatformKey(prefix, mine.owner) # PlatformKey(prefix, other.owner)
      BY <2>1, <3>1, <3>2, <3>5, <3>6, OwnersTellApart
    <3>8. ASSUME NEW redis \in contents
          PROVE  GetValues(store, redis, mine.owner.user) = DecodeValues(mine.payload)
      <4>1. PICK key : key = PlatformKey(prefix, mine.owner)
        OBVIOUS
      <4>2. ConfigKey(store.keyPrefix, mine.owner.user, store.pluginID) = key
        <5>1. store.pluginID = mine.owner.plugin /\ store.keyPrefix = <<prefix>>
          BY <3>1, <3>4, StoreIs
        <5>2. QED
          BY <4>1, <5>1 DEF ConfigKey, PlatformKey
      <4>3. key \in DOMAIN redis /\ redis[key] = mine.payload
        BY <3>7, <4>1, BothAreStored
      <4>4. QED
        BY <4>2, <4>3 DEF GetValues
    <3>9. read = {DecodeValues(mine.payload)}
      BY <3>8
    <3>10. DecodeValues(mine.payload) =
             CASE mine.payload = "object" -> [ok |-> TRUE, values |-> "object"]
               [] mine.payload \in {"other", "unread"} -> NoConfig
               [] OTHER -> [ok |-> TRUE, values |-> "empty"]
      BY <3>5 DEF DecodeValues, StoredPayloads
    <3> HIDE DEF read
    <3>11. QED
      BY <3>1, <3>2, <3>4, <3>9, <3>10 DEF StoredConfigsAreFound
  <2>4. QED
    BY <2>1, <2>2, <2>3, Steps
<1>3. QED
  BY <1>1, <1>2, InputsInvariance, PTL DEF Spec

-----------------------------------------------------------------------------
(* The entries of a struct of one field are that field's, if it parses. *)
LEMMA OneFieldsEntries ==
  ASSUME NEW field \in StructFields,
         NEW def, def = ParseUserConfig([kind |-> "struct", fields |-> <<field>>]), def.ok,
         NEW entry \in ToSet(ConfigFieldEntries(def))
  PROVE  FieldParses(field) /\ entry = BuildConfigFieldEntry(ParseFieldTag(field))
<1>1. PICK model : model = [kind |-> "struct", fields |-> <<field>>]
  OBVIOUS
<1>2. model.fields \in Seq(StructFields) /\ ToSet(model.fields) = {field}
  BY <1>1 DEF ToSet
<1>3. IsParsed(def, model, "user")
  BY <1>1 DEF ParseUserConfig, IsParsed
<1>4. PICK fields : AreParsed(fields, model, def)
  BY <1>2, <1>3, ModelIs
<1>5. PICK i \in DOMAIN def.fields : entry = BuildConfigFieldEntry(def.fields[i])
  BY DEF ConfigFieldEntries, ToSet
<1>6. i \in DOMAIN fields /\ def.fields[i] = ParseFieldTag(fields[i])
  BY <1>4, <1>5 DEF AreParsed
<1>7. fields[i] \in ToSet(fields)
  BY <1>6 DEF ToSet
<1>8. fields[i] = field
  BY <1>2, <1>4, <1>7 DEF AreParsed
<1>9. QED
  BY <1>4, <1>5, <1>6, <1>7, <1>8 DEF AreParsed

(* What DefaultsFitTheirType says of an entry. *)
Fits(entry, tag) ==
    LET given == {i \in DOMAIN tag : tag[i].attr = "default"}
    IN  IF given = {} THEN "default" \notin DOMAIN entry
        ELSE entry["default"] =
            Value(JSONTypeOf(entry.type), tag[CHOOSE i \in given : \A j \in given : j <= i].value)

LEMMA EntryFits ==
  ASSUME NEW field \in StructFields, FieldParses(field),
         NEW entry, entry = BuildConfigFieldEntry(ParseFieldTag(field))
  PROVE  Fits(entry, field.tag)
<1>1. PICK given : given = {i \in DOMAIN field.tag : field.tag[i].attr = "default"}
  OBVIOUS
<1>2. /\ given = {} => "default" \notin DOMAIN entry
      /\ given # {} => \E i :
            /\ IsLast(i, given)
            /\ entry["default"] =
                Value(IF entry.type \in {"int", "float", "boolean"} THEN entry.type ELSE "string",
                      field.tag[i].value)
  BY <1>1, EntrysDefault
<1>3. ASSUME NEW i, IsLast(i, given)
      PROVE  (CHOOSE k \in given : \A j \in given : j <= k) = i
  <2>1. PICK k : k = CHOOSE x \in given : \A j \in given : j <= x
    OBVIOUS
  <2>2. k \in given /\ \A j \in given : j <= k
    BY <1>3, <2>1, Zenon DEF IsLast
  <2>3. k <= i /\ i <= k
    BY <1>3, <2>2 DEF IsLast
  <2>4. i \in Nat /\ k \in Nat
    <3>1. DOMAIN field.tag \subseteq Nat
      <4>1. field.tag \in Seq(TagSegments)
        BY DEF StructFields
      <4>2. QED
        BY <4>1
    <3>2. QED
      BY <1>1, <1>3, <2>2, <3>1 DEF IsLast
  <2>5. QED
    BY <2>1, <2>3, <2>4
<1>4. CASE given = {}
  BY <1>1, <1>2, <1>4, Zenon DEF Fits
<1>5. CASE given # {}
  <2>1. PICK i : /\ IsLast(i, given)
                 /\ entry["default"] =
                     Value(IF entry.type \in {"int", "float", "boolean"} THEN entry.type ELSE "string",
                           field.tag[i].value)
    BY <1>2, <1>5
  <2>2. entry["default"] = Value(JSONTypeOf(entry.type), field.tag[i].value)
    BY <2>1 DEF JSONTypeOf
  <2>3. i = CHOOSE k \in given : \A j \in given : j <= k
    BY <1>3, <2>1
  <2>4. QED
    BY <1>1, <1>5, <2>2, <2>3, Zenon DEF Fits
<1>6. QED
  BY <1>4, <1>5

(* The entry that is made of a field of any Go type and with any tag has a
   default only if the tag gives one: the last that it gives, converted to the
   type that the entry names. *)
THEOREM DefaultsAreTyped == Spec => []DefaultsFitTheirType
<1>1. Init => DefaultsFitTheirType
  BY DEF Init, DefaultsFitTheirType
<1>2. Inputs /\ DefaultsFitTheirType /\ [Next]_vars => DefaultsFitTheirType'
  <2>1. SUFFICES ASSUME Inputs, DefaultsFitTheirType, [Next]_vars, op' = "field", done',
                        NEW entry \in ToSet(out')
                 PROVE  Fits(entry, arg'.tag)
    BY Zenon DEF DefaultsFitTheirType, Fits
  <2>2. CASE UNCHANGED vars
    <3>1. op' = op /\ arg' = arg /\ done' = done /\ out' = out
      BY <2>2 DEF vars
    <3>2. Fits(entry, arg.tag)
      BY <2>1, <3>1, Zenon DEF DefaultsFitTheirType, Fits
    <3>3. QED
      BY <3>1, <3>2
  <2>3. CASE DescribeField
    <3>1. PICK def : def = ParseUserConfig([kind |-> "struct", fields |-> <<arg>>])
      OBVIOUS
    <3>2. arg' = arg /\ op = "field" /\ out' = IF def.ok THEN ConfigFieldEntries(def) ELSE <<>>
      BY <2>3, <3>1, Zenon DEF DescribeField, Convert
    <3>3. arg \in StructFields
      BY <2>1, <3>2, FieldsAssumption DEF Inputs
    <3>4. def.ok /\ entry \in ToSet(ConfigFieldEntries(def))
      BY <2>1, <3>2 DEF ToSet
    <3>5. FieldParses(arg) /\ entry = BuildConfigFieldEntry(ParseFieldTag(arg))
      BY <3>1, <3>3, <3>4, OneFieldsEntries
    <3>6. Fits(entry, arg.tag)
      BY <3>3, <3>5, EntryFits
    <3>7. QED
      BY <3>2, <3>6
  <2>4. QED
    BY <2>1, <2>2, <2>3, Steps
<1>3. QED
  BY <1>1, <1>2, InputsInvariance, PTL DEF Spec
=============================================================================
