--------------------------- MODULE AcceptorProofs ---------------------------
(***************************************************************************)
(* The acceptor, for any number of clients, agents and descriptors and     *)
(* buffers of any length.                                                  *)
(*                                                                         *)
(* The inductive invariant has three parts.  InOrder relates the array to  *)
(* the heap and to the loop that walks over it, Paired the agents to the   *)
(* descriptors, the clients and what the application knows, and Tagged the *)
(* bytes in the buffers and on their way to the connection they belong to. *)
(* The second and the third rest on the parts before them.                 *)
(***************************************************************************)
EXTENDS Acceptor, BufferLemmas, FiniteSetTheorems

(* The places of the array whose agents are allocated.  Uninit frees the   *)
(* agents one after the other and leaves them in the array; run leaves the *)
(* one it freed there until the callback returns.                          *)
LivePlaces ==
  LET n == Len(agents.elems)
  IN  IF listening THEN IF pc = "disconn" THEN (1 .. n) \ {i + 1} ELSE 1 .. n
      ELSE IF pc = "disconn" THEN i + 2 .. n ELSE i + 1 .. n

Serving == pc \in {"handler", "send", "disconn"}

(* How far the loop of run has come.                                       *)
Served == IF Serving THEN i + 1 ELSE i

(* The array and the loop over it.                                         *)
InOrder ==
  /\ listening \in BOOLEAN
  /\ agents = [elems |-> agents.elems, capacity |-> agent_max_num]
  /\ agents.elems \in Seq(Agent) /\ Len(agents.elems) <= agent_max_num
  /\ \A j, k \in 1 .. Len(agents.elems) : agents.elems[j] = agents.elems[k] => j = k
  /\ live = {agents.elems[k] : k \in LivePlaces}
  /\ pc \in {"app", "conn", "loop", "handler", "send", "disconn", "closing", "gone"}
  /\ pc \in {"closing", "gone"} => ~listening
  /\ ~listening => pc \in {"closing", "gone", "disconn"}
  /\ i \in Nat /\ Served <= Len(agents.elems)
  /\ pc = "gone" => i = Len(agents.elems)
  /\ pc \in {"app", "conn"} => i = 0
  /\ turns \in [Agent -> {0, 1}]
  /\ listening => \A k \in 1 .. Len(agents.elems) :
                    turns[agents.elems[k]] = IF k <= Served THEN 1 ELSE 0
  /\ pc \in {"app", "conn"} => turns = NoTurns

(* Agents, descriptors and clients, one to one; what the application knows *)
(* of them; and the clients that wait.                                     *)
Paired ==
  /\ sock \in [Fd -> Client \cup {NULL}]
  /\ queue \in Seq(Client)
  /\ client \in [Client -> {"away", "up", "fin", "rst"}]
  /\ \A a \in live : heap[a].socket \in Fd /\ sock[heap[a].socket] # NULL
  /\ \A a, b \in live : heap[a].socket = heap[b].socket => a = b
  /\ \A f \in Fd : sock[f] # NULL => \E a \in live : heap[a].socket = f
  /\ \A f, g \in Fd : sock[f] = sock[g] /\ sock[f] # NULL => f = g
  /\ \A f \in Fd : sock[f] # NULL => client[sock[f]] # "away"
  /\ \A j \in 1 .. Len(queue) :
       client[queue[j]] # "away" /\ \A f \in Fd : sock[f] # queue[j]
  /\ \A j, k \in 1 .. Len(queue) : queue[j] = queue[k] => j = k
  /\ known = {[agent |-> a, fd |-> heap[a].socket, client |-> sock[heap[a].socket]] :
                a \in live}

(* What the kernel has for each client, one way, comes from it or is meant *)
(* for it.                                                                 *)
Carries(q) ==
  /\ q \in [Client -> Seq(Byte)]
  /\ \A c \in Client : Len(q[c]) <= KernelRoom /\ \A j \in 1 .. Len(q[c]) : q[c][j] = c

(* Bytes that are on their way, or in a buffer, belong to the connection.  *)
Tagged ==
  /\ Carries(inq) /\ Carries(outq)
  /\ heap \in [Agent -> NetAgents(Fd \cup {0})]
  /\ \A a \in live :
       /\ RecvHolds(heap[a].recv_buff, RecvLength, sock[heap[a].socket])
       /\ SendHolds(heap[a].send_buff, SendLength, sock[heap[a].socket])

Inv == InOrder /\ Paired /\ Tagged

-----------------------------------------------------------------------------
(* The array.                                                              *)

(* _agent_destroy looks for a descriptor among the agents, and finds none. *)
LEMMA NothingDeleted ==
  ASSUME NEW elems \in Seq(Agent), NEW f \in Fd \cup {0}
  PROVE  RemoveFirst(elems, f) = elems
<1>1. ~ \E k \in 1 .. Len(elems) : elems[k] = f
  <2>1. \A k \in 1 .. Len(elems) : elems[k] \in Agent
    BY ElementOfSeq
  <2>2. f \notin Agent
    BY AcceptorAssumption DEF Fd
  <2> QED BY <2>1, <2>2
<1> QED BY <1>1 DEF RemoveFirst

LEMMA LiveWithout ==
  ASSUME NEW elems, NEW n \in Nat, NEW places, places \subseteq 1 .. n, NEW j \in places,
         \A k, l \in 1 .. n : elems[k] = elems[l] => k = l
  PROVE  {elems[k] : k \in places} \ {elems[j]} = {elems[k] : k \in places \ {j}}
OBVIOUS

(* The agent the loop stands at.                                           *)
LEMMA AtIndex ==
  ASSUME InOrder, i < Len(agents.elems)
  PROVE  /\ agent = agents.elems[i + 1] /\ agent \in Agent
         /\ i + 1 \in 1 .. Len(agents.elems) /\ Len(agents.elems) \in Nat
<1>1. /\ agents.elems \in Seq(Agent) /\ i \in Nat /\ Len(agents.elems) \in Nat
      /\ i \in 0 .. Len(agents.elems) - 1
  BY LenProperties DEF InOrder
<1>2. agent = agents.elems[i + 1]
  BY <1>1 DEF agent, hs_array_get_elem
<1>3. i + 1 \in 1 .. Len(agents.elems)
  BY <1>1
<1> QED BY <1>1, <1>2, <1>3, ElementOfSeq

-----------------------------------------------------------------------------
(* InOrder is kept.                                                        *)

LEMMA OrderInit == Init => InOrder
<1> SUFFICES ASSUME Init PROVE InOrder
  OBVIOUS
<1>1. /\ listening = TRUE /\ agents = [elems |-> <<>>, capacity |-> agent_max_num]
      /\ live = {} /\ pc = "app" /\ i = 0 /\ turns = NoTurns
  BY DEF Init, hs_array_create
<1>2. agents.elems = <<>> /\ <<>> \in Seq(Agent) /\ Len(<<>>) = 0
  BY <1>1
<1>3. agent_max_num \in Nat
  BY AcceptorAssumption
<1>4. LivePlaces = {} /\ Served = 0
  BY <1>1, <1>2 DEF LivePlaces, Served, Serving
<1>5. turns \in [Agent -> {0, 1}]
  BY <1>1 DEF NoTurns
<1> QED BY <1>1, <1>2, <1>3, <1>4, <1>5 DEF InOrder

LEMMA StartLoopKeepsOrder ==
  ASSUME InOrder, pc \in {"app", "conn"}, StartLoop,
         UNCHANGED <<listening, agents, live, turns>>
  PROVE  InOrder'
<1>1. listening = TRUE /\ i = 0 /\ pc' = "loop" /\ i' = 0
  BY DEF InOrder, StartLoop
<1>2. Served = 0 /\ Served' = 0 /\ LivePlaces' = LivePlaces
  BY <1>1 DEF Served, Serving, LivePlaces
<1> QED BY <1>1, <1>2 DEF InOrder

LEMMA AcceptKeepsOrder ==
  ASSUME InOrder, Accept
  PROVE  InOrder'
<1> DEFINE n == Len(agents.elems)
<1>1. PICK a \in Agent \ live :
        live' = live \cup {a} /\ agents' = hs_array_push_elem(agents, a)
  BY DEF Accept
<1>2. /\ listening /\ pc = "app" /\ i = 0 /\ turns = NoTurns /\ n < agents.capacity
      /\ agents.elems \in Seq(Agent) /\ agents.capacity = agent_max_num /\ n \in Nat
      /\ pc' = "conn" /\ UNCHANGED <<listening, i, turns>>
      /\ agent_max_num \in Nat
      /\ \A j, k \in 1 .. n : agents.elems[j] = agents.elems[k] => j = k
  <2>1. agents.capacity = agent_max_num
    BY DEF InOrder
  <2> QED BY <2>1, AcceptorAssumption, LenProperties
        DEF InOrder, Accept, HasPlace, hs_array_elem_num, hs_array_capacity
<1>3. agents' = [elems |-> Append(agents.elems, a), capacity |-> agent_max_num]
  <2>1. ~(agents.capacity <= Len(agents.elems))
    BY <1>2
  <2> QED BY <1>1, <1>2, <2>1 DEF hs_array_push_elem
<1>4. /\ agents'.elems \in Seq(Agent) /\ Len(agents'.elems) = n + 1
      /\ \A k \in 1 .. n : agents'.elems[k] = agents.elems[k]
      /\ agents'.elems[n + 1] = a
  BY <1>2, <1>3, AppendProperties
<1> HIDE DEF n
<1>5. live = {agents.elems[k] : k \in 1 .. n}
  BY <1>2 DEF InOrder, LivePlaces, n
<1>6. \A k \in 1 .. n : agents.elems[k] # a
  BY <1>5
<1>7. LivePlaces' = 1 .. n + 1
  BY <1>2, <1>4 DEF LivePlaces
<1>8. live' = {agents'.elems[k] : k \in 1 .. n + 1}
  <2>1. 1 .. n + 1 = 1 .. n \cup {n + 1}
    BY <1>2
  <2> QED BY <1>1, <1>4, <1>5, <2>1
<1>9. \A j, k \in 1 .. n + 1 : agents'.elems[j] = agents'.elems[k] => j = k
  <2>1. \A j \in 1 .. n + 1 : j \in 1 .. n \/ j = n + 1
    BY <1>2
  <2> QED BY <1>2, <1>4, <1>6, <2>1
<1>10. Served' = 0 /\ n + 1 <= agent_max_num /\ 0 <= n + 1
  BY <1>2 DEF Served, Serving
<1>11. turns' \in [Agent -> {0, 1}] /\ \A x \in Agent : turns'[x] = 0
  BY <1>2 DEF NoTurns
<1>12. \A k \in 1 .. n + 1 : turns'[agents'.elems[k]] = IF k <= 0 THEN 1 ELSE 0
  <2>1. \A k \in 1 .. n + 1 : agents'.elems[k] \in Agent /\ ~(k <= 0)
    BY <1>2, <1>4, ElementOfSeq
  <2> QED BY <1>11, <2>1
<1>13. agents' = [elems |-> agents'.elems, capacity |-> agent_max_num]
  BY <1>3
<1> QED BY <1>2, <1>4, <1>7, <1>8, <1>9, <1>10, <1>11, <1>12, <1>13 DEF InOrder

(* An agent has its turn and stays.                                        *)
LEMMA ServeKeepsOrder ==
  ASSUME InOrder, AtAgent, ServeAgent, UNCHANGED <<listening, agents, live>>,
         \/ pc' = "loop" /\ NextAgent
         \/ pc' \in {"send", "handler"} /\ i' = i
  PROVE  InOrder'
<1> DEFINE n == Len(agents.elems)
<1>1. /\ pc = "loop" /\ i < n /\ i \in Nat /\ n \in Nat
      /\ agent = agents.elems[i + 1] /\ agent \in Agent /\ i + 1 \in 1 .. n
  BY AtIndex DEF AtAgent, InOrder, hs_array_elem_num
<1>2. listening /\ Served = i
  BY <1>1 DEF InOrder, Served, Serving
<1>3. Served' = i + 1 /\ i' \in Nat /\ pc' \in {"loop", "send", "handler"}
  BY <1>1 DEF NextAgent, Served, Serving
<1>4. LivePlaces' = LivePlaces
  BY <1>1, <1>2, <1>3 DEF LivePlaces
<1>5. /\ turns \in [Agent -> {0, 1}] /\ \A k \in 1 .. n : agents.elems[k] \in Agent
      /\ \A k \in 1 .. n : turns[agents.elems[k]] = IF k <= i THEN 1 ELSE 0
      /\ \A j, k \in 1 .. n : agents.elems[j] = agents.elems[k] => j = k
  BY <1>2, ElementOfSeq DEF InOrder
<1>6. turns' = [turns EXCEPT ![agent] = 1]
  <2>1. turns[agent] = 0
    BY <1>1, <1>5
  <2> QED BY <2>1 DEF ServeAgent
<1> HIDE DEF n
<1>7. turns' \in [Agent -> {0, 1}]
  BY <1>5, <1>6
<1>8. \A k \in 1 .. n : turns'[agents.elems[k]] = IF k <= i + 1 THEN 1 ELSE 0
  BY <1>1, <1>5, <1>6
<1>9. i + 1 <= n
  BY <1>1
<1> QED BY <1>2, <1>3, <1>4, <1>7, <1>8, <1>9 DEF InOrder, n

(* From the handler to sending, from sending to the next agent.            *)
LEMMA StepKeepsOrder ==
  ASSUME InOrder, UNCHANGED <<listening, agents, live, turns>>,
         \/ pc = "handler" /\ pc' = "send" /\ i' = i
         \/ pc = "send" /\ pc' = "loop" /\ NextAgent
  PROVE  InOrder'
<1>1. listening /\ i \in Nat /\ Served = i + 1
  BY DEF InOrder, Served, Serving
<1>2. Served' = i + 1 /\ i' \in Nat
  BY <1>1 DEF Served, Serving, NextAgent
<1>3. LivePlaces' = LivePlaces
  BY <1>1 DEF LivePlaces
<1> QED BY <1>1, <1>2, <1>3 DEF InOrder

(* An agent is freed in its turn; its place stays taken for now.           *)
LEMMA DestroyKeepsOrder ==
  ASSUME InOrder, i < Len(agents.elems), heap[agent].socket \in Fd \cup {0},
         _agent_destroy(agent), i' = i,
         \/ pc = "loop" /\ ServeAgent
         \/ pc \in {"handler", "send"} /\ turns' = turns
         \/ pc = "closing" /\ turns' = turns
  PROVE  InOrder'
<1> DEFINE n == Len(agents.elems)
<1>1. /\ i < n /\ i \in Nat /\ n \in Nat /\ i + 1 \in 1 .. n
      /\ agent = agents.elems[i + 1] /\ agent \in Agent
      /\ agents.elems \in Seq(Agent) /\ \A k \in 1 .. n : agents.elems[k] \in Agent
      /\ \A j, k \in 1 .. n : agents.elems[j] = agents.elems[k] => j = k
  BY AtIndex, ElementOfSeq DEF InOrder
<1>2. /\ listening' = listening /\ pc' = "disconn" /\ live' = live \ {agent}
      /\ agents' = agents
  <2>1. RemoveFirst(agents.elems, heap[agent].socket) = agents.elems
    BY <1>1, NothingDeleted
  <2>2. agents' = [agents EXCEPT !.elems = agents.elems]
    BY <2>1 DEF _agent_destroy, WithoutSocket, hs_array_delete_first
  <2>3. agents = [elems |-> agents.elems, capacity |-> agent_max_num]
    BY DEF InOrder
  <2>4. agents' = agents
    BY <2>2, <2>3
  <2> QED BY <2>4 DEF _agent_destroy
<1>3. i + 1 \in LivePlaces /\ LivePlaces \subseteq 1 .. n
      /\ LivePlaces' = LivePlaces \ {i + 1}
  <2>1. CASE listening
    <3>1. pc # "disconn" /\ listening'
      BY <1>2, <2>1 DEF InOrder
    <3>2. LivePlaces = 1 .. n /\ LivePlaces' = (1 .. n) \ {i + 1}
      <4>1. n' = n /\ i' = i
        BY <1>2
      <4> QED BY <1>2, <2>1, <3>1, <4>1 DEF LivePlaces
    <3> QED BY <1>1, <3>2
  <2>2. CASE ~listening
    <3>1. pc = "closing" /\ ~listening'
      BY <1>2, <2>2 DEF InOrder
    <3>2. LivePlaces = i + 1 .. n /\ LivePlaces' = i + 2 .. n
      BY <1>2, <2>2, <3>1 DEF LivePlaces
    <3> QED BY <1>1, <3>2
  <2> QED BY <2>1, <2>2
<1>4. live' = {agents'.elems[k] : k \in LivePlaces'}
  BY <1>1, <1>2, <1>3, LiveWithout DEF InOrder
<1>5. Served' = i + 1
  BY <1>2 DEF Served, Serving
<1>6. /\ turns' \in [Agent -> {0, 1}]
      /\ listening => \A k \in 1 .. n : turns'[agents.elems[k]] = IF k <= i + 1 THEN 1 ELSE 0
  <2>1. CASE pc = "loop" /\ ServeAgent
    <3>1. /\ listening /\ turns \in [Agent -> {0, 1}]
          /\ \A k \in 1 .. n : turns[agents.elems[k]] = IF k <= i THEN 1 ELSE 0
      BY <2>1 DEF InOrder, Served, Serving
    <3>2. turns' = [turns EXCEPT ![agent] = 1]
      <4>1. turns[agent] = 0
        BY <1>1, <3>1
      <4> QED BY <2>1, <4>1 DEF ServeAgent
    <3> HIDE DEF n
    <3> QED BY <1>1, <3>1, <3>2
  <2>2. CASE pc \in {"handler", "send"} /\ turns' = turns
    <3>1. Served = i + 1
      BY <2>2 DEF Served, Serving
    <3> QED BY <2>2, <3>1 DEF InOrder
  <2>3. CASE pc = "closing" /\ turns' = turns
    BY <2>3 DEF InOrder
  <2> QED BY <2>1, <2>2, <2>3
<1>7. i' \in Nat /\ Served' <= Len(agents'.elems)
  BY <1>1, <1>2, <1>5
<1>8. listening' \in BOOLEAN /\ (listening' => listening)
  BY <1>2 DEF InOrder
<1>9. listening' => \A k \in 1 .. Len(agents'.elems) :
                      turns'[agents'.elems[k]] = IF k <= Served' THEN 1 ELSE 0
  <2>1. SUFFICES ASSUME listening'
                 PROVE  \A k \in 1 .. Len(agents'.elems) :
                          turns'[agents'.elems[k]] = IF k <= Served' THEN 1 ELSE 0
    OBVIOUS
  <2>2. agents' = agents
    BY <1>2
  <2>3. \A k \in 1 .. n : turns'[agents.elems[k]] = IF k <= i + 1 THEN 1 ELSE 0
    BY <1>6, <1>8, <2>1
  <2> QED BY <1>5, <2>2, <2>3
<1> HIDE DEF n
<1>10. /\ agents' = [elems |-> agents'.elems, capacity |-> agent_max_num]
       /\ agents'.elems \in Seq(Agent) /\ Len(agents'.elems) <= agent_max_num
       /\ \A j, k \in 1 .. Len(agents'.elems) :
            agents'.elems[j] = agents'.elems[k] => j = k
  BY <1>2 DEF InOrder
<1>11. pc' = "disconn" /\ turns' \in [Agent -> {0, 1}]
  BY <1>2, <1>6
<1> QED BY <1>4, <1>7, <1>8, <1>9, <1>10, <1>11 DEF InOrder

(* The place of the agent that was freed is taken by the one behind it.    *)
LEMMA DisconnReturnsKeepsOrder ==
  ASSUME InOrder, DisconnReturns
  PROVE  InOrder'
<1> DEFINE n == Len(agents.elems)
<1>1. /\ pc = "disconn" /\ listening /\ i \in Nat /\ n \in Nat /\ i + 1 \in 1 .. n
      /\ agents.elems \in Seq(Agent) /\ n <= agent_max_num /\ agent_max_num \in Nat
      /\ \A j, k \in 1 .. n : agents.elems[j] = agents.elems[k] => j = k
      /\ turns \in [Agent -> {0, 1}]
      /\ \A k \in 1 .. n : turns[agents.elems[k]] = IF k <= i + 1 THEN 1 ELSE 0
  BY LenProperties, AcceptorAssumption DEF InOrder, DisconnReturns, Served, Serving
<1>2. /\ pc' = "loop" /\ listening' = listening /\ i' = i /\ live' = live /\ turns' = turns
      /\ agents' = hs_array_delete_byindex(agents, i)
  BY DEF DisconnReturns, DeletesAgent, memory
<1>3. agents' = [elems |-> RemoveAt(agents.elems, i + 1), capacity |-> agent_max_num]
  <2>1. agents = [elems |-> agents.elems, capacity |-> agent_max_num]
        /\ i \in 0 .. Len(agents.elems) - 1
    BY <1>1 DEF InOrder
  <2>2. agents' = [agents EXCEPT !.elems = RemoveAt(agents.elems, i + 1)]
    BY <1>2, <2>1 DEF hs_array_delete_byindex
  <2> QED BY <2>1, <2>2
<1>4. /\ agents'.elems \in Seq(Agent) /\ Len(agents'.elems) = n - 1
      /\ \A k \in 1 .. n - 1 :
           agents'.elems[k] = IF k < i + 1 THEN agents.elems[k] ELSE agents.elems[k + 1]
  BY <1>1, <1>3, RemovedAt
<1>5. LivePlaces = (1 .. n) \ {i + 1} /\ LivePlaces' = 1 .. n - 1
  BY <1>1, <1>2, <1>4 DEF LivePlaces
<1>6. live = {agents.elems[k] : k \in (1 .. n) \ {i + 1}}
  BY <1>5 DEF InOrder
<1> HIDE DEF n
<1>7. live' = {agents'.elems[k] : k \in 1 .. n - 1}
  <2>1. ASSUME NEW k \in 1 .. n - 1
        PROVE  \E l \in (1 .. n) \ {i + 1} : agents'.elems[k] = agents.elems[l]
    <3>1. CASE k < i + 1
      <4>1. k \in (1 .. n) \ {i + 1}
        BY <1>1, <3>1
      <4> QED BY <1>4, <3>1, <4>1
    <3>2. CASE ~(k < i + 1)
      <4>1. k + 1 \in (1 .. n) \ {i + 1}
        BY <1>1, <3>2
      <4> QED BY <1>4, <3>2, <4>1
    <3> QED BY <3>1, <3>2
  <2>2. ASSUME NEW l \in (1 .. n) \ {i + 1}
        PROVE  \E k \in 1 .. n - 1 : agents'.elems[k] = agents.elems[l]
    <3>1. CASE l < i + 1
      <4>1. l \in 1 .. n - 1
        BY <1>1, <3>1
      <4> QED BY <1>4, <3>1, <4>1
    <3>2. CASE ~(l < i + 1)
      <4>1. l - 1 \in 1 .. n - 1 /\ ~(l - 1 < i + 1) /\ l - 1 + 1 = l
        BY <1>1, <3>2
      <4> QED BY <1>4, <4>1
    <3> QED BY <3>1, <3>2
  <2> QED BY <1>2, <1>6, <2>1, <2>2
<1>8. ASSUME NEW j \in 1 .. n - 1, NEW k \in 1 .. n - 1,
             agents'.elems[j] = agents'.elems[k]
      PROVE  j = k
  <2>1. j \in 1 .. n /\ k \in 1 .. n /\ j + 1 \in 1 .. n /\ k + 1 \in 1 .. n
    BY <1>1
  <2>2. CASE j < i + 1 /\ k < i + 1
    BY <1>1, <1>4, <1>8, <2>1, <2>2
  <2>3. CASE ~(j < i + 1) /\ ~(k < i + 1)
    <3>1. j + 1 = k + 1
      BY <1>1, <1>4, <1>8, <2>1, <2>3
    <3> QED BY <3>1
  <2>4. CASE j < i + 1 /\ ~(k < i + 1)
    <3>1. j = k + 1
      BY <1>1, <1>4, <1>8, <2>1, <2>4
    <3> QED BY <1>1, <2>4, <3>1
  <2>5. CASE ~(j < i + 1) /\ k < i + 1
    <3>1. j + 1 = k
      BY <1>1, <1>4, <1>8, <2>1, <2>5
    <3> QED BY <1>1, <2>5, <3>1
  <2> QED BY <2>2, <2>3, <2>4, <2>5
<1>9. ASSUME NEW k \in 1 .. n - 1
      PROVE  turns'[agents'.elems[k]] = IF k <= i THEN 1 ELSE 0
  <2>1. CASE k < i + 1
    <3>1. k \in 1 .. n /\ k <= i /\ k <= i + 1
      BY <1>1, <2>1
    <3> QED BY <1>1, <1>2, <1>4, <2>1, <3>1
  <2>2. CASE ~(k < i + 1)
    <3>1. k + 1 \in 1 .. n /\ ~(k <= i) /\ ~(k + 1 <= i + 1)
      BY <1>1, <2>2
    <3> QED BY <1>1, <1>2, <1>4, <2>2, <3>1
  <2> QED BY <2>1, <2>2
<1>10. Served' = i /\ i <= n - 1 /\ n - 1 <= agent_max_num
  BY <1>1, <1>2 DEF Served, Serving
<1>11. agents' = [elems |-> agents'.elems, capacity |-> agent_max_num]
  BY <1>3
<1> QED BY <1>1, <1>2, <1>4, <1>5, <1>7, <1>8, <1>9, <1>10, <1>11 DEF InOrder

LEMMA RunEndsKeepsOrder ==
  ASSUME InOrder, RunEnds
  PROVE  InOrder'
<1>1. /\ pc = "loop" /\ listening /\ pc' = "app" /\ i' = 0 /\ turns' = NoTurns
      /\ UNCHANGED <<listening, agents, live>>
  BY DEF InOrder, RunEnds, acceptor, memory
<1>2. Served' = 0 /\ LivePlaces' = LivePlaces /\ Len(agents.elems) \in Nat
  BY <1>1, LenProperties DEF InOrder, Served, Serving, LivePlaces
<1>3. turns' \in [Agent -> {0, 1}] /\ \A x \in Agent : turns'[x] = 0
  BY <1>1 DEF NoTurns
<1>4. \A k \in 1 .. Len(agents.elems) : turns'[agents.elems[k]] = IF k <= 0 THEN 1 ELSE 0
  <2>1. \A k \in 1 .. Len(agents.elems) : agents.elems[k] \in Agent /\ ~(k <= 0)
    BY ElementOfSeq DEF InOrder
  <2> QED BY <1>3, <2>1
<1> QED BY <1>1, <1>2, <1>3, <1>4 DEF InOrder

LEMMA UninitKeepsOrder ==
  ASSUME InOrder, Uninit \/ UninitDisconnReturns \/ UninitEnds
  PROVE  InOrder'
<1>1. i \in Nat /\ Len(agents.elems) \in Nat /\ UNCHANGED <<agents, live, turns>>
  BY LenProperties
    DEF InOrder, Uninit, UninitDisconnReturns, UninitEnds, memory, acceptor
<1>2. CASE Uninit
  <2>1. pc = "app" /\ i = 0 /\ listening /\ ~listening' /\ pc' = "closing" /\ i' = 0
        /\ listening' = FALSE
    BY <1>2 DEF InOrder, Uninit
  <2>2. LivePlaces' = LivePlaces /\ Served' = 0
    BY <1>1, <2>1 DEF LivePlaces, Served, Serving
  <2>3. Served' <= Len(agents'.elems) /\ i' \in Nat
    BY <1>1, <2>1, <2>2
  <2> QED BY <1>1, <2>1, <2>2, <2>3 DEF InOrder
<1>3. CASE UninitDisconnReturns
  <2>1. pc = "disconn" /\ ~listening /\ listening' = listening /\ pc' = "closing"
        /\ i' = i + 1
    BY <1>3 DEF UninitDisconnReturns, acceptor
  <2>2. LivePlaces' = LivePlaces /\ Served' = i + 1 /\ Served = i + 1
    BY <1>1, <2>1 DEF LivePlaces, Served, Serving
  <2> QED BY <1>1, <2>1, <2>2 DEF InOrder
<1>4. CASE UninitEnds
  <2>1. pc = "closing" /\ ~listening /\ listening' = listening /\ pc' = "gone"
        /\ i' = i /\ i >= Len(agents.elems)
    BY <1>4 DEF InOrder, UninitEnds, acceptor, hs_array_elem_num
  <2>2. LivePlaces' = LivePlaces /\ Served' = i /\ Served = i
    BY <1>1, <2>1 DEF LivePlaces, Served, Serving
  <2>3. i = Len(agents.elems)
    BY <1>1, <2>1, <2>2 DEF InOrder
  <2>4. Served' <= Len(agents.elems)
    BY <1>1, <2>2, <2>3
  <2> QED BY <1>1, <2>1, <2>2, <2>3, <2>4 DEF InOrder
<1> QED BY <1>2, <1>3, <1>4

LEMMA OrderUntouched ==
  ASSUME InOrder, UNCHANGED <<listening, agents, live, pc, i, turns>>
  PROVE  InOrder'
BY DEF InOrder, LivePlaces, Served, Serving

LEMMA LiveAreAgents ==
  ASSUME InOrder
  PROVE  live \subseteq Agent
<1>1. /\ agents.elems \in Seq(Agent) /\ i \in Nat /\ Len(agents.elems) \in Nat
      /\ live = {agents.elems[k] : k \in LivePlaces}
  BY LenProperties DEF InOrder
<1>2. LivePlaces \subseteq 1 .. Len(agents.elems)
  BY <1>1 DEF LivePlaces
<1> QED BY <1>1, <1>2, ElementOfSeq

(* Where the loop has an agent, it is allocated.                           *)
LEMMA ServedIsLive ==
  ASSUME InOrder, i < Len(agents.elems), pc # "disconn"
  PROVE  agent \in live
<1>1. /\ agent = agents.elems[i + 1] /\ i + 1 \in 1 .. Len(agents.elems)
      /\ Len(agents.elems) \in Nat /\ live = {agents.elems[k] : k \in LivePlaces}
  BY AtIndex DEF InOrder
<1>2. i + 1 \in LivePlaces
  BY <1>1 DEF LivePlaces
<1> QED BY <1>1, <1>2

-----------------------------------------------------------------------------
(* Paired is kept.                                                         *)

LEMMA PairedInit == Init => Paired
<1> SUFFICES ASSUME Init PROVE Paired
  OBVIOUS
<1>1. /\ live = {} /\ sock = [f \in Fd |-> NULL] /\ queue = <<>> /\ known = {}
      /\ client = [c \in Client |-> "away"]
  BY DEF Init
<1>2. queue \in Seq(Client) /\ Len(queue) = 0
  BY <1>1
<1> QED BY <1>1, <1>2 DEF Paired

LEMMA PairedUntouched ==
  ASSUME Paired, UNCHANGED <<live, sock, queue, client, known>>,
         \A a \in live : heap'[a].socket = heap[a].socket
  PROVE  Paired'
<1>1. known' = {[agent |-> a, fd |-> heap'[a].socket, client |-> sock'[heap'[a].socket]] :
                  a \in live'}
  BY DEF Paired
<1> QED BY <1>1 DEF Paired

(* The end of a connection on the side of the client changes no pair.      *)
LEMMA EndsKeepPaired ==
  ASSUME Paired, NEW c \in Client, client[c] # "away",
         NEW state \in {"fin", "rst"}, client' = [client EXCEPT ![c] = state],
         UNCHANGED <<live, heap, sock, queue, known>>
  PROVE  Paired'
<1>1. /\ client' \in [Client -> {"away", "up", "fin", "rst"}]
      /\ \A d \in Client : client[d] # "away" => client'[d] # "away"
  BY DEF Paired
<1>2. \A f \in Fd : sock'[f] # NULL => client'[sock'[f]] # "away"
  BY <1>1 DEF Paired
<1>3. \A j \in 1 .. Len(queue) : queue[j] \in Client
  BY ElementOfSeq DEF Paired
<1>4. \A j \in 1 .. Len(queue') :
        client'[queue'[j]] # "away" /\ \A f \in Fd : sock'[f] # queue'[j]
  BY <1>1, <1>3 DEF Paired
<1> QED BY <1>1, <1>2, <1>4 DEF Paired

LEMMA ConnectsKeepsPaired ==
  ASSUME Paired, NEW c \in Client, ClientConnects(c)
  PROVE  Paired'
<1>1. /\ client[c] = "away" /\ client' = [client EXCEPT ![c] = "up"]
      /\ queue' = Append(queue, c) /\ UNCHANGED <<live, heap, sock, known>>
  BY DEF ClientConnects, memory
<1>2. /\ client \in [Client -> {"away", "up", "fin", "rst"}] /\ queue \in Seq(Client)
      /\ Len(queue) \in Nat /\ sock \in [Fd -> Client \cup {NULL}]
      /\ \A f \in Fd : sock[f] # NULL => client[sock[f]] # "away"
      /\ \A j \in 1 .. Len(queue) :
           client[queue[j]] # "away" /\ \A f \in Fd : sock[f] # queue[j]
      /\ \A j, k \in 1 .. Len(queue) : queue[j] = queue[k] => j = k
      /\ \A j \in 1 .. Len(queue) : queue[j] \in Client
  BY LenProperties, ElementOfSeq DEF Paired
<1>3. /\ queue' \in Seq(Client) /\ Len(queue') = Len(queue) + 1
      /\ \A j \in 1 .. Len(queue) : queue'[j] = queue[j]
      /\ queue'[Len(queue) + 1] = c
      /\ \A j \in 1 .. Len(queue) + 1 : j \in 1 .. Len(queue) \/ j = Len(queue) + 1
  BY <1>1, <1>2, AppendProperties
<1>4. /\ client' \in [Client -> {"away", "up", "fin", "rst"}] /\ client'[c] = "up"
      /\ \A d \in Client : client[d] # "away" => client'[d] # "away"
  BY <1>1, <1>2
<1>5. c # NULL /\ \A f \in Fd : sock[f] # c
  BY <1>1, <1>2, AcceptorAssumption
<1>6. \A j \in 1 .. Len(queue) : queue[j] # c
  BY <1>1, <1>2
<1>7. \A f \in Fd : sock'[f] # NULL => client'[sock'[f]] # "away"
  BY <1>1, <1>2, <1>4
<1>8. \A j \in 1 .. Len(queue') :
        client'[queue'[j]] # "away" /\ \A f \in Fd : sock'[f] # queue'[j]
  BY <1>1, <1>2, <1>3, <1>4, <1>5
<1>9. \A j, k \in 1 .. Len(queue') : queue'[j] = queue'[k] => j = k
  BY <1>2, <1>3, <1>6
<1> QED BY <1>1, <1>3, <1>4, <1>7, <1>8, <1>9 DEF Paired

LEMMA TurnAwayKeepsPaired ==
  ASSUME Paired, TurnAway
  PROVE  Paired'
<1> DEFINE c == Head(queue)
<1>1. /\ queue # <<>> /\ queue' = Tail(queue) /\ client' = [client EXCEPT ![c] = "away"]
      /\ UNCHANGED <<live, heap, sock, known>>
  BY DEF TurnAway, memory
<1>2. /\ client \in [Client -> {"away", "up", "fin", "rst"}] /\ queue \in Seq(Client)
      /\ sock \in [Fd -> Client \cup {NULL}]
      /\ \A f \in Fd : sock[f] # NULL => client[sock[f]] # "away"
      /\ \A j \in 1 .. Len(queue) :
           client[queue[j]] # "away" /\ \A f \in Fd : sock[f] # queue[j]
      /\ \A j, k \in 1 .. Len(queue) : queue[j] = queue[k] => j = k
      /\ \A j \in 1 .. Len(queue) : queue[j] \in Client
  BY ElementOfSeq DEF Paired
<1>3. /\ queue' \in Seq(Client) /\ Len(queue') = Len(queue) - 1
      /\ \A j \in 1 .. Len(queue') : queue'[j] = queue[j + 1]
      /\ Len(queue) \in Nat \ {0} /\ c = queue[1] /\ 1 \in 1 .. Len(queue)
      /\ \A j \in 1 .. Len(queue') : j + 1 \in 1 .. Len(queue) /\ j + 1 # 1
  <2>1. /\ queue' \in Seq(Client) /\ Len(queue') = Len(queue) - 1
        /\ \A j \in 1 .. Len(queue') : queue'[j] = queue[j + 1]
        /\ Len(queue) \in Nat \ {0}
    BY <1>1, <1>2, HeadTailProperties, EmptySeq
  <2>2. 1 \in 1 .. Len(queue)
        /\ \A j \in 1 .. Len(queue') : j + 1 \in 1 .. Len(queue) /\ j + 1 # 1
    BY <2>1
  <2> QED BY <1>1, <2>1, <2>2
<1>4. c \in Client /\ \A f \in Fd : sock[f] # c
  BY <1>2, <1>3
<1> HIDE DEF c
<1>5. /\ client' \in [Client -> {"away", "up", "fin", "rst"}]
      /\ \A d \in Client : d # c => client'[d] = client[d]
  BY <1>1, <1>2
<1>6. \A f \in Fd : sock'[f] # NULL => client'[sock'[f]] # "away"
  BY <1>1, <1>2, <1>4, <1>5
<1>7. \A j \in 1 .. Len(queue') : queue'[j] \in Client /\ queue'[j] # c
  BY <1>2, <1>3
<1>8. \A j \in 1 .. Len(queue') :
        client'[queue'[j]] # "away" /\ \A f \in Fd : sock'[f] # queue'[j]
  BY <1>1, <1>2, <1>3, <1>5, <1>7
<1>9. \A j, k \in 1 .. Len(queue') : queue'[j] = queue'[k] => j = k
  <2>1. ASSUME NEW j \in 1 .. Len(queue'), NEW k \in 1 .. Len(queue'), queue'[j] = queue'[k]
        PROVE  j + 1 = k + 1
    BY <1>2, <1>3, <2>1
  <2> QED BY <2>1
<1> QED BY <1>1, <1>3, <1>5, <1>6, <1>8, <1>9 DEF Paired

LEMMA UninitKeepsPaired ==
  ASSUME Paired, Uninit
  PROVE  Paired'
<1>1. /\ queue' = <<>> /\ UNCHANGED <<live, heap, sock, known>>
      /\ client' = [c \in Client |-> IF c \in Range(queue) THEN "away" ELSE client[c]]
  BY DEF Uninit, memory
<1>2. queue' \in Seq(Client) /\ Len(queue') = 0
  BY <1>1
<1>3. client' \in [Client -> {"away", "up", "fin", "rst"}]
  BY <1>1 DEF Paired
<1>4. ASSUME NEW f \in Fd, sock[f] # NULL
      PROVE  client'[sock[f]] # "away"
  <2>1. sock[f] \in Client /\ client[sock[f]] # "away"
    BY <1>4 DEF Paired
  <2>2. sock[f] \notin Range(queue)
    BY LenProperties DEF Paired, Range
  <2> QED BY <1>1, <2>1, <2>2
<1>5. \A f \in Fd : sock'[f] # NULL => client'[sock'[f]] # "away"
  BY <1>1, <1>4
<1>6. 1 .. Len(queue') = {}
  BY <1>2
<1>7. /\ sock' \in [Fd -> Client \cup {NULL}]
      /\ \A a \in live' : heap'[a].socket \in Fd /\ sock'[heap'[a].socket] # NULL
      /\ \A a, b \in live' : heap'[a].socket = heap'[b].socket => a = b
      /\ \A f \in Fd : sock'[f] # NULL => \E a \in live' : heap'[a].socket = f
      /\ \A f, g \in Fd : sock'[f] = sock'[g] /\ sock'[f] # NULL => f = g
  BY <1>1 DEF Paired
<1>8. known' = {[agent |-> a, fd |-> heap'[a].socket, client |-> sock'[heap'[a].socket]] :
                  a \in live'}
  BY <1>1 DEF Paired
<1>9. /\ \A j \in 1 .. Len(queue') :
           client'[queue'[j]] # "away" /\ \A f \in Fd : sock'[f] # queue'[j]
      /\ \A j, k \in 1 .. Len(queue') : queue'[j] = queue'[k] => j = k
  BY <1>6
<1> QED BY <1>2, <1>3, <1>5, <1>7, <1>8, <1>9 DEF Paired

(* Accept pairs a free agent and a free descriptor with the first client.  *)
LEMMA AcceptKeepsPaired ==
  ASSUME Paired, Accept, live \subseteq Agent, heap \in [Agent -> NetAgents(Fd \cup {0})]
  PROVE  Paired'
<1> DEFINE c == Head(queue)
           new_fd == CHOOSE f \in FreeFds : \A g \in FreeFds : f <= g
<1>1. PICK a \in Agent \ live :
        /\ sock' = [sock EXCEPT ![new_fd] = c]
        /\ live' = live \cup {a}
        /\ heap' = [heap EXCEPT ![a] = hs_net_new_agent(new_fd)]
        /\ known' = known \cup {[agent |-> a, fd |-> new_fd, client |-> c]}
  BY DEF Accept
<1>2. new_fd \in FreeFds
  <2>1. FreeFds \subseteq Nat /\ FreeFds # {}
    BY AcceptorAssumption DEF FreeFds, Fd, Accept
  <2> QED BY <2>1, LeastExists
<1>3. /\ queue # <<>> /\ queue' = Tail(queue) /\ client' = client
      /\ queue \in Seq(Client) /\ Len(queue) \in Nat \ {0}
      /\ \A j \in 1 .. Len(queue) : queue[j] \in Client
      /\ queue' \in Seq(Client) /\ Len(queue') = Len(queue) - 1
      /\ \A j \in 1 .. Len(queue') : queue'[j] = queue[j + 1]
  <2>1. queue # <<>> /\ queue' = Tail(queue) /\ client' = client /\ queue \in Seq(Client)
    BY DEF Accept, Paired
  <2> QED BY <2>1, ElementOfSeq, HeadTailProperties, EmptySeq
<1>4. /\ c = queue[1] /\ 1 \in 1 .. Len(queue) /\ c \in Client
      /\ \A j \in 1 .. Len(queue') : j + 1 \in 1 .. Len(queue) /\ j + 1 # 1
  <2>1. c = queue[1] /\ 1 \in 1 .. Len(queue)
    BY <1>3
  <2>2. \A j \in 1 .. Len(queue') : j + 1 \in 1 .. Len(queue) /\ j + 1 # 1
    BY <1>3
  <2> QED BY <1>3, <2>1, <2>2
<1>5. /\ new_fd \in Fd /\ sock[new_fd] = NULL /\ c # NULL
      /\ client[c] # "away" /\ \A f \in Fd : sock[f] # c
  BY <1>2, <1>4, AcceptorAssumption DEF FreeFds, Paired
<1> HIDE DEF c, new_fd
<1>6. heap'[a].socket = new_fd /\ \A b \in live : heap'[b] = heap[b]
  <2>1. heap'[a] = hs_net_new_agent(new_fd)
    BY <1>1
  <2>2. \A b \in live : b \in Agent /\ b # a
    OBVIOUS
  <2> QED BY <1>1, <2>1, <2>2 DEF hs_net_new_agent
<1>7. /\ sock' \in [Fd -> Client \cup {NULL}] /\ sock'[new_fd] = c
      /\ \A f \in Fd : f # new_fd => sock'[f] = sock[f]
  BY <1>1, <1>4, <1>5 DEF Paired
<1>8. \A b \in live : heap[b].socket \in Fd /\ heap[b].socket # new_fd
                     /\ sock[heap[b].socket] # NULL
  BY <1>5 DEF Paired
<1>9. \A b \in live' : heap'[b].socket \in Fd /\ sock'[heap'[b].socket] # NULL
  BY <1>1, <1>5, <1>6, <1>7, <1>8
<1>10. \A b, d \in live' : heap'[b].socket = heap'[d].socket => b = d
  <2>1. \A b, d \in live : heap[b].socket = heap[d].socket => b = d
    BY DEF Paired
  <2> QED BY <1>1, <1>6, <1>8, <2>1
<1>11. \A f \in Fd : sock'[f] # NULL => \E b \in live' : heap'[b].socket = f
  <2>1. \A f \in Fd : sock[f] # NULL => \E b \in live : heap[b].socket = f
    BY DEF Paired
  <2> QED BY <1>1, <1>6, <1>7, <2>1
<1>12. \A f, g \in Fd : sock'[f] = sock'[g] /\ sock'[f] # NULL => f = g
  <2>1. \A f, g \in Fd : sock[f] = sock[g] /\ sock[f] # NULL => f = g
    BY DEF Paired
  <2> QED BY <1>5, <1>7, <2>1
<1>13. \A f \in Fd : sock'[f] # NULL => client'[sock'[f]] # "away"
  <2>1. \A f \in Fd : sock[f] # NULL => client[sock[f]] # "away"
    BY DEF Paired
  <2> QED BY <1>3, <1>5, <1>7, <2>1
<1>14. \A j, k \in 1 .. Len(queue) : queue[j] = queue[k] => j = k
  BY DEF Paired
<1>15. \A j \in 1 .. Len(queue') :
         client'[queue'[j]] # "away" /\ \A f \in Fd : sock'[f] # queue'[j]
  <2>1. \A j \in 1 .. Len(queue) :
          client[queue[j]] # "away" /\ \A f \in Fd : sock[f] # queue[j]
    BY DEF Paired
  <2>2. \A j \in 1 .. Len(queue') : queue'[j] # c
    BY <1>3, <1>4, <1>14
  <2> QED BY <1>3, <1>4, <1>7, <2>1, <2>2
<1>16. \A j, k \in 1 .. Len(queue') : queue'[j] = queue'[k] => j = k
  <2>1. ASSUME NEW j \in 1 .. Len(queue'), NEW k \in 1 .. Len(queue'), queue'[j] = queue'[k]
        PROVE  j + 1 = k + 1
    BY <1>3, <1>4, <1>14, <2>1
  <2> QED BY <2>1
<1>17. known' = {[agent |-> b, fd |-> heap'[b].socket, client |-> sock'[heap'[b].socket]] :
                   b \in live'}
  <2>1. known = {[agent |-> b, fd |-> heap[b].socket, client |-> sock[heap[b].socket]] :
                   b \in live}
    BY DEF Paired
  <2> DEFINE was(b) == [agent |-> b, fd |-> heap[b].socket, client |-> sock[heap[b].socket]]
             is(b) == [agent |-> b, fd |-> heap'[b].socket, client |-> sock'[heap'[b].socket]]
  <2>2. \A b \in live : was(b) = is(b)
    BY <1>6, <1>7, <1>8
  <2>3. [agent |-> a, fd |-> new_fd, client |-> c] = is(a)
    BY <1>6, <1>7
  <2>4. known = {was(b) : b \in live}
    BY <2>1
  <2> HIDE DEF was, is
  <2>5. known' = {is(b) : b \in live'}
    BY <1>1, <2>2, <2>3, <2>4
  <2> QED BY <2>5 DEF is
<1> QED BY <1>3, <1>7, <1>9, <1>10, <1>11, <1>12, <1>13, <1>15, <1>16, <1>17 DEF Paired

(* With an agent go its descriptor, its client and what was known of it.   *)
LEMMA DestroyKeepsPaired ==
  ASSUME Paired, NEW a \in live, _agent_destroy(a),
         live \subseteq Agent, heap \in [Agent -> NetAgents(Fd \cup {0})]
  PROVE  Paired'
<1> DEFINE s == heap[a].socket
           c == sock[s]
<1>1. /\ sock' = [sock EXCEPT ![s] = NULL] /\ client' = [client EXCEPT ![c] = "away"]
      /\ live' = live \ {a} /\ heap' = [heap EXCEPT ![a] = Unallocated]
      /\ known' = {k \in known : k.fd # s} /\ queue' = queue
  BY DEF _agent_destroy, Closed, KnownWithout
<1>2. s \in Fd /\ c \in Client /\ c # NULL
  BY AcceptorAssumption DEF Paired
<1>3. \A b \in live : b # a => heap[b].socket \in Fd /\ heap[b].socket # s
                            /\ sock[heap[b].socket] # NULL /\ heap'[b] = heap[b]
  BY <1>1 DEF Paired
<1> HIDE DEF s, c
<1>4. /\ sock' \in [Fd -> Client \cup {NULL}] /\ sock'[s] = NULL
      /\ \A f \in Fd : f # s => sock'[f] = sock[f]
  BY <1>1, <1>2 DEF Paired
<1>5. /\ client' \in [Client -> {"away", "up", "fin", "rst"}]
      /\ \A d \in Client : d # c => client'[d] = client[d]
  BY <1>1, <1>2 DEF Paired
<1>6. \A b \in live' : heap'[b].socket \in Fd /\ sock'[heap'[b].socket] # NULL
  BY <1>1, <1>3, <1>4
<1>7. \A b, d \in live' : heap'[b].socket = heap'[d].socket => b = d
  BY <1>1, <1>3 DEF Paired
<1>8. \A f \in Fd : sock'[f] # NULL => \E b \in live' : heap'[b].socket = f
  <2>1. ASSUME NEW f \in Fd, sock'[f] # NULL
        PROVE  \E b \in live' : heap'[b].socket = f
    <3>1. f # s /\ sock[f] # NULL
      BY <1>4, <2>1
    <3>2. PICK b \in live : heap[b].socket = f
      BY <3>1 DEF Paired
    <3>3. b # a
      BY <3>1, <3>2 DEF s
    <3> QED BY <1>1, <1>3, <3>2, <3>3
  <2> QED BY <2>1
<1>9. \A f, g \in Fd : sock'[f] = sock'[g] /\ sock'[f] # NULL => f = g
  BY <1>4 DEF Paired
<1>10. \A f \in Fd : sock'[f] # NULL => client'[sock'[f]] # "away"
  <2>1. \A f \in Fd : f # s /\ sock[f] # NULL => sock[f] # c
    BY <1>2 DEF Paired, c
  <2>2. \A f \in Fd : sock[f] # NULL => sock[f] \in Client /\ client[sock[f]] # "away"
    BY DEF Paired
  <2> QED BY <1>4, <1>5, <2>1, <2>2
<1>11. \A j \in 1 .. Len(queue') :
         client'[queue'[j]] # "away" /\ \A f \in Fd : sock'[f] # queue'[j]
  <2>1. \A j \in 1 .. Len(queue) :
          /\ queue[j] \in Client /\ client[queue[j]] # "away"
          /\ \A f \in Fd : sock[f] # queue[j]
    BY ElementOfSeq DEF Paired
  <2>2. \A j \in 1 .. Len(queue) : queue[j] # c /\ queue[j] # NULL
    BY <1>2, <2>1, AcceptorAssumption DEF c
  <2> QED BY <1>1, <1>4, <1>5, <2>1, <2>2
<1>12. known' = {[agent |-> b, fd |-> heap'[b].socket, client |-> sock'[heap'[b].socket]] :
                   b \in live'}
  <2>1. known = {[agent |-> b, fd |-> heap[b].socket, client |-> sock[heap[b].socket]] :
                   b \in live}
    BY DEF Paired
  <2> DEFINE was(b) == [agent |-> b, fd |-> heap[b].socket, client |-> sock[heap[b].socket]]
             is(b) == [agent |-> b, fd |-> heap'[b].socket, client |-> sock'[heap'[b].socket]]
  <2>2. \A b \in live \ {a} : was(b) = is(b) /\ was(b).fd # s
    BY <1>3, <1>4
  <2>3. was(a).fd = s
    BY DEF s
  <2>4. known = {was(b) : b \in live}
    BY <2>1
  <2> HIDE DEF was, is
  <2>5. known' = {is(b) : b \in live'}
    BY <1>1, <2>2, <2>3, <2>4
  <2> QED BY <2>5 DEF is
<1> QED BY <1>1, <1>4, <1>5, <1>6, <1>7, <1>8, <1>9, <1>10, <1>11, <1>12 DEF Paired

-----------------------------------------------------------------------------
(* Tagged is kept.                                                         *)

LEMMA NewAgentHolds ==
  ASSUME NEW f \in Fd \cup {0}, NEW c
  PROVE  /\ hs_net_new_agent(f) \in NetAgents(Fd \cup {0})
         /\ RecvHolds(hs_net_new_agent(f).recv_buff, RecvLength, c)
         /\ SendHolds(hs_net_new_agent(f).send_buff, SendLength, c)
<1>1. RecvLength \in Nat /\ SendLength \in Nat
  BY NetAgentAssumption
<1>2. /\ RecvHolds(hs_recvbuff_init(RecvLength), RecvLength, c)
      /\ SendHolds(hs_sendbuff_init(SendLength), SendLength, c)
  BY <1>1, RecvInitHolds, SendInitHolds
<1>3. /\ hs_recvbuff_init(RecvLength) \in RecvBuffs(RecvLength)
      /\ hs_sendbuff_init(SendLength) \in SendBuffs(SendLength)
  BY <1>2 DEF RecvHolds, SendHolds
<1> QED BY <1>2, <1>3 DEF hs_net_new_agent, NetAgents

LEMMA CarriesWith ==
  ASSUME NEW q, Carries(q), NEW c \in Client, NEW s \in Seq(Byte),
         Len(s) <= KernelRoom, \A j \in 1 .. Len(s) : s[j] = c
  PROVE  Carries([q EXCEPT ![c] = s])
<1> DEFINE r == [q EXCEPT ![c] = s]
<1>1. /\ r \in [Client -> Seq(Byte)] /\ r[c] = s
      /\ \A d \in Client : d # c => r[d] = q[d]
  BY DEF Carries
<1> HIDE DEF r
<1>2. \A d \in Client : Len(r[d]) <= KernelRoom /\ \A j \in 1 .. Len(r[d]) : r[d][j] = d
  BY <1>1 DEF Carries
<1>3. Carries(r)
  BY <1>1, <1>2 DEF Carries
<1> QED BY <1>3 DEF r

LEMMA CarriesNothing ==
  ASSUME NEW q, Carries(q), NEW c \in Client
  PROVE  Carries([q EXCEPT ![c] = <<>>])
<1> DEFINE none == <<>>
<1>1. none \in Seq(Byte) /\ Len(none) = 0 /\ KernelRoom \in Nat
  BY AcceptorAssumption
<1> HIDE DEF none
<1>2. Len(none) <= KernelRoom /\ 1 .. Len(none) = {}
  BY <1>1
<1>3. Carries([q EXCEPT ![c] = none])
  BY <1>1, <1>2, CarriesWith
<1> QED BY <1>3 DEF none

LEMMA TaggedInit == Init => Tagged
<1> SUFFICES ASSUME Init PROVE Tagged
  OBVIOUS
<1>1. /\ live = {} /\ heap = [a \in Agent |-> Unallocated]
      /\ inq = [c \in Client |-> <<>>] /\ outq = [c \in Client |-> <<>>]
  BY DEF Init
<1>2. Unallocated \in NetAgents(Fd \cup {0})
  BY NewAgentHolds DEF Unallocated
<1>3. Carries([c \in Client |-> <<>>])
  <2>1. <<>> \in Seq(Byte) /\ Len(<<>>) = 0 /\ KernelRoom \in Nat
    BY AcceptorAssumption
  <2> QED BY <2>1 DEF Carries
<1> QED BY <1>1, <1>2, <1>3 DEF Tagged

LEMMA TaggedUntouched ==
  ASSUME Tagged, UNCHANGED <<live, heap, sock>>, Carries(inq'), Carries(outq')
  PROVE  Tagged'
<1>1. Carries(inq)' /\ Carries(outq)'
  BY DEF Carries
<1> QED BY <1>1 DEF Tagged

(* One agent's buffers change.                                             *)
LEMMA BuffersKeepTagged ==
  ASSUME Tagged, NEW a \in live, live \subseteq Agent, NEW x \in NetAgents(Fd \cup {0}),
         heap' = [heap EXCEPT ![a] = x], x.socket = heap[a].socket,
         RecvHolds(x.recv_buff, RecvLength, sock[x.socket]),
         SendHolds(x.send_buff, SendLength, sock[x.socket]),
         UNCHANGED <<live, sock>>, Carries(inq'), Carries(outq')
  PROVE  Tagged'
<1>1. Carries(inq)' /\ Carries(outq)'
  BY DEF Carries
<1>2. /\ heap' \in [Agent -> NetAgents(Fd \cup {0})] /\ heap'[a] = x
      /\ \A b \in live : b # a => heap'[b] = heap[b]
  BY DEF Tagged
<1>3. \A b \in live' :
        /\ RecvHolds(heap'[b].recv_buff, RecvLength, sock'[heap'[b].socket])
        /\ SendHolds(heap'[b].send_buff, SendLength, sock'[heap'[b].socket])
  BY <1>2 DEF Tagged
<1>4. \A b \in live' :
        /\ RecvHolds(heap[b].recv_buff, RecvLength, sock[heap[b].socket])'
        /\ SendHolds(heap[b].send_buff, SendLength, sock[heap[b].socket])'
  BY <1>3 DEF RecvHolds, SendHolds, RecvBuffs, SendBuffs, Block
<1> QED BY <1>1, <1>2, <1>4 DEF Tagged

LEMMA TurnAwayKeepsTagged ==
  ASSUME Paired, Tagged, TurnAway
  PROVE  Tagged'
<1>1. Head(queue) \in Client
  <2>1. queue \in Seq(Client) /\ queue # <<>>
    BY DEF Paired, TurnAway
  <2> QED BY <2>1
<1>2. /\ inq' = [inq EXCEPT ![Head(queue)] = <<>>] /\ outq' = outq
      /\ UNCHANGED <<live, heap, sock>>
  BY DEF TurnAway, memory
<1>3. Carries(inq') /\ Carries(outq')
  BY <1>1, <1>2, CarriesNothing DEF Tagged
<1> QED BY <1>2, <1>3, TaggedUntouched

LEMMA UninitKeepsTagged ==
  ASSUME Tagged, Uninit
  PROVE  Tagged'
<1>1. /\ inq' = [c \in Client |-> IF c \in Range(queue) THEN <<>> ELSE inq[c]]
      /\ outq' = outq /\ UNCHANGED <<live, heap, sock>>
  BY DEF Uninit, memory
<1>2. <<>> \in Seq(Byte) /\ Len(<<>>) = 0 /\ KernelRoom \in Nat
  BY AcceptorAssumption
<1>3. /\ inq' \in [Client -> Seq(Byte)]
      /\ \A c \in Client : inq'[c] = <<>> \/ inq'[c] = inq[c]
  BY <1>1, <1>2 DEF Tagged, Carries
<1>4. Carries(inq')
  BY <1>2, <1>3 DEF Tagged, Carries
<1>5. Carries(outq')
  BY <1>1 DEF Tagged
<1> QED BY <1>1, <1>4, <1>5, TaggedUntouched

(* A new agent is empty, whatever descriptor it is given.                  *)
LEMMA AcceptKeepsTagged ==
  ASSUME Paired, Tagged, Accept, live \subseteq Agent
  PROVE  Tagged'
<1> DEFINE new_fd == CHOOSE f \in FreeFds : \A g \in FreeFds : f <= g
<1>1. PICK a \in Agent \ live :
        /\ sock' = [sock EXCEPT ![new_fd] = Head(queue)]
        /\ live' = live \cup {a}
        /\ heap' = [heap EXCEPT ![a] = hs_net_new_agent(new_fd)]
  BY DEF Accept
<1>2. new_fd \in FreeFds
  <2>1. FreeFds \subseteq Nat /\ FreeFds # {}
    BY AcceptorAssumption DEF FreeFds, Fd, Accept
  <2> QED BY <2>1, LeastExists
<1> HIDE DEF new_fd
<1>3. new_fd \in Fd /\ sock[new_fd] = NULL
  BY <1>2 DEF FreeFds
<1>4. /\ heap' \in [Agent -> NetAgents(Fd \cup {0})] /\ heap'[a] = hs_net_new_agent(new_fd)
      /\ \A b \in live : heap'[b] = heap[b]
  <2>1. hs_net_new_agent(new_fd) \in NetAgents(Fd \cup {0})
    BY <1>3, NewAgentHolds
  <2>2. \A b \in live : b \in Agent /\ b # a
    OBVIOUS
  <2> QED BY <1>1, <2>1, <2>2 DEF Tagged
<1>5. \A b \in live : sock'[heap[b].socket] = sock[heap[b].socket]
  BY <1>1, <1>3 DEF Paired
<1>6. \A b \in live' :
        /\ RecvHolds(heap'[b].recv_buff, RecvLength, sock'[heap'[b].socket])
        /\ SendHolds(heap'[b].send_buff, SendLength, sock'[heap'[b].socket])
  <2>1. /\ RecvHolds(heap'[a].recv_buff, RecvLength, sock'[heap'[a].socket])
        /\ SendHolds(heap'[a].send_buff, SendLength, sock'[heap'[a].socket])
    BY <1>3, <1>4, NewAgentHolds
  <2>2. \A b \in live :
          /\ RecvHolds(heap'[b].recv_buff, RecvLength, sock'[heap'[b].socket])
          /\ SendHolds(heap'[b].send_buff, SendLength, sock'[heap'[b].socket])
    BY <1>4, <1>5 DEF Tagged
  <2> QED BY <1>1, <2>1, <2>2
<1>7. Carries(inq)' /\ Carries(outq)'
  BY DEF Accept, Tagged, Carries
<1>8. \A b \in live' :
        /\ RecvHolds(heap[b].recv_buff, RecvLength, sock[heap[b].socket])'
        /\ SendHolds(heap[b].send_buff, SendLength, sock[heap[b].socket])'
  BY <1>6 DEF RecvHolds, SendHolds, RecvBuffs, SendBuffs, Block
<1> QED BY <1>4, <1>7, <1>8 DEF Tagged

(* With an agent everything that was on its way is lost.                   *)
LEMMA DestroyKeepsTagged ==
  ASSUME Paired, Tagged, NEW a \in live, _agent_destroy(a), live \subseteq Agent
  PROVE  Tagged'
<1> DEFINE s == heap[a].socket
           c == sock[s]
<1>1. /\ sock' = [sock EXCEPT ![s] = NULL] /\ live' = live \ {a}
      /\ heap' = [heap EXCEPT ![a] = Unallocated]
      /\ inq' = [inq EXCEPT ![c] = <<>>] /\ outq' = [outq EXCEPT ![c] = <<>>]
  BY DEF _agent_destroy, Closed
<1>2. s \in Fd /\ c \in Client
  BY DEF Paired
<1>3. \A b \in live : b # a => heap[b].socket # s /\ heap[b].socket \in Fd
  BY DEF Paired
<1> HIDE DEF s, c
<1>4. heap' \in [Agent -> NetAgents(Fd \cup {0})]
  <2>1. Unallocated \in NetAgents(Fd \cup {0})
    BY NewAgentHolds DEF Unallocated
  <2> QED BY <1>1, <2>1 DEF Tagged
<1>5. \A b \in live' : /\ b \in live /\ heap'[b] = heap[b]
                      /\ sock'[heap'[b].socket] = sock[heap[b].socket]
  BY <1>1, <1>2, <1>3 DEF Paired
<1>6. \A b \in live' :
        /\ RecvHolds(heap'[b].recv_buff, RecvLength, sock'[heap'[b].socket])
        /\ SendHolds(heap'[b].send_buff, SendLength, sock'[heap'[b].socket])
  BY <1>5 DEF Tagged
<1>7. Carries(inq') /\ Carries(outq')
  BY <1>1, <1>2, CarriesNothing DEF Tagged
<1>8. Carries(inq)' /\ Carries(outq)'
  BY <1>7 DEF Carries
<1>9. \A b \in live' :
        /\ RecvHolds(heap[b].recv_buff, RecvLength, sock[heap[b].socket])'
        /\ SendHolds(heap[b].send_buff, SendLength, sock[heap[b].socket])'
  BY <1>6 DEF RecvHolds, SendHolds, RecvBuffs, SendBuffs, Block
<1> QED BY <1>4, <1>8, <1>9 DEF Tagged

(* The agent the loop stands at, as Paired and Tagged have it.             *)
LEMMA AgentHolds ==
  ASSUME Paired, Tagged, NEW a \in live, live \subseteq Agent
  PROVE  /\ heap[a] \in NetAgents(Fd \cup {0})
         /\ heap[a].socket \in Fd /\ sock[heap[a].socket] \in Client
         /\ RecvHolds(heap[a].recv_buff, RecvLength, sock[heap[a].socket])
         /\ SendHolds(heap[a].send_buff, SendLength, sock[heap[a].socket])
BY DEF Paired, Tagged

LEMMA BuffersKeepPaired ==
  ASSUME Paired, NEW a \in live, live \subseteq Agent, NEW x,
         heap \in [Agent -> NetAgents(Fd \cup {0})],
         heap' = [heap EXCEPT ![a] = x], x.socket = heap[a].socket,
         UNCHANGED <<live, sock, queue, client, known>>
  PROVE  Paired'
<1>1. \A b \in live : heap'[b].socket = heap[b].socket
  OBVIOUS
<1> QED BY <1>1, PairedUntouched

LEMMA AgentReceivesKeeps ==
  ASSUME InOrder, Paired, Tagged, AgentReceives
  PROVE  Paired' /\ Tagged'
<1> DEFINE c == sock[heap[agent].socket]
<1>1. agent \in live /\ live \subseteq Agent
  <2>1. i < Len(agents.elems) /\ pc # "disconn"
    BY DEF AgentReceives, AtAgent, hs_array_elem_num
  <2> QED BY <2>1, ServedIsLive, LiveAreAgents
<1>2. /\ heap[agent] \in NetAgents(Fd \cup {0})
      /\ heap[agent].socket \in Fd /\ c \in Client
      /\ RecvHolds(heap[agent].recv_buff, RecvLength, c)
      /\ SendHolds(heap[agent].send_buff, SendLength, c)
  BY <1>1, AgentHolds
<1>3. /\ UNCHANGED <<live, sock, queue, client, known, outq>> /\ Carries(outq')
      /\ Carries(inq) /\ heap \in [Agent -> NetAgents(Fd \cup {0})]
  BY DEF AgentReceives, Tagged
<1>4. CASE UNCHANGED <<heap, inq>>
  <2>1. Carries(inq')
    BY <1>4 DEF Tagged
  <2>2. Paired'
    BY <1>3, <1>4, PairedUntouched
  <2> QED BY <1>3, <1>4, <2>1, <2>2, TaggedUntouched
<1>5. ASSUME NEW n \in 1 .. Len(Arrived), n <= hs_recvbuff_leftwrite(recv_buff),
             heap' = [heap EXCEPT ![agent].recv_buff = Received(@, SubSeq(Arrived, 1, n))],
             inq' = [inq EXCEPT ![Peer] = SubSeq(@, n + 1, Len(@))]
      PROVE  Paired' /\ Tagged'
  <2> DEFINE got == SubSeq(inq[c], 1, n)
             rest == SubSeq(inq[c], n + 1, Len(inq[c]))
             buff == Received(heap[agent].recv_buff, got)
             x == [heap[agent] EXCEPT !.recv_buff = buff]
  <2>1. /\ inq[c] \in Seq(Byte) /\ Len(inq[c]) <= KernelRoom /\ Len(inq[c]) \in Nat
        /\ \A j \in 1 .. Len(inq[c]) : inq[c][j] = c
        /\ n \in 0 .. Len(inq[c])
    <3>1. inq[c] \in Seq(Byte) /\ n \in 1 .. Len(inq[c])
      BY <1>2, <1>3, <1>5 DEF Carries, Arrived, Peer
    <3>2. Len(inq[c]) \in Nat
      BY <3>1, LenProperties
    <3> QED BY <1>2, <1>3, <3>1, <3>2 DEF Carries
  <2>2. /\ got \in Seq(Byte) /\ Len(got) = n /\ \A j \in 1 .. n : got[j] = c
        /\ rest \in Seq(Byte) /\ Len(rest) = Len(inq[c]) - n
        /\ \A j \in 1 .. Len(inq[c]) - n : rest[j] = c
    BY <2>1, CutOnly
  <2>3. /\ heap' = [heap EXCEPT ![agent] = x] /\ inq' = [inq EXCEPT ![c] = rest]
    BY <1>1, <1>3, <1>5 DEF Arrived, Peer, Carries
  <2> HIDE DEF got, rest
  <2>4. RecvHolds(buff, RecvLength, c)
    <3>1. Len(got) <= hs_recvbuff_leftwrite(heap[agent].recv_buff)
      BY <1>5, <2>2 DEF recv_buff
    <3>2. RecvLength \in Nat
      BY NetAgentAssumption
    <3> QED BY <1>2, <2>2, <3>1, <3>2, ReceivedHolds
  <2> HIDE DEF buff
  <2>5. /\ x \in NetAgents(Fd \cup {0}) /\ x.socket = heap[agent].socket
        /\ x.recv_buff = buff /\ x.send_buff = heap[agent].send_buff
    BY <1>2, <2>4 DEF NetAgents, RecvHolds
  <2> HIDE DEF x
  <2>6. Carries(inq')
    <3>1. Len(rest) <= KernelRoom /\ KernelRoom \in Nat
      BY <2>1, <2>2, AcceptorAssumption
    <3> QED BY <1>2, <1>3, <2>2, <2>3, <3>1, CarriesWith
  <2>7. Tagged'
    BY <1>1, <1>2, <1>3, <2>3, <2>4, <2>5, <2>6, BuffersKeepTagged
  <2>8. Paired'
    BY <1>1, <1>3, <2>3, <2>5, BuffersKeepPaired
  <2> QED BY <2>7, <2>8
<1> QED BY <1>4, <1>5 DEF AgentReceives

LEMMA HandlerReturnsKeeps ==
  ASSUME InOrder, Paired, Tagged, HandlerReturns
  PROVE  Paired' /\ Tagged'
<1> DEFINE c == sock[heap[agent].socket]
<1>1. agent \in live /\ live \subseteq Agent
  <2>1. i < Len(agents.elems) /\ pc # "disconn"
    BY LenProperties DEF HandlerReturns, InOrder, Served, Serving
  <2> QED BY <2>1, ServedIsLive, LiveAreAgents
<1>2. /\ heap[agent] \in NetAgents(Fd \cup {0})
      /\ RecvHolds(heap[agent].recv_buff, RecvLength, c)
      /\ SendHolds(heap[agent].send_buff, SendLength, c)
  BY <1>1, AgentHolds
<1>3. /\ UNCHANGED <<live, sock, queue, client, known>> /\ Carries(inq') /\ Carries(outq')
      /\ heap \in [Agent -> NetAgents(Fd \cup {0})]
  BY DEF HandlerReturns, kernel, Tagged
<1>4. PICK n \in 0 .. hs_recvbuff_leftread(recv_buff) :
        heap' = [heap EXCEPT ![agent].recv_buff = Handled(@, n)]
  BY DEF HandlerReturns
<1> DEFINE buff == Handled(heap[agent].recv_buff, n)
           x == [heap[agent] EXCEPT !.recv_buff = buff]
<1>5. heap' = [heap EXCEPT ![agent] = x]
  BY <1>1, <1>3, <1>4
<1>6. RecvHolds(buff, RecvLength, c)
  <2>1. RecvLength \in Nat /\ n \in 0 .. hs_recvbuff_leftread(heap[agent].recv_buff)
    BY NetAgentAssumption DEF recv_buff
  <2> QED BY <1>2, <2>1, HandledHolds
<1> HIDE DEF buff
<1>7. /\ x \in NetAgents(Fd \cup {0}) /\ x.socket = heap[agent].socket
      /\ x.recv_buff = buff /\ x.send_buff = heap[agent].send_buff
  BY <1>2, <1>6 DEF NetAgents, RecvHolds
<1> HIDE DEF x
<1>8. Tagged'
  BY <1>1, <1>2, <1>3, <1>5, <1>6, <1>7, BuffersKeepTagged
<1>9. Paired'
  BY <1>1, <1>3, <1>5, <1>7, BuffersKeepPaired
<1> QED BY <1>8, <1>9

LEMMA AgentSendsKeeps ==
  ASSUME InOrder, Paired, Tagged, AgentSends
  PROVE  Paired' /\ Tagged'
<1> DEFINE c == sock[heap[agent].socket]
<1>1. agent \in live /\ live \subseteq Agent
  <2>1. i < Len(agents.elems) /\ pc # "disconn"
    BY LenProperties DEF AgentSends, InOrder, Served, Serving
  <2> QED BY <2>1, ServedIsLive, LiveAreAgents
<1>2. /\ heap[agent] \in NetAgents(Fd \cup {0}) /\ c \in Client
      /\ RecvHolds(heap[agent].recv_buff, RecvLength, c)
      /\ SendHolds(heap[agent].send_buff, SendLength, c)
  BY <1>1, AgentHolds
<1>3. /\ UNCHANGED <<live, sock, queue, client, known>> /\ Carries(inq')
      /\ Carries(outq) /\ heap \in [Agent -> NetAgents(Fd \cup {0})]
  BY DEF AgentSends, Tagged
<1>4. CASE UNCHANGED <<heap, outq>>
  <2>1. Carries(outq')
    BY <1>4 DEF Tagged
  <2>2. Paired'
    BY <1>3, <1>4, PairedUntouched
  <2> QED BY <1>3, <1>4, <2>1, <2>2, TaggedUntouched
<1>5. ASSUME NEW s \in 1 .. CanSend(send_buff), s <= KernelRoom - Len(outq[Peer]),
             outq' = [outq EXCEPT ![Peer] = @ \o SubSeq(Unsent(send_buff), 1, s)],
             heap' = [heap EXCEPT ![agent].send_buff = Sent(@, s)]
      PROVE  Paired' /\ Tagged'
  <2> DEFINE all == Unsent(heap[agent].send_buff)
             put == SubSeq(all, 1, s)
             out == outq[c] \o put
             buff == Sent(heap[agent].send_buff, s)
             x == [heap[agent] EXCEPT !.send_buff = buff]
  <2>1. /\ all \in Seq(Byte) /\ Len(all) = CanSend(heap[agent].send_buff)
        /\ \A j \in 1 .. Len(all) : all[j] = c
    <3> DEFINE m == CanSend(heap[agent].send_buff)
    <3>1. DOMAIN all = 1 .. m /\ m \in Nat /\ \A j \in 1 .. m : all[j] = c
      <4>1. m \in Nat
        BY <1>2 DEF SendHolds, SendBuffs, CanSend
      <4>2. SendLength \in Nat
        BY NetAgentAssumption
      <4>3. \A j \in DOMAIN all : all[j] = c
        BY <1>2, <4>2, UnsentHolds
      <4> QED BY <4>1, <4>3 DEF Unsent, BytesAt
    <3>2. c \in Byte
      BY <1>2, AcceptorAssumption
    <3>3. all = [j \in 1 .. m |-> all[j]]
      BY DEF Unsent, BytesAt
    <3> HIDE DEF all, m
    <3>4. all \in Seq(Byte) /\ Len(all) = m
      BY <3>1, <3>2, <3>3, IsASeq
    <3> QED BY <3>1, <3>4 DEF m
  <2>2. s \in 0 .. Len(all) /\ s \in Nat
    BY <1>5, <2>1 DEF send_buff, SendBuffs
  <2> HIDE DEF all
  <2>3. put \in Seq(Byte) /\ Len(put) = s /\ \A j \in 1 .. s : put[j] = c
    BY <2>1, <2>2, CutOnly
  <2>4. /\ outq[c] \in Seq(Byte) /\ Len(outq[c]) \in Nat
        /\ \A j \in 1 .. Len(outq[c]) : outq[c][j] = c
    BY <1>2, <1>3, LenProperties DEF Carries
  <2>5. heap' = [heap EXCEPT ![agent] = x] /\ outq' = [outq EXCEPT ![c] = out]
    BY <1>1, <1>3, <1>5 DEF send_buff, Peer, Carries, all
  <2> HIDE DEF put
  <2>6. /\ out \in Seq(Byte) /\ Len(out) = Len(outq[c]) + s
        /\ \A j \in 1 .. Len(out) : out[j] = c
    <3>1. /\ out \in Seq(Byte) /\ Len(out) = Len(outq[c]) + Len(put)
          /\ \A j \in 1 .. Len(outq[c]) + Len(put) :
               out[j] = IF j <= Len(outq[c]) THEN outq[c][j] ELSE put[j - Len(outq[c])]
      BY <2>3, <2>4, ConcatProperties
    <3>2. ASSUME NEW j \in 1 .. Len(outq[c]) + s
          PROVE  out[j] = c
      <4>1. CASE j <= Len(outq[c])
        BY <2>3, <2>4, <3>1, <4>1
      <4>2. CASE ~(j <= Len(outq[c]))
        <5>1. j - Len(outq[c]) \in 1 .. s
          BY <2>2, <2>4, <4>2
        <5> QED BY <2>3, <2>4, <3>1, <4>2, <5>1
      <4> QED BY <4>1, <4>2
    <3> QED BY <2>3, <3>1, <3>2
  <2>7. SendHolds(buff, SendLength, c)
    <3>1. SendLength \in Nat /\ s \in 0 .. CanSend(heap[agent].send_buff)
      BY <1>5, NetAgentAssumption DEF send_buff
    <3> QED BY <1>2, <3>1, SentHolds
  <2> HIDE DEF buff
  <2>8. /\ x \in NetAgents(Fd \cup {0}) /\ x.socket = heap[agent].socket
        /\ x.send_buff = buff /\ x.recv_buff = heap[agent].recv_buff
    BY <1>2, <2>7 DEF NetAgents, SendHolds
  <2> HIDE DEF x, out
  <2>9. Carries(outq')
    <3>1. Len(out) <= KernelRoom
      <4>1. s <= KernelRoom - Len(outq[c]) /\ KernelRoom \in Nat
        BY <1>5, AcceptorAssumption DEF Peer
      <4> QED BY <2>2, <2>4, <2>6, <4>1
    <3> QED BY <1>2, <1>3, <2>5, <2>6, <3>1, CarriesWith
  <2>10. Tagged'
    BY <1>1, <1>2, <1>3, <2>5, <2>7, <2>8, <2>9, BuffersKeepTagged
  <2>11. Paired'
    BY <1>1, <1>3, <2>5, <2>8, BuffersKeepPaired
  <2> QED BY <2>10, <2>11
<1> QED BY <1>4, <1>5 DEF AgentSends

(* What the application knows of an agent is true, so what it writes for a *)
(* client goes into the buffer of that client's agent.                     *)
LEMMA AppWritesKeeps ==
  ASSUME InOrder, Paired, Tagged, AppWrites
  PROVE  Paired' /\ Tagged'
<1>1. PICK k \in known :
        heap' = [heap EXCEPT ![k.agent] = hs_net_agent_write(@, <<k.client>>)]
  BY DEF AppWrites
<1>2. /\ UNCHANGED <<live, sock, queue, client, known>> /\ Carries(inq') /\ Carries(outq')
      /\ heap \in [Agent -> NetAgents(Fd \cup {0})]
  BY DEF AppWrites, kernel, Tagged
<1>3. PICK a \in live : k = [agent |-> a, fd |-> heap[a].socket, client |-> sock[heap[a].socket]]
  BY <1>1 DEF Paired
<1> DEFINE c == sock[heap[a].socket]
           buff == hs_sendbuff_write(heap[a].send_buff, <<c>>)
           x == [heap[a] EXCEPT !.send_buff = buff]
<1>4. live \subseteq Agent /\ a \in Agent
  BY LiveAreAgents
<1>5. /\ heap[a] \in NetAgents(Fd \cup {0}) /\ c \in Client
      /\ RecvHolds(heap[a].recv_buff, RecvLength, c)
      /\ SendHolds(heap[a].send_buff, SendLength, c)
  BY <1>4, AgentHolds
<1>6. heap' = [heap EXCEPT ![a] = x]
  BY <1>1, <1>2, <1>3, <1>4 DEF hs_net_agent_write
<1>7. SendHolds(buff, SendLength, c)
  <2> DEFINE data == <<c>>
  <2>1. SendLength \in Nat /\ data \in Seq(Byte) /\ \A j \in 1 .. Len(data) : data[j] = c
    BY <1>5, NetAgentAssumption, AcceptorAssumption
  <2> HIDE DEF data
  <2>2. SendHolds(hs_sendbuff_write(heap[a].send_buff, data), SendLength, c)
    BY <1>5, <2>1, WrittenHolds
  <2> QED BY <2>2 DEF data
<1> HIDE DEF buff
<1>8. /\ x \in NetAgents(Fd \cup {0}) /\ x.socket = heap[a].socket
      /\ x.send_buff = buff /\ x.recv_buff = heap[a].recv_buff
  BY <1>5, <1>7 DEF NetAgents, SendHolds
<1> HIDE DEF x
<1>9. Tagged'
  BY <1>2, <1>4, <1>5, <1>6, <1>7, <1>8, BuffersKeepTagged
<1>10. Paired'
  BY <1>2, <1>4, <1>6, <1>8, BuffersKeepPaired
<1> QED BY <1>9, <1>10

LEMMA ClientKeepsTagged ==
  ASSUME Tagged, NEW c \in Client,
         \/ ClientConnects(c) \/ ClientSends(c) \/ ClientReads(c)
         \/ ClientCloses(c) \/ ClientResets(c)
  PROVE  Tagged'
<1>1. /\ UNCHANGED <<live, heap, sock>> /\ Carries(inq) /\ Carries(outq)
      /\ KernelRoom \in Nat
  BY AcceptorAssumption
    DEF ClientConnects, ClientSends, ClientReads, ClientCloses, ClientResets, memory, Tagged
<1>2. CASE UNCHANGED <<inq, outq>>
  <2>1. Carries(inq') /\ Carries(outq')
    BY <1>1, <1>2
  <2> QED BY <1>1, <2>1, TaggedUntouched
<1>3. CASE ClientSends(c)
  <2> DEFINE s == Append(inq[c], c)
  <2>1. /\ inq' = [inq EXCEPT ![c] = s] /\ outq' = outq /\ Len(inq[c]) < KernelRoom
    BY <1>1, <1>3 DEF ClientSends, Carries
  <2>2. inq[c] \in Seq(Byte) /\ c \in Byte /\ Len(inq[c]) \in Nat
        /\ \A j \in 1 .. Len(inq[c]) : inq[c][j] = c
    BY <1>1, AcceptorAssumption, LenProperties DEF Carries
  <2>3. s \in Seq(Byte) /\ Len(s) = Len(inq[c]) + 1 /\ \A j \in 1 .. Len(inq[c]) + 1 : s[j] = c
    BY <2>2, AppendOnly
  <2> HIDE DEF s
  <2>4. Len(s) <= KernelRoom
    BY <1>1, <2>1, <2>2, <2>3
  <2>5. Carries(inq')
    BY <1>1, <2>1, <2>3, <2>4, CarriesWith
  <2>6. Carries(outq')
    BY <1>1, <2>1
  <2> QED BY <1>1, <2>5, <2>6, TaggedUntouched
<1>4. CASE ClientReads(c)
  <2> DEFINE s == Tail(outq[c])
  <2>1. outq' = [outq EXCEPT ![c] = s] /\ inq' = inq /\ outq[c] # <<>>
    BY <1>1, <1>4 DEF ClientReads, Carries
  <2>2. outq[c] \in Seq(Byte) /\ Len(outq[c]) <= KernelRoom
        /\ \A j \in 1 .. Len(outq[c]) : outq[c][j] = c
    BY <1>1 DEF Carries
  <2>3. /\ s \in Seq(Byte) /\ Len(s) = Len(outq[c]) - 1 /\ Len(outq[c]) \in Nat \ {0}
        /\ \A j \in 1 .. Len(s) : s[j] = outq[c][j + 1]
    BY <2>1, <2>2, HeadTailProperties, EmptySeq
  <2> HIDE DEF s
  <2>4. \A j \in 1 .. Len(s) : j + 1 \in 1 .. Len(outq[c])
    BY <2>3
  <2>5. Len(s) <= KernelRoom /\ \A j \in 1 .. Len(s) : s[j] = c
    BY <1>1, <2>2, <2>3, <2>4
  <2>6. Carries(outq')
    BY <1>1, <2>1, <2>3, <2>5, CarriesWith
  <2>7. Carries(inq')
    BY <1>1, <2>1
  <2> QED BY <1>1, <2>6, <2>7, TaggedUntouched
<1>5. CASE ClientResets(c)
  <2>1. outq' = [outq EXCEPT ![c] = <<>>] /\ inq' = inq
    BY <1>5 DEF ClientResets
  <2>2. Carries(outq') /\ Carries(inq')
    BY <1>1, <2>1, CarriesNothing
  <2> QED BY <1>1, <2>2, TaggedUntouched
<1>6. ClientConnects(c) \/ ClientCloses(c) => UNCHANGED <<inq, outq>>
  BY DEF ClientConnects, ClientCloses
<1> QED BY <1>2, <1>3, <1>4, <1>5, <1>6

-----------------------------------------------------------------------------
(* The invariant is inductive.                                             *)

LEMMA InvInit == Init => Inv
BY OrderInit, PairedInit, TaggedInit DEF Inv

(* Steps that leave agents, clients and bytes alone.                       *)
LEMMA OnlyControl ==
  ASSUME Paired, Tagged, UNCHANGED <<memory, kernel, known>>
  PROVE  Paired' /\ Tagged'
<1>1. UNCHANGED <<live, heap, sock, queue, client, inq, outq, known>>
  BY DEF memory, kernel
<1>2. Paired'
  BY <1>1, PairedUntouched
<1>3. Carries(inq') /\ Carries(outq')
  BY <1>1 DEF Tagged
<1> QED BY <1>1, <1>2, <1>3, TaggedUntouched

LEMMA DestroyKeepsInv ==
  ASSUME Inv, i < Len(agents.elems), _agent_destroy(agent), i' = i,
         \/ pc = "loop" /\ ServeAgent
         \/ pc \in {"handler", "send", "closing"} /\ turns' = turns
  PROVE  Inv'
<1>1. InOrder /\ Paired /\ Tagged /\ pc # "disconn"
  BY DEF Inv
<1>2. agent \in live /\ live \subseteq Agent /\ heap \in [Agent -> NetAgents(Fd \cup {0})]
  BY <1>1, ServedIsLive, LiveAreAgents DEF Tagged
<1>3. heap[agent].socket \in Fd \cup {0}
  BY <1>1, <1>2 DEF Paired
<1>4. InOrder'
  BY <1>1, <1>3, DestroyKeepsOrder
<1>5. Paired'
  BY <1>1, <1>2, DestroyKeepsPaired
<1>6. Tagged'
  BY <1>1, <1>2, DestroyKeepsTagged
<1> QED BY <1>4, <1>5, <1>6 DEF Inv

LEMMA ListenKeepsInv ==
  ASSUME Inv, Listen
  PROVE  Inv'
<1>1. /\ InOrder /\ Paired /\ Tagged /\ live \subseteq Agent
      /\ heap \in [Agent -> NetAgents(Fd \cup {0})]
  BY LiveAreAgents DEF Inv, Tagged
<1>2. CASE ListenNothing \/ AcceptFails \/ ConnReturns
  <2>1. /\ pc \in {"app", "conn"} /\ StartLoop
        /\ UNCHANGED <<acceptor, memory, kernel, known, turns>>
    BY <1>2 DEF ListenNothing, AcceptFails, ConnReturns
  <2>2. InOrder'
    BY <1>1, <2>1, StartLoopKeepsOrder DEF acceptor, memory
  <2> QED BY <1>1, <2>1, <2>2, OnlyControl DEF Inv
<1>3. CASE TurnAway
  <2>1. InOrder'
    BY <1>1, <1>3, StartLoopKeepsOrder DEF TurnAway, acceptor, memory
  <2> QED BY <1>1, <1>3, <2>1, TurnAwayKeepsPaired, TurnAwayKeepsTagged DEF Inv
<1>4. CASE Accept
  BY <1>1, <1>4, AcceptKeepsOrder, AcceptKeepsPaired, AcceptKeepsTagged DEF Inv
<1> QED BY <1>2, <1>3, <1>4 DEF Listen

LEMMA ServeAgentsKeepsInv ==
  ASSUME Inv, ServeAgents
  PROVE  Inv'
<1>1. InOrder /\ Paired /\ Tagged
  BY DEF Inv
<1>2. CASE AgentIdle \/ AgentReadsNothing
  <2>1. InOrder'
    <3>1. CASE AgentIdle
      <4>1. pc = "loop" /\ pc' = pc /\ UNCHANGED <<listening, agents, live>>
        BY <3>1 DEF AgentIdle, AtAgent, acceptor, memory
      <4> QED BY <1>1, <3>1, <4>1, ServeKeepsOrder DEF AgentIdle
    <3>2. CASE AgentReadsNothing
      BY <1>1, <3>2, ServeKeepsOrder DEF AgentReadsNothing, acceptor, memory
    <3> QED BY <1>2, <3>1, <3>2
  <2>2. UNCHANGED <<memory, kernel, known>>
    BY <1>2 DEF AgentIdle, AgentReadsNothing
  <2> QED BY <1>1, <2>1, <2>2, OnlyControl DEF Inv
<1>3. CASE AgentReceives
  <2>1. InOrder'
    BY <1>1, <1>3, ServeKeepsOrder DEF AgentReceives, acceptor
  <2> QED BY <1>1, <1>3, <2>1, AgentReceivesKeeps DEF Inv
<1>4. CASE AgentReceivesEnd
  BY <1>4, DestroyKeepsInv DEF AgentReceivesEnd, AtAgent, hs_array_elem_num
<1>5. CASE HandlerReturns
  <2>1. InOrder'
    BY <1>1, <1>5, StepKeepsOrder DEF HandlerReturns, acceptor
  <2> QED BY <1>1, <1>5, <2>1, HandlerReturnsKeeps DEF Inv
<1>6. CASE AgentSends
  <2>1. InOrder'
    BY <1>1, <1>6, StepKeepsOrder DEF AgentSends, acceptor
  <2> QED BY <1>1, <1>6, <2>1, AgentSendsKeeps DEF Inv
<1>7. CASE AgentSendFails
  <2>1. i < Len(agents.elems) /\ pc = "send" /\ i' = i /\ turns' = turns
        /\ _agent_destroy(agent)
    BY <1>1, <1>7, LenProperties DEF AgentSendFails, InOrder, Served, Serving
  <2> QED BY <2>1, DestroyKeepsInv
<1>8. CASE DisconnReturns
  <2>1. UNCHANGED <<memory, kernel, known>>
    BY <1>8 DEF DisconnReturns
  <2> QED BY <1>1, <1>8, <2>1, DisconnReturnsKeepsOrder, OnlyControl DEF Inv
<1>9. CASE RunEnds
  <2>1. UNCHANGED <<memory, kernel, known>>
    BY <1>9 DEF RunEnds
  <2> QED BY <1>1, <1>9, <2>1, RunEndsKeepsOrder, OnlyControl DEF Inv
<1> QED BY <1>2, <1>3, <1>4, <1>5, <1>6, <1>7, <1>8, <1>9 DEF ServeAgents

LEMMA CloseKeepsInv ==
  ASSUME Inv, Uninit \/ Close
  PROVE  Inv'
<1>1. InOrder /\ Paired /\ Tagged
  BY DEF Inv
<1>2. CASE Uninit
  BY <1>1, <1>2, UninitKeepsOrder, UninitKeepsPaired, UninitKeepsTagged DEF Inv
<1>3. CASE UninitAgent
  <2>1. /\ i < Len(agents.elems) /\ pc = "closing" /\ i' = i /\ turns' = turns
        /\ _agent_destroy(agent)
    BY <1>3 DEF UninitAgent, hs_array_elem_num
  <2> QED BY <2>1, DestroyKeepsInv
<1>4. CASE UninitDisconnReturns \/ UninitEnds
  <2>1. UNCHANGED <<memory, kernel, known>>
    BY <1>4 DEF UninitDisconnReturns, UninitEnds
  <2> QED BY <1>1, <1>4, <2>1, UninitKeepsOrder, OnlyControl DEF Inv
<1> QED BY <1>2, <1>3, <1>4 DEF Close

LEMMA ClientKeepsInv ==
  ASSUME Inv, NEW c \in Client,
         \/ ClientConnects(c) \/ ClientSends(c) \/ ClientReads(c)
         \/ ClientCloses(c) \/ ClientResets(c)
  PROVE  Inv'
<1>1. InOrder /\ Paired /\ Tagged
  BY DEF Inv
<1>2. InOrder'
  <2>1. UNCHANGED <<listening, agents, live, pc, i, turns>>
    BY DEF ClientConnects, ClientSends, ClientReads, ClientCloses, ClientResets,
           acceptor, memory, control
  <2> QED BY <1>1, <2>1, OrderUntouched
<1>3. Paired'
  <2>1. CASE ClientConnects(c)
    BY <1>1, <2>1, ConnectsKeepsPaired
  <2>2. CASE ClientSends(c) \/ ClientReads(c)
    <3>1. UNCHANGED <<live, heap, sock, queue, client, known>>
      BY <2>2 DEF ClientSends, ClientReads, memory
    <3> QED BY <1>1, <3>1, PairedUntouched
  <2>3. CASE ClientCloses(c)
    <3>1. /\ client[c] # "away" /\ client' = [client EXCEPT ![c] = "fin"]
          /\ UNCHANGED <<live, heap, sock, queue, known>>
      BY <2>3 DEF ClientCloses, memory
    <3> QED BY <1>1, <3>1, EndsKeepPaired
  <2>4. CASE ClientResets(c)
    <3>1. /\ client[c] # "away" /\ client' = [client EXCEPT ![c] = "rst"]
          /\ UNCHANGED <<live, heap, sock, queue, known>>
      BY <2>4 DEF ClientResets, memory
    <3> QED BY <1>1, <3>1, EndsKeepPaired
  <2> QED BY <2>1, <2>2, <2>3, <2>4
<1>4. Tagged'
  BY <1>1, ClientKeepsTagged
<1> QED BY <1>2, <1>3, <1>4 DEF Inv

LEMMA InvNext == Inv /\ [Next]_vars => Inv'
<1> SUFFICES ASSUME Inv, [Next]_vars PROVE Inv'
  OBVIOUS
<1>1. InOrder /\ Paired /\ Tagged
  BY DEF Inv
<1>2. CASE Listen
  BY <1>2, ListenKeepsInv
<1>3. CASE ServeAgents
  BY <1>3, ServeAgentsKeepsInv
<1>4. CASE AgentSelectFails
  BY <1>4, DestroyKeepsInv DEF AgentSelectFails, AtAgent, hs_array_elem_num
<1>5. CASE HandlerFails
  <2>1. i < Len(agents.elems) /\ pc = "handler" /\ i' = i /\ turns' = turns
        /\ _agent_destroy(agent)
    BY <1>1, <1>5, LenProperties DEF HandlerFails, InOrder, Served, Serving
  <2> QED BY <2>1, DestroyKeepsInv
<1>6. CASE Uninit \/ Close
  BY <1>6, CloseKeepsInv
<1>7. CASE AppWrites
  <2>1. UNCHANGED <<listening, agents, live, pc, i, turns>>
    BY <1>7 DEF AppWrites, acceptor, control
  <2>2. InOrder'
    BY <1>1, <2>1, OrderUntouched
  <2> QED BY <1>1, <1>7, <2>2, AppWritesKeeps DEF Inv
<1>8. ASSUME NEW c \in Client,
             \/ ClientConnects(c) \/ ClientSends(c) \/ ClientReads(c)
             \/ ClientCloses(c) \/ ClientResets(c)
      PROVE  Inv'
  BY <1>8, ClientKeepsInv
<1>9. CASE UNCHANGED vars
  <2>1. /\ UNCHANGED <<memory, kernel, known>>
        /\ UNCHANGED <<listening, agents, live, pc, i, turns>>
    BY <1>9 DEF vars, acceptor, memory, control
  <2>2. InOrder'
    BY <1>1, <2>1, OrderUntouched
  <2>3. Paired' /\ Tagged'
    BY <1>1, <2>1, OnlyControl
  <2> QED BY <2>2, <2>3 DEF Inv
<1>10. CASE ListenSelectFails \/ Gone
  BY <1>9, <1>10 DEF ListenSelectFails, Gone
<1> QED BY <1>2, <1>3, <1>4, <1>5, <1>6, <1>7, <1>8, <1>9, <1>10 DEF Next

THEOREM Invariance == Spec => []Inv
<1>1. Inv /\ [Next]_vars => Inv'
  BY InvNext
<1> QED BY <1>1, InvInit, PTL DEF Spec

-----------------------------------------------------------------------------
(* The acceptor's state keeps its type: offsets stay inside the buffers,   *)
(* the array never grows, no connection has more on its way than there is  *)
(* room for.                                                               *)
THEOREM TypeCorrect == Spec => []TypeOK
<1>1. Inv => TypeOK
  <2> SUFFICES ASSUME Inv PROVE TypeOK
    OBVIOUS
  <2>1. InOrder /\ Paired /\ Tagged /\ live \subseteq Agent
    BY LiveAreAgents DEF Inv
  <2>2. /\ agents.elems \in Seq(Agent) /\ hs_array_elem_num(agents) <= agent_max_num
        /\ agents.capacity = agent_max_num /\ listening \in BOOLEAN
        /\ pc \in {"app", "conn", "loop", "handler", "send", "disconn", "closing", "gone"}
        /\ turns \in [Agent -> 0 .. 2]
    BY <2>1 DEF InOrder, hs_array_elem_num
  <2>3. i \in 0 .. agent_max_num
    <3>1. /\ i \in Nat /\ Served <= Len(agents.elems) /\ Len(agents.elems) <= agent_max_num
          /\ Len(agents.elems) \in Nat /\ agent_max_num \in Nat
      BY <2>1, LenProperties, AcceptorAssumption DEF InOrder
    <3>2. i <= Served /\ Served \in Nat
      BY <3>1 DEF Served, Serving
    <3> QED BY <3>1, <3>2
  <2>4. \A c \in Client : /\ inq[c] \in Seq(Byte) /\ Len(inq[c]) <= KernelRoom
                          /\ outq[c] \in Seq(Byte) /\ Len(outq[c]) <= KernelRoom
    BY <2>1 DEF Tagged, Carries
  <2>5. known \subseteq KnownAgents
    <3>1. \A a \in live : /\ a \in Agent /\ heap[a].socket \in Fd
                          /\ sock[heap[a].socket] \in Client
      BY <2>1 DEF Paired
    <3> QED BY <2>1, <3>1 DEF Paired, KnownAgents
  <2> QED BY <2>1, <2>2, <2>3, <2>4, <2>5 DEF TypeOK, Paired, Tagged
<1> QED BY <1>1, Invariance, PTL

(* Whatever the application knows of, it may write to: the agent is        *)
(* allocated and has the socket it was announced with.                     *)
THEOREM TheKnownLive == Spec => []KnownAreLive
<1>1. Inv => KnownAreLive
  BY DEF Inv, Paired, KnownAreLive
<1> QED BY <1>1, Invariance, PTL

(* No byte of one client reaches another, or is taken for one of another,  *)
(* although descriptors and agents are used again at once.                 *)
THEOREM NoByteGoesAstray == Spec => []NoCrossTalk
<1>1. Inv => NoCrossTalk
  <2> SUFFICES ASSUME Inv PROVE NoCrossTalk
    OBVIOUS
  <2>1. InOrder /\ Paired /\ Tagged /\ live \subseteq Agent
    BY LiveAreAgents DEF Inv
  <2>2. ASSUME NEW a \in live
        PROVE  Range(Offered(heap[a].recv_buff)) \cup Range(Unsent(heap[a].send_buff))
                 \subseteq {sock[heap[a].socket]}
    <3> DEFINE c == sock[heap[a].socket]
    <3>1. /\ RecvHolds(heap[a].recv_buff, RecvLength, c)
          /\ SendHolds(heap[a].send_buff, SendLength, c)
          /\ RecvLength \in Nat /\ SendLength \in Nat
      BY <2>1, AgentHolds, NetAgentAssumption
    <3> HIDE DEF c
    <3>2. \A j \in DOMAIN Offered(heap[a].recv_buff) : Offered(heap[a].recv_buff)[j] = c
      BY <3>1, OfferedHolds
    <3>3. \A j \in DOMAIN Unsent(heap[a].send_buff) : Unsent(heap[a].send_buff)[j] = c
      BY <3>1, UnsentHolds
    <3>4. Range(Offered(heap[a].recv_buff)) \cup Range(Unsent(heap[a].send_buff)) \subseteq {c}
      BY <3>2, <3>3 DEF Range
    <3> QED BY <3>4 DEF c
  <2>3. ASSUME NEW c \in Client
        PROVE  Range(inq[c]) \cup Range(outq[c]) \subseteq {c}
    <3>1. /\ DOMAIN inq[c] = 1 .. Len(inq[c]) /\ \A j \in 1 .. Len(inq[c]) : inq[c][j] = c
          /\ DOMAIN outq[c] = 1 .. Len(outq[c]) /\ \A j \in 1 .. Len(outq[c]) : outq[c][j] = c
      BY <2>1, LenProperties DEF Tagged, Carries
    <3> QED BY <3>1 DEF Range
  <2> QED BY <2>2, <2>3 DEF NoCrossTalk
<1> QED BY <1>1, Invariance, PTL

(* Every agent of the array is served once in a run, none is served twice, *)
(* although the loop deletes under its own index.                          *)
THEOREM EachIsServedOnce == Spec => []EachHasItsTurn
<1>1. Inv => EachHasItsTurn
  <2> SUFFICES ASSUME Inv, pc = "loop" /\ i >= hs_array_elem_num(agents), NEW a \in Agent
               PROVE  turns[a] <= 1 /\ (a \in Elems => turns[a] = 1)
    BY DEF EachHasItsTurn
  <2>1. InOrder /\ listening /\ Served = i
    BY DEF Inv, InOrder, Served, Serving
  <2>2. turns[a] \in {0, 1}
    BY <2>1 DEF InOrder
  <2>3. /\ Len(agents.elems) \in Nat /\ i >= Len(agents.elems) /\ i \in Nat
        /\ DOMAIN agents.elems = 1 .. Len(agents.elems)
    BY <2>1, LenProperties DEF InOrder, hs_array_elem_num
  <2>4. \A k \in 1 .. Len(agents.elems) : turns[agents.elems[k]] = 1
    BY <2>1, <2>3 DEF InOrder
  <2> QED BY <2>2, <2>3, <2>4 DEF Elems, Range
<1> QED BY <1>1, Invariance, PTL

(* uninit closes every descriptor, frees every agent and tells of each.    *)
THEOREM EverythingIsReturned == Spec => []NothingIsLeft
<1>1. Inv => NothingIsLeft
  <2> SUFFICES ASSUME Inv, pc = "gone" PROVE FreeFds = Fd /\ live = {} /\ known = {}
    BY DEF NothingIsLeft
  <2>1. InOrder /\ Paired /\ ~listening /\ i = Len(agents.elems) /\ i \in Nat
    BY DEF Inv, InOrder
  <2>2. LivePlaces = {}
    BY <2>1 DEF LivePlaces
  <2>3. live = {}
    BY <2>1, <2>2 DEF InOrder
  <2> QED BY <2>1, <2>3 DEF Paired, FreeFds
<1> QED BY <1>1, Invariance, PTL

(* Between two runs array, heap and open descriptors agree one to one.     *)
THEOREM AgentsMatchConnections == Spec => []AgentsAreConnections
<1>1. Inv => AgentsAreConnections
  <2> SUFFICES ASSUME Inv, pc = "app"
               PROVE  /\ IsInjective(agents.elems) /\ Elems = live
                      /\ {heap[a].socket : a \in live} = Fd \ FreeFds
                      /\ Cardinality(live) = Cardinality(Fd \ FreeFds)
    BY DEF AgentsAreConnections
  <2>1. InOrder /\ Paired /\ listening
    BY DEF Inv, InOrder
  <2>2. DOMAIN agents.elems = 1 .. Len(agents.elems)
    BY <2>1, LenProperties DEF InOrder
  <2>3. IsInjective(agents.elems)
    BY <2>1, <2>2 DEF InOrder, IsInjective
  <2>4. Elems = live
    <3>1. LivePlaces = 1 .. Len(agents.elems)
      BY <2>1 DEF LivePlaces
    <3> QED BY <2>1, <2>2, <3>1 DEF InOrder, Elems, Range
  <2>5. /\ \A a \in live : heap[a].socket \in Fd \ FreeFds
        /\ \A f \in Fd \ FreeFds : \E a \in live : heap[a].socket = f
        /\ \A a, b \in live : heap[a].socket = heap[b].socket => a = b
    BY <2>1 DEF Paired, FreeFds
  <2> DEFINE T == Fd \ FreeFds
             f == [a \in live |-> heap[a].socket]
  <2>6. {heap[a].socket : a \in live} = T
    BY <2>5
  <2>7. f \in [live -> T] /\ IsInjective(f) /\ \A t \in T : \E a \in live : f[a] = t
    BY <2>5 DEF IsInjective
  <2>8. IsFiniteSet(T)
    <3>1. IsFiniteSet(Fd)
      BY AcceptorAssumption, FS_Interval DEF Fd
    <3> QED BY <3>1, FS_Subset
  <2> HIDE DEF f, T
  <2>9. f \in Injection(live, T) /\ f \in Surjection(live, T)
    BY <2>7 DEF Injection, Surjection
  <2>10. Cardinality(live) = Cardinality(T)
    BY <2>8, <2>9, FS_Injection
  <2> QED BY <2>3, <2>4, <2>6, <2>10 DEF T
<1> QED BY <1>1, Invariance, PTL
=============================================================================
