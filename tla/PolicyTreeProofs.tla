--------------------------- MODULE PolicyTreeProofs ---------------------------
(***************************************************************************)
(* Theorems about a client's copy of a tree, for any number of blocks,     *)
(* messages, callbacks and players.                                        *)
(***************************************************************************)
EXTENDS PolicyTree, SequenceTheorems, TLAPS

USE DEF serverVars, treeVars, callbackVars, playerVars, vars

-----------------------------------------------------------------------------
(***************************************************************************)
(* The steps, and the types.                                               *)
(***************************************************************************)
LEMMA TreeSteps ==
    ASSUME [Next]_vars, NEW P,
           Update => P, Land => P,
           \A c \in Callbacks : Deliver(c) => P,
           \A c \in Callbacks : Resolve(c) => P,
           \A c \in Callbacks : Compare(c) => P,
           \A c \in Callbacks : FetchRoot(c) => P,
           \A c \in Callbacks : FetchEnd(c) => P,
           \A p \in Players : Play(p) => P,
           \A p \in Players : SetTip(p) => P,
           \A p \in Players : Collect(p) => P,
           \A p \in Players : CollectData(p) => P,
           \A p \in Players : Sign(p) => P,
           \A p \in Players : ResolveChain(p) => P,
           \A p \in Players : GetMany(p) => P,
           \A p \in Players : Send(p) => P,
           \A p \in Players : Serve(p) => P,
           \A p \in Players : UpdateTree(p) => P,
           UNCHANGED vars => P
    PROVE  P
BY DEF Next, Playing

LEMMA HeightsType == Heights \subseteq Nat /\ 0 \in Heights /\ 1 \in Heights
BY BoundsAssumption DEF Heights

LEMMA NodesType ==
    ASSUME NEW n \in Heights PROVE RootOf(n) \subseteq Nodes /\ EndOf(n) \subseteq Nodes
BY DEF RootOf, EndOf, Nodes

\* What is left of a queue when the message at i is taken out.
LEMMA RemoveAtProperties ==
    ASSUME NEW S, NEW s \in Seq(S), NEW i \in DOMAIN s
    PROVE  /\ RemoveAt(s, i) \in Seq(S)
           /\ \A j \in DOMAIN s : j = i \/ \E k \in DOMAIN RemoveAt(s, i) : RemoveAt(s, i)[k] = s[j]
           /\ \A k \in DOMAIN RemoveAt(s, i) : \E j \in DOMAIN s : RemoveAt(s, i)[k] = s[j]
<1> DEFINE front == SubSeq(s, 1, i - 1)
           back  == SubSeq(s, i + 1, Len(s))
<1>1. Len(s) \in Nat /\ DOMAIN s = 1 .. Len(s) /\ i \in Int /\ 1 <= i /\ i <= Len(s)
  OBVIOUS
<1>2. /\ front \in Seq(S) /\ Len(front) = i - 1
      /\ \A j \in 1 .. i - 1 : front[j] = s[j]
  <2>1. \A j \in 1 .. i - 1 : s[j] \in S  BY <1>1
  <2> QED  BY <1>1, <2>1, SubSeqProperties
<1>3. /\ back \in Seq(S) /\ Len(back) = Len(s) - i
      /\ \A j \in 1 .. Len(s) - i : back[j] = s[i + j]
  <2>1. \A j \in i + 1 .. Len(s) : s[j] \in S  BY <1>1
  <2>2. \A j \in 1 .. Len(s) - i : (i + 1) + j - 1 = i + j  BY <1>1
  <2>3. CASE i = Len(s)
    BY <1>1, <2>3
  <2>4. CASE i < Len(s)
    <3>1. i + 1 \in Int /\ Len(s) \in Int /\ i + 1 <= Len(s) + 1 /\ Len(s) - (i + 1) + 1 = Len(s) - i  BY <1>1, <2>4
    <3> QED  BY <1>1, <2>1, <2>2, <2>4, <3>1, SubSeqProperties
  <2> QED  BY <1>1, <2>3, <2>4
<1>4. RemoveAt(s, i) = front \o back
  BY DEF RemoveAt
<1> HIDE DEF front, back
<1>5. /\ RemoveAt(s, i) \in Seq(S) /\ Len(RemoveAt(s, i)) = Len(s) - 1
      /\ \A k \in 1 .. Len(s) - 1 :
            RemoveAt(s, i)[k] = IF k <= i - 1 THEN front[k] ELSE back[k - (i - 1)]
  <2>1. Len(front) + Len(back) = Len(s) - 1  BY <1>1, <1>2, <1>3
  <2>2. /\ front \o back \in Seq(S) /\ Len(front \o back) = Len(front) + Len(back)
        /\ \A k \in 1 .. Len(front) + Len(back) :
              (front \o back)[k] = IF k <= Len(front) THEN front[k] ELSE back[k - Len(front)]
    <3>1. front \in Seq(S) /\ back \in Seq(S)  BY <1>2, <1>3
    <3> QED  BY <3>1, ConcatProperties
  <2>3. Len(front) = i - 1  BY <1>2
  <2> QED  BY <1>4, <2>1, <2>2, <2>3
<1>6. \A k \in 1 .. i - 1 : RemoveAt(s, i)[k] = s[k]
  BY <1>1, <1>2, <1>5
<1>7. \A k \in i .. Len(s) - 1 : RemoveAt(s, i)[k] = s[k + 1]
  <2> TAKE k \in i .. Len(s) - 1
  <2>1. /\ k - (i - 1) \in 1 .. Len(s) - i /\ i + (k - (i - 1)) = k + 1
        /\ k \in 1 .. Len(s) - 1 /\ ~(k <= i - 1)
    BY <1>1
  <2> QED  BY <1>3, <1>5, <2>1
<1>8. DOMAIN RemoveAt(s, i) = 1 .. Len(s) - 1
  BY <1>5
<1>9. ASSUME NEW j \in DOMAIN s, j # i
      PROVE  \E k \in DOMAIN RemoveAt(s, i) : RemoveAt(s, i)[k] = s[j]
  <2>1. CASE j < i
    <3>1. j \in 1 .. i - 1 /\ j \in 1 .. Len(s) - 1  BY <1>1, <2>1
    <3> QED  BY <1>6, <1>8, <3>1
  <2>2. CASE j > i
    <3>1. j - 1 \in i .. Len(s) - 1 /\ j - 1 \in 1 .. Len(s) - 1 /\ (j - 1) + 1 = j  BY <1>1, <2>2
    <3> QED  BY <1>7, <1>8, <3>1
  <2> QED  BY <1>1, <1>9, <2>1, <2>2
<1>10. ASSUME NEW k \in DOMAIN RemoveAt(s, i)
       PROVE  \E j \in DOMAIN s : RemoveAt(s, i)[k] = s[j]
  <2>1. CASE k < i
    <3>1. k \in 1 .. i - 1 /\ k \in DOMAIN s  BY <1>1, <1>8, <2>1
    <3> QED  BY <1>6, <3>1
  <2>2. CASE k >= i
    <3>1. k \in i .. Len(s) - 1 /\ k + 1 \in DOMAIN s  BY <1>1, <1>8, <2>2
    <3> QED  BY <1>7, <3>1
  <2> QED  BY <1>1, <1>8, <2>1, <2>2
<1> QED  BY <1>5, <1>9, <1>10

LEMMA TypeInit == Init => TypeOK
<1> SUFFICES ASSUME Init PROVE TypeOK  OBVIOUS
<1>1. head \in Heights /\ tip \in Heights /\ local \subseteq Nodes
  BY HeightsType, NodesType DEF Init
<1>2. queue \in Seq(Heights) /\ redelivered \in 0 .. Redeliver
  BY BoundsAssumption DEF Init
<1>3. NoRequest \in Requests  BY HeightsType DEF NoRequest, Requests
<1> QED  BY <1>1, <1>2, <1>3, HeightsType DEF Init, TypeOK, CallbackLabels, PlayerLabels

LEMMA TypeStep == TypeOK /\ [Next]_vars => TypeOK'
<1> SUFFICES ASSUME TypeOK, [Next]_vars PROVE TypeOK'  OBVIOUS
<1> USE DEF TypeOK
<1>0. /\ 0 \in Heights /\ {"idle", "resolve", "compare", "fetchRoot", "fetchEnd"} \subseteq CallbackLabels
      /\ NoRequest \in Requests
  BY HeightsType DEF CallbackLabels, NoRequest, Requests
<1>1. ASSUME Grow PROVE head' \in Heights /\ head' = head + 1 /\ queue' \in Seq(Heights)
  <2>1. head + 1 \in Heights  BY <1>1, BoundsAssumption DEF Grow, Heights
  <2> QED  BY <1>1, <2>1, AppendProperties DEF Grow, Announced
<1>2. Update => TypeOK'
  BY <1>1 DEF Update
<1>3. Land => TypeOK'
  BY DEF Land
<1>4. ASSUME NEW c \in Callbacks, Deliver(c) PROVE TypeOK'
  <2>1. PICK i \in DOMAIN queue :
            /\ msg' = [msg EXCEPT ![c] = queue[i]]
            /\ \/ queue' = RemoveAt(queue, i) /\ UNCHANGED redelivered
               \/ redelivered < Redeliver /\ redelivered' = redelivered + 1 /\ UNCHANGED queue
    <3>1. 1 \in DOMAIN queue  BY <1>4 DEF Deliver
    <3> QED  BY <1>4, <3>1 DEF Deliver
  <2>2. queue[i] \in Heights  OBVIOUS
  <2>3. queue' \in Seq(Heights)  BY <2>1, RemoveAtProperties
  <2>4. redelivered' \in 0 .. Redeliver  BY <2>1, BoundsAssumption
  <2>5. msg' \in [Callbacks -> Heights]  BY <2>1, <2>2
  <2> QED  BY <1>0, <1>4, <2>3, <2>4, <2>5 DEF Deliver
<1>5. ASSUME NEW c \in Callbacks, Finish(c)
      PROVE  {at', curr', msg'} \subseteq [Callbacks -> Heights] /\ cpc' \in [Callbacks -> CallbackLabels]
  BY <1>0, <1>5 DEF Finish
<1>6. ASSUME NEW c \in Callbacks, Resolve(c) PROVE TypeOK'
  <2>1. CASE Fail(c)
    BY <1>5, <2>1 DEF Fail
  <2>2. CASE ~Fail(c)
    <3>1. EndOf(head) \subseteq Nodes  BY NodesType
    <3> QED  BY <1>0, <1>6, <2>2, <3>1 DEF Resolve
  <2> QED  BY <2>1, <2>2
<1>7. ASSUME NEW c \in Callbacks, Compare(c) PROVE TypeOK'
  <2>1. tip' \in Heights
    BY <1>7 DEF Compare
  <2> QED  BY <1>0, <1>5, <1>7, <2>1 DEF Compare
<1>8. ASSUME NEW c \in Callbacks, FetchRoot(c) PROVE TypeOK'
  <2>1. RootOf(head) \subseteq Nodes  BY NodesType
  <2> QED  BY <1>0, <1>5, <1>8, <2>1 DEF FetchRoot, Fail
<1>9. ASSUME NEW c \in Callbacks, FetchEnd(c) PROVE TypeOK'
  <2>1. EndOf(head) \subseteq Nodes  BY NodesType
  <2> QED  BY <1>5, <1>9, <2>1 DEF FetchEnd, SecondFetch, Fail
<1>10. ASSUME NEW p \in Players, NEW label \in PlayerLabels
       PROVE  [ppc EXCEPT ![p] = label] \in [Players -> PlayerLabels]
  OBVIOUS
<1>11. ASSUME NEW p \in Players, Throw(p)
       PROVE  /\ ppc' \in [Players -> PlayerLabels] /\ abr' \in [Players -> Requests]
              /\ state' \in [Players -> SUBSET Nodes] /\ newTip' \in [Players -> Heights]
              /\ UNCHANGED <<treeVars, callbackVars>>
  BY <1>0, <1>11 DEF Throw, PlayerLabels
<1>12. ASSUME NEW p \in Players, NEW n \in Heights,
              NEW field \in {"height", "previousTip", "signedTip", "previousBlock"}
       PROVE  [abr EXCEPT ![p][field] = n] \in [Players -> Requests]
  <2>1. [abr[p] EXCEPT ![field] = n] \in Requests
    <3>1. abr[p] \in Requests  OBVIOUS
    <3>2. CASE field = "height"         BY <3>1, <3>2 DEF Requests
    <3>3. CASE field = "previousTip"    BY <3>1, <3>3 DEF Requests
    <3>4. CASE field = "signedTip"      BY <3>1, <3>4 DEF Requests
    <3>5. CASE field = "previousBlock"  BY <3>1, <3>5 DEF Requests
    <3> QED  BY <3>2, <3>3, <3>4, <3>5
  <2> QED  BY <2>1
<1>13. ASSUME NEW p \in Players, NEW field \in {"height", "previousBlock"}, NEW next \in PlayerLabels,
              Resolved(p, field, next)
       PROVE  TypeOK'
  <2>1. Touched(tip) \in Heights /\ EndOf(head) \subseteq Nodes  BY NodesType DEF Touched
  <2>2. CASE Faults /\ ~HasEnd(tip) /\ Throw(p) /\ UNCHANGED serverVars
    BY <1>11, <2>2
  <2>3. CASE ~(Faults /\ ~HasEnd(tip) /\ Throw(p) /\ UNCHANGED serverVars)
    <3>0. abr' = [abr EXCEPT ![p][field] = Touched(tip)]
      BY <1>13, <2>3 DEF Resolved
    <3>1. abr' \in [Players -> Requests]
      <4>1. field \in {"height", "previousTip", "signedTip", "previousBlock"}  OBVIOUS
      <4> QED  BY <1>12, <2>1, <3>0, <4>1
    <3> QED  BY <1>10, <1>13, <2>1, <2>3, <3>1 DEF Resolved, Continue
  <2> QED  BY <2>2, <2>3
<1>14. ASSUME NEW p \in Players, NEW field \in {"previousTip", "signedTip"}, NEW next \in PlayerLabels,
              Took(p, field, next)
       PROVE  TypeOK'
  <2>1. abr' \in [Players -> Requests]
    BY <1>12, <1>14 DEF Took
  <2> QED  BY <1>10, <1>14, <2>1 DEF Took, Continue
<1>15. ASSUME NEW p \in Players, NEW from \in Heights, NEW next \in PlayerLabels,
              Collects(p, from, next)
       PROVE  TypeOK'
  <2>1. Collected(Touched(from)) \subseteq Nodes /\ EndOf(head) \subseteq Nodes
    BY NodesType DEF Touched, Collected
  <2>2. CASE Faults /\ ~HasEnd(from) /\ Throw(p) /\ UNCHANGED serverVars
    BY <1>11, <2>2
  <2>3. CASE ~(Faults /\ ~HasEnd(from) /\ Throw(p) /\ UNCHANGED serverVars)
    <3>1. state' \in [Players -> SUBSET Nodes]
      BY <1>15, <2>1, <2>3 DEF Collects
    <3> QED  BY <1>10, <1>15, <2>1, <2>3, <3>1 DEF Collects, Continue
  <2> QED  BY <2>2, <2>3
<1>16. \A p \in Players : Play(p) => TypeOK'
  BY <1>13 DEF Play, PlayerLabels
<1>17. \A p \in Players : SetTip(p) => TypeOK'
  BY <1>14 DEF SetTip, PlayerLabels
<1>18. \A p \in Players : Collect(p) => TypeOK'
  BY <1>15 DEF Collect, PlayerLabels, Requests
<1>19. \A p \in Players : CollectData(p) => TypeOK'
  BY <1>15 DEF CollectData, PlayerLabels
<1>20. \A p \in Players : Sign(p) => TypeOK'
  BY <1>14 DEF Sign, PlayerLabels
<1>21. \A p \in Players : ResolveChain(p) => TypeOK'
  BY <1>13 DEF ResolveChain, PlayerLabels
<1>22. ASSUME NEW p \in Players, GetMany(p) PROVE TypeOK'
  BY <1>11, <1>22 DEF GetMany, Continue, PlayerLabels
<1>23. ASSUME NEW p \in Players, Send(p) PROVE TypeOK'
  BY <1>11, <1>23 DEF Send, Continue, PlayerLabels
<1>24. ASSUME NEW p \in Players, NEW n \in Heights, Replied(p, n)
       PROVE  /\ ppc' \in [Players -> PlayerLabels] /\ abr' \in [Players -> Requests]
              /\ state' \in [Players -> SUBSET Nodes] /\ newTip' \in [Players -> Heights]
              /\ UNCHANGED <<treeVars, callbackVars>>
  BY <1>0, <1>24 DEF Replied, PlayerLabels
<1>25. ASSUME NEW p \in Players, Serve(p) PROVE TypeOK'
  <2>1. CASE Accept(p)
    <3>1. head + 1 \in Heights  BY <1>1, <2>1 DEF Accept
    <3> QED  BY <1>1, <1>24, <1>25, <2>1, <3>1 DEF Accept, Serve
  <2>2. CASE Throw(p) /\ UNCHANGED <<head, queue>>
    BY <1>11, <1>25, <2>2 DEF Serve
  <2>3. CASE Replied(p, 0) /\ UNCHANGED <<head, queue>>
    BY <1>0, <1>24, <1>25, <2>3 DEF Serve
  <2> QED  BY <1>25, <2>1, <2>2, <2>3 DEF Serve
<1>26. ASSUME NEW p \in Players, UpdateTree(p) PROVE TypeOK'
  <2>1. EndOf(newTip[p]) \subseteq Nodes  BY NodesType
  <2> QED  BY <1>0, <1>11, <1>26, <2>1 DEF UpdateTree, PlayerLabels
<1>27. UNCHANGED vars => TypeOK'
  OBVIOUS
<1> QED
  BY <1>2, <1>3, <1>4, <1>6, <1>7, <1>8, <1>9, <1>16, <1>17, <1>18, <1>19, <1>20, <1>21,
     <1>22, <1>23, <1>25, <1>26, <1>27, TreeSteps

\* Every variable of the client keeps its type; no tip, message or field of a request
\* is ever above the bound on the object.
THEOREM TreeTypeCorrect == Spec => []TypeOK
BY TypeInit, TypeStep, PTL DEF Spec

-----------------------------------------------------------------------------
(***************************************************************************)
(* Nothing a client knows of is ahead of the object.                       *)
(***************************************************************************)
NoneAhead ==
    /\ tip <= head
    /\ \A i \in DOMAIN queue : queue[i] <= head
    /\ \A c \in Callbacks : at[c] <= head /\ curr[c] <= head /\ msg[c] <= head
    /\ \A p \in Players : newTip[p] <= head /\ abr[p].previousTip <= head

LEMMA AheadInit == Init => NoneAhead
<1> SUFFICES ASSUME Init PROVE NoneAhead  OBVIOUS
<1>1. head \in {0, 1} /\ tip = head /\ queue = <<>>  BY DEF Init
<1> QED  BY <1>1 DEF Init, NoneAhead, NoRequest

\* What a step of a player does to the tip, the object and its own request.
PlayerStep(p, label) ==
    /\ ppc[p] = label
    /\ UNCHANGED <<head, queue, redelivered, tip, at, curr, msg, cpc>>
    /\ \A q \in Players \ {p} : /\ ppc'[q] = ppc[q] /\ abr'[q] = abr[q]
                                /\ state'[q] = state[q] /\ newTip'[q] = newTip[q]

Dropped(p) == ppc'[p] = "idle" /\ abr'[p] = NoRequest /\ newTip'[p] = 0

LEMMA ThrowDrops ==
    ASSUME TypeOK, NEW p \in Players, Throw(p)
    PROVE  Dropped(p) /\ UNCHANGED <<tip, local, landing, at, curr, msg, cpc>>
           /\ \A q \in Players \ {p} : /\ ppc'[q] = ppc[q] /\ abr'[q] = abr[q]
                                       /\ state'[q] = state[q] /\ newTip'[q] = newTip[q]
BY DEF Throw, Dropped, TypeOK

LEMMA ResolvedStep ==
    ASSUME TypeOK, NEW p \in Players, NEW field \in {"height", "previousBlock"}, NEW next,
           Resolved(p, field, next)
    PROVE  PlayerStep(p, ppc[p])
           /\ \/ Dropped(p)
              \/ /\ ppc'[p] = next /\ newTip'[p] = newTip[p] /\ state'[p] = state[p]
                 /\ abr'[p].previousTip = abr[p].previousTip
<1>1. CASE Faults /\ ~HasEnd(tip) /\ Throw(p) /\ UNCHANGED serverVars
  BY <1>1, ThrowDrops DEF PlayerStep
<1>2. CASE ~(Faults /\ ~HasEnd(tip) /\ Throw(p) /\ UNCHANGED serverVars)
  <2>1. /\ abr' = [abr EXCEPT ![p][field] = Touched(tip)]
        /\ ppc' = [ppc EXCEPT ![p] = next] /\ UNCHANGED <<serverVars, callbackVars, newTip, tip, state>>
    BY <1>2 DEF Resolved, Continue
  <2>2. abr'[p] = [abr[p] EXCEPT ![field] = Touched(tip)] /\ abr[p] \in Requests
    BY <2>1 DEF TypeOK
  <2>3. abr'[p].previousTip = abr[p].previousTip
    BY <2>2 DEF Requests
  <2>4. \A q \in Players \ {p} : abr'[q] = abr[q] /\ ppc'[q] = ppc[q]
    BY <2>1 DEF TypeOK
  <2> QED  BY <2>1, <2>3, <2>4 DEF PlayerStep, TypeOK
<1> QED  BY <1>1, <1>2

LEMMA CollectsStep ==
    ASSUME TypeOK, NEW p \in Players, NEW from, NEW next, Collects(p, from, next)
    PROVE  PlayerStep(p, ppc[p])
           /\ \/ Dropped(p)
              \/ /\ ppc'[p] = next /\ newTip'[p] = newTip[p] /\ abr'[p] = abr[p]
                 /\ state'[p] = state[p] \cup EndOf(Touched(from))
<1>1. CASE Faults /\ ~HasEnd(from) /\ Throw(p) /\ UNCHANGED serverVars
  BY <1>1, ThrowDrops DEF PlayerStep
<1>2. CASE ~(Faults /\ ~HasEnd(from) /\ Throw(p) /\ UNCHANGED serverVars)
  <2>1. /\ state' = [state EXCEPT ![p] = @ \cup EndOf(Touched(from))]
        /\ ppc' = [ppc EXCEPT ![p] = next] /\ UNCHANGED <<serverVars, callbackVars, newTip, tip, abr>>
    BY <1>2 DEF Collects, Collected, Continue
  <2> QED  BY <2>1 DEF PlayerStep, TypeOK
<1> QED  BY <1>1, <1>2

LEMMA TookStep ==
    ASSUME TypeOK, NEW p \in Players, NEW field \in {"previousTip", "signedTip"}, NEW next,
           Took(p, field, next)
    PROVE  /\ PlayerStep(p, ppc[p])
           /\ ppc'[p] = next /\ newTip'[p] = newTip[p] /\ state'[p] = state[p]
           /\ abr'[p].previousTip = IF field = "previousTip" THEN tip ELSE abr[p].previousTip
<1>1. /\ abr' = [abr EXCEPT ![p][field] = tip] /\ ppc' = [ppc EXCEPT ![p] = next]
      /\ UNCHANGED <<serverVars, callbackVars, newTip, tip, state>>
  BY DEF Took, Continue
<1>2. abr'[p] = [abr[p] EXCEPT ![field] = tip] /\ abr[p] \in Requests
  BY <1>1 DEF TypeOK
<1>3. abr'[p].previousTip = IF field = "previousTip" THEN tip ELSE abr[p].previousTip
  BY <1>2 DEF Requests
<1>4. \A q \in Players \ {p} : abr'[q] = abr[q] /\ ppc'[q] = ppc[q]
  BY <1>1 DEF TypeOK
<1> QED  BY <1>1, <1>3, <1>4 DEF PlayerStep, TypeOK

\* The steps of a player that touch neither the tip nor the object: where they start,
\* where they go, and what they do to the request.
Preparing(p) ==
    \/ Play(p) \/ SetTip(p) \/ Collect(p) \/ CollectData(p) \/ Sign(p) \/ ResolveChain(p)
    \/ GetMany(p) \/ Send(p)

AfterCollect == {"collectData", "sign", "resolveChain", "getMany", "send", "sent"}

LEMMA PreparingStep ==
    ASSUME TypeOK, NEW p \in Players, Preparing(p)
    PROVE  /\ PlayerStep(p, ppc[p]) /\ ppc[p] # "sent"
           /\ \/ Dropped(p)
              \/ /\ newTip'[p] = newTip[p]
                 /\ \/ /\ abr'[p].previousTip = abr[p].previousTip /\ state[p] \subseteq state'[p]
                       /\ ppc'[p] \in AfterCollect => ppc[p] \in AfterCollect
                    \/ ppc'[p] = "collect" /\ abr'[p].previousTip = tip
                    \/ /\ ppc'[p] = "collectData" /\ abr'[p].previousTip = abr[p].previousTip
                       /\ EndOf(Touched(abr[p].previousTip)) \subseteq state'[p]
<1> USE DEF AfterCollect
<1>1. CASE Play(p)          BY <1>1, ResolvedStep DEF Play
<1>2. CASE SetTip(p)        BY <1>2, TookStep DEF SetTip
<1>3. CASE Collect(p)       BY <1>3, CollectsStep DEF Collect
<1>4. CASE CollectData(p)   BY <1>4, CollectsStep DEF CollectData
<1>5. CASE Sign(p)          BY <1>5, TookStep DEF Sign
<1>6. CASE ResolveChain(p)  BY <1>6, ResolvedStep DEF ResolveChain
<1>7. CASE GetMany(p)
  BY <1>7, ThrowDrops DEF GetMany, Continue, PlayerStep, TypeOK
<1>8. CASE Send(p)
  BY <1>8, ThrowDrops DEF Send, Continue, PlayerStep, TypeOK
<1> QED  BY <1>1, <1>2, <1>3, <1>4, <1>5, <1>6, <1>7, <1>8 DEF Preparing

\* What an answer of the server does.
LEMMA ServeStep ==
    ASSUME TypeOK, NEW p \in Players, Serve(p)
    PROVE  /\ ppc[p] = "sent" /\ UNCHANGED <<redelivered, tip, local, landing, at, curr, msg, cpc>>
           /\ \A q \in Players \ {p} : /\ ppc'[q] = ppc[q] /\ abr'[q] = abr[q]
                                       /\ state'[q] = state[q] /\ newTip'[q] = newTip[q]
           /\ ppc'[p] \in {"idle", "update"} /\ abr'[p] = NoRequest
           /\ \/ UNCHANGED <<head, queue>> /\ newTip'[p] = 0
              \/ Grow /\ abr[p].previousTip = head /\ newTip'[p] = head + 1 /\ ppc'[p] = "update"
<1>1. ASSUME NEW n, Replied(p, n)
      PROVE  /\ UNCHANGED <<tip, local, landing, at, curr, msg, cpc>>
             /\ \A q \in Players \ {p} : /\ ppc'[q] = ppc[q] /\ abr'[q] = abr[q]
                                         /\ state'[q] = state[q] /\ newTip'[q] = newTip[q]
             /\ ppc'[p] = "update" /\ abr'[p] = NoRequest /\ newTip'[p] = n
  BY <1>1 DEF Replied, TypeOK
<1>2. ppc[p] = "sent" /\ UNCHANGED redelivered  BY DEF Serve
<1>3. \/ Accept(p) /\ abr[p].previousTip = head
      \/ Throw(p) /\ UNCHANGED <<head, queue>>
      \/ Replied(p, 0) /\ UNCHANGED <<head, queue>>
  BY DEF Serve
<1>4. CASE Accept(p) /\ abr[p].previousTip = head
  BY <1>1, <1>2, <1>4 DEF Accept
<1>5. CASE Throw(p) /\ UNCHANGED <<head, queue>>
  BY <1>2, <1>5, ThrowDrops DEF Dropped
<1>6. CASE Replied(p, 0) /\ UNCHANGED <<head, queue>>
  BY <1>1, <1>2, <1>6
<1> QED  BY <1>3, <1>4, <1>5, <1>6

\* Where the reply is taken.
LEMMA UpdateStep ==
    ASSUME TypeOK, NEW p \in Players, UpdateTree(p)
    PROVE  /\ UNCHANGED <<head, queue, redelivered, at, curr, msg, cpc>> /\ ppc[p] = "update"
           /\ \A q \in Players \ {p} : /\ ppc'[q] = ppc[q] /\ abr'[q] = abr[q]
                                       /\ state'[q] = state[q] /\ newTip'[q] = newTip[q]
           /\ ppc'[p] = "idle" /\ newTip'[p] = 0 /\ abr'[p] \in {abr[p], NoRequest}
           /\ \/ newTip[p] # 0 /\ tip' = newTip[p]
              \/ UNCHANGED tip
<1>1. CASE Throw(p)
  BY <1>1, ThrowDrops DEF UpdateTree, Dropped
<1>2. CASE ~Throw(p)
  BY <1>2 DEF UpdateTree, IsCID, TypeOK
<1> QED  BY <1>1, <1>2

\* The steps again, with those of players put together.
LEMMA FewerSteps ==
    ASSUME [Next]_vars, NEW P,
           Update => P, Land => P,
           \A c \in Callbacks : Deliver(c) => P,
           \A c \in Callbacks : Resolve(c) => P,
           \A c \in Callbacks : Compare(c) => P,
           \A c \in Callbacks : FetchRoot(c) => P,
           \A c \in Callbacks : FetchEnd(c) => P,
           \A p \in Players : Preparing(p) => P,
           \A p \in Players : Serve(p) => P,
           \A p \in Players : UpdateTree(p) => P,
           UNCHANGED vars => P
    PROVE  P
BY DEF Next, Playing, Preparing

\* What the steps of callbacks do to the messages.
LEMMA DeliverStep ==
    ASSUME TypeOK, NEW c \in Callbacks, Deliver(c)
    PROVE  /\ UNCHANGED <<head, treeVars, playerVars>> /\ cpc[c] = "idle"
           /\ OneAtATime => ~Handling
           /\ \A b \in Callbacks \ {c} : /\ cpc'[b] = cpc[b] /\ at'[b] = at[b]
                                         /\ curr'[b] = curr[b] /\ msg'[b] = msg[b]
           /\ cpc'[c] = "resolve" /\ at'[c] = tip /\ curr'[c] = curr[c]
           /\ \E i \in DOMAIN queue : msg'[c] = queue[i]
           /\ \A i \in DOMAIN queue : \/ msg'[c] = queue[i]
                                      \/ \E j \in DOMAIN queue' : queue'[j] = queue[i]
           /\ \A j \in DOMAIN queue' : \E i \in DOMAIN queue : queue'[j] = queue[i]
<1>1. PICK i \in DOMAIN queue :
        /\ msg' = [msg EXCEPT ![c] = queue[i]]
        /\ queue' = RemoveAt(queue, i) \/ UNCHANGED queue
  <2>1. 1 \in DOMAIN queue  BY DEF Deliver, TypeOK
  <2> QED  BY <2>1 DEF Deliver
<1>2. queue \in Seq(Heights)  BY DEF TypeOK
<1>3. msg'[c] = queue[i] /\ \A b \in Callbacks \ {c} : msg'[b] = msg[b]
  BY <1>1 DEF TypeOK
<1>4. \A j \in DOMAIN queue : j = i \/ \E k \in DOMAIN queue' : queue'[k] = queue[j]
  BY <1>1, <1>2, RemoveAtProperties
<1>5. \A j \in DOMAIN queue' : \E k \in DOMAIN queue : queue'[j] = queue[k]
  BY <1>1, <1>2, RemoveAtProperties
<1>6. /\ UNCHANGED <<head, treeVars, playerVars, curr>> /\ cpc[c] = "idle"
      /\ OneAtATime => ~Handling
      /\ at' = [at EXCEPT ![c] = tip] /\ cpc' = [cpc EXCEPT ![c] = "resolve"]
  BY DEF Deliver
<1>7. at'[c] = tip /\ cpc'[c] = "resolve"
      /\ \A b \in Callbacks \ {c} : at'[b] = at[b] /\ cpc'[b] = cpc[b]
  BY <1>6 DEF TypeOK
<1> QED  BY <1>3, <1>4, <1>5, <1>6, <1>7

LEMMA FinishStep ==
    ASSUME TypeOK, NEW c \in Callbacks, Finish(c)
    PROVE  /\ cpc'[c] = "idle" /\ at'[c] = 0 /\ curr'[c] = 0 /\ msg'[c] = 0
           /\ \A b \in Callbacks \ {c} : /\ cpc'[b] = cpc[b] /\ at'[b] = at[b]
                                         /\ curr'[b] = curr[b] /\ msg'[b] = msg[b]
BY DEF Finish, TypeOK

\* A callback that goes on: where it is, and what it knows of the height.
Answering(c, label, known) ==
    /\ cpc'[c] = label /\ at'[c] = at[c] /\ curr'[c] = known /\ msg'[c] = msg[c]
    /\ \A b \in Callbacks \ {c} : /\ cpc'[b] = cpc[b] /\ at'[b] = at[b]
                                  /\ curr'[b] = curr[b] /\ msg'[b] = msg[b]

LEMMA ResolveStep ==
    ASSUME TypeOK, NEW c \in Callbacks, Resolve(c)
    PROVE  /\ UNCHANGED <<serverVars, tip, local, playerVars>> /\ cpc[c] = "resolve"
           /\ \/ Faults /\ Finish(c) /\ UNCHANGED landing
              \/ /\ Answering(c, "compare", IF HasEnd(at[c]) THEN at[c] ELSE head)
                 /\ landing \subseteq landing'
BY DEF Resolve, Fail, Answering, TypeOK

LEMMA CompareStep ==
    ASSUME TypeOK, NEW c \in Callbacks, Compare(c)
    PROVE  /\ UNCHANGED <<serverVars, local, landing, playerVars>> /\ cpc[c] = "compare"
           /\ \/ Finish(c) /\ UNCHANGED tip /\ ~(msg[c] >= curr[c])
              \/ Answering(c, "fetchRoot", curr[c]) /\ tip' = msg[c] /\ msg[c] >= curr[c]
BY DEF Compare, Follows, Answering, TypeOK

LEMMA FetchRootStep ==
    ASSUME TypeOK, NEW c \in Callbacks, FetchRoot(c)
    PROVE  /\ UNCHANGED <<serverVars, tip, local, playerVars>> /\ cpc[c] = "fetchRoot"
           /\ \/ Faults /\ Finish(c) /\ UNCHANGED landing
              \/ Answering(c, "fetchEnd", curr[c]) /\ landing \subseteq landing'
BY DEF FetchRoot, Fail, Answering, TypeOK

LEMMA FetchEndStep ==
    ASSUME TypeOK, NEW c \in Callbacks, FetchEnd(c)
    PROVE  /\ UNCHANGED <<serverVars, tip, local, playerVars>> /\ cpc[c] = "fetchEnd" /\ Finish(c)
           /\ \/ Faults /\ UNCHANGED landing
              \/ landing' = landing \cup EndOf(head)
BY DEF FetchEnd, SecondFetch, Fail

LEMMA GrowStep ==
    ASSUME TypeOK, Grow
    PROVE  /\ head' = head + 1 /\ head \in Nat
           /\ \A i \in DOMAIN queue : i \in DOMAIN queue' /\ queue'[i] = queue[i]
           /\ \A i \in DOMAIN queue' : \/ i \in DOMAIN queue /\ queue'[i] = queue[i]
                                       \/ queue'[i] = head'
           /\ \E i \in DOMAIN queue' : queue'[i] = head'
<1>1. head' = head + 1 /\ queue' = Append(queue, head + 1) /\ head \in Nat /\ queue \in Seq(Heights)
  BY HeightsType DEF Grow, Announced, TypeOK
<1>2. Len(queue') = Len(queue) + 1 /\ Len(queue) \in Nat /\ queue'[Len(queue) + 1] = head'
      /\ DOMAIN queue' = 1 .. Len(queue) + 1 /\ DOMAIN queue = 1 .. Len(queue)
      /\ \A i \in 1 .. Len(queue) : queue'[i] = queue[i]
  BY <1>1
<1>3. Len(queue) + 1 \in DOMAIN queue'  BY <1>2
<1>4. \A i \in DOMAIN queue' : i \in DOMAIN queue \/ i = Len(queue) + 1  BY <1>2
<1> QED  BY <1>1, <1>2, <1>3, <1>4

LEMMA NumbersType ==
    ASSUME TypeOK
    PROVE  /\ head \in Nat /\ tip \in Nat
           /\ \A i \in DOMAIN queue : queue[i] \in Nat
           /\ \A c \in Callbacks : at[c] \in Nat /\ curr[c] \in Nat /\ msg[c] \in Nat
           /\ \A p \in Players : newTip[p] \in Nat /\ abr[p].previousTip \in Nat
<1>1. \A i \in DOMAIN queue : queue[i] \in Heights
  BY DEF TypeOK
<1>2. \A p \in Players : newTip[p] \in Heights /\ abr[p].previousTip \in Heights
  BY DEF TypeOK, Requests
<1> QED  BY <1>1, <1>2, HeightsType DEF TypeOK

LEMMA AheadStep == TypeOK /\ TypeOK' /\ NoneAhead /\ [Next]_vars => NoneAhead'
<1> SUFFICES ASSUME TypeOK, TypeOK', NoneAhead, [Next]_vars PROVE NoneAhead'
  OBVIOUS
<1>0. /\ head \in Nat /\ tip \in Nat
      /\ \A i \in DOMAIN queue : queue[i] \in Nat
      /\ \A c \in Callbacks : at[c] \in Nat /\ curr[c] \in Nat /\ msg[c] \in Nat
      /\ \A p \in Players : newTip[p] \in Nat /\ abr[p].previousTip \in Nat
  BY NumbersType
<1>1. Grow => head' = head + 1 /\ \A i \in DOMAIN queue' : queue'[i] <= head'
  BY <1>0, GrowStep DEF NoneAhead
<1>2. Update => NoneAhead'
  BY <1>0, <1>1 DEF Update, NoneAhead
<1>3. Land => NoneAhead'
  BY DEF Land, NoneAhead
<1>4. ASSUME NEW c \in Callbacks, Deliver(c) PROVE NoneAhead'
  BY <1>4, DeliverStep DEF NoneAhead
<1>5. ASSUME NEW c \in Callbacks, Finish(c)
      PROVE  \A b \in Callbacks : /\ at'[b] \in {0, at[b]} /\ curr'[b] \in {0, curr[b]}
                                  /\ msg'[b] \in {0, msg[b]}
  BY <1>5, FinishStep
<1>6. ASSUME NEW c \in Callbacks, Resolve(c) PROVE NoneAhead'
  BY <1>0, <1>5, <1>6, ResolveStep DEF NoneAhead, Answering
<1>7. ASSUME NEW c \in Callbacks, Compare(c) PROVE NoneAhead'
  BY <1>0, <1>5, <1>7, CompareStep DEF NoneAhead, Answering
<1>8. ASSUME NEW c \in Callbacks, FetchRoot(c) PROVE NoneAhead'
  BY <1>0, <1>5, <1>8, FetchRootStep DEF NoneAhead, Answering
<1>9. ASSUME NEW c \in Callbacks, FetchEnd(c) PROVE NoneAhead'
  BY <1>0, <1>5, <1>9, FetchEndStep DEF NoneAhead
<1>10. NoRequest.previousTip = 0  BY DEF NoRequest
<1>11. ASSUME NEW p \in Players, Preparing(p) PROVE NoneAhead'
  <2>1. \A q \in Players : newTip'[q] <= head /\ abr'[q].previousTip <= head
    BY <1>0, <1>10, <1>11, PreparingStep DEF NoneAhead, PlayerStep, Dropped
  <2> QED  BY <1>11, <2>1, PreparingStep DEF NoneAhead, PlayerStep
<1>12. ASSUME NEW p \in Players, Serve(p) PROVE NoneAhead'
  <2>1. \/ UNCHANGED <<head, queue>> /\ newTip'[p] = 0
        \/ Grow /\ newTip'[p] = head + 1
    BY <1>12, ServeStep
  <2>2. \A q \in Players : newTip'[q] <= head' /\ abr'[q].previousTip <= head'
    BY <1>0, <1>1, <1>10, <1>12, <2>1, ServeStep DEF NoneAhead
  <2> QED  BY <1>0, <1>1, <1>12, <2>1, <2>2, ServeStep DEF NoneAhead
<1>13. ASSUME NEW p \in Players, UpdateTree(p) PROVE NoneAhead'
  <2>1. \A q \in Players : newTip'[q] <= head' /\ abr'[q].previousTip <= head'
    BY <1>0, <1>10, <1>13, UpdateStep DEF NoneAhead
  <2> QED  BY <1>13, <2>1, UpdateStep DEF NoneAhead
<1>14. UNCHANGED vars => NoneAhead'
  BY DEF NoneAhead
<1> QED
  BY <1>2, <1>3, <1>4, <1>6, <1>7, <1>8, <1>9, <1>11, <1>12, <1>13, <1>14, FewerSteps

LEMMA AheadInvariant == Spec => [](TypeOK /\ NoneAhead)
BY TypeInit, TypeStep, AheadInit, AheadStep, PTL DEF Spec

-----------------------------------------------------------------------------
(***************************************************************************)
(* What a request carries.                                                 *)
(***************************************************************************)
\* A request that still builds on the object's last tip has been given the nodes of that
\* tip: its tip was not ahead of the object when it was taken, and if the client lacked
\* its nodes, the server answered with those of the last one.
Carried ==
    \A p \in Players :
       ppc[p] \in AfterCollect /\ abr[p].previousTip = head => EndOf(head) \subseteq state[p]

LEMMA CarriedInit == Init => Carried
BY DEF Init, Carried, AfterCollect

LEMMA CarriedStep ==
    TypeOK /\ TypeOK' /\ NoneAhead /\ Carried /\ [Next]_vars => Carried'
<1> SUFFICES ASSUME TypeOK, TypeOK', NoneAhead, Carried, [Next]_vars PROVE Carried'
  OBVIOUS
<1>0. head \in Nat /\ \A p \in Players : abr[p].previousTip \in Nat /\ abr[p].previousTip <= head
  BY NumbersType DEF NoneAhead
<1>1. Grow => \A p \in Players : abr[p].previousTip # head'
  BY <1>0, GrowStep
<1>2. Update => Carried'
  BY <1>1 DEF Update, Carried
<1>3. UNCHANGED <<head, playerVars>> => Carried'
  BY DEF Carried
<1>4. Land => Carried'
  BY <1>3 DEF Land
<1>5. \A c \in Callbacks : Deliver(c) => Carried'
  BY <1>3, DeliverStep
<1>6. \A c \in Callbacks : Resolve(c) => Carried'
  BY <1>3, ResolveStep
<1>7. \A c \in Callbacks : Compare(c) => Carried'
  BY <1>3, CompareStep
<1>8. \A c \in Callbacks : FetchRoot(c) => Carried'
  BY <1>3, FetchRootStep
<1>9. \A c \in Callbacks : FetchEnd(c) => Carried'
  BY <1>3, FetchEndStep
<1>10. ASSUME NEW p \in Players, Preparing(p) PROVE Carried'
  <2>1. Touched(head) = head  BY DEF Touched
  <2>2. "idle" \notin AfterCollect /\ "collect" \notin AfterCollect /\ "update" \notin AfterCollect
    BY DEF AfterCollect
  <2>3. ppc'[p] \in AfterCollect /\ abr'[p].previousTip = head => EndOf(head) \subseteq state'[p]
    BY <1>10, <2>1, <2>2, PreparingStep DEF Carried, Dropped
  <2> QED  BY <1>10, <2>3, PreparingStep DEF Carried, PlayerStep
<1>11. ASSUME NEW p \in Players, Serve(p) PROVE Carried'
  <2>1. ppc'[p] \notin AfterCollect
    BY <1>11, ServeStep DEF AfterCollect
  <2>2. CASE Grow
    <3>1. \A q \in Players \ {p} : abr'[q].previousTip # head'  BY <1>1, <1>11, <2>2, ServeStep
    <3> QED  BY <2>1, <3>1 DEF Carried
  <2>3. CASE UNCHANGED head
    BY <1>11, <2>1, <2>3, ServeStep DEF Carried
  <2> QED  BY <1>11, <2>2, <2>3, ServeStep
<1>12. ASSUME NEW p \in Players, UpdateTree(p) PROVE Carried'
  <2>1. ppc'[p] \notin AfterCollect
    BY <1>12, UpdateStep DEF AfterCollect
  <2> QED  BY <1>12, <2>1, UpdateStep DEF Carried
<1>13. UNCHANGED vars => Carried'
  BY <1>3
<1> QED
  BY <1>2, <1>4, <1>5, <1>6, <1>7, <1>8, <1>9, <1>10, <1>11, <1>12, <1>13, FewerSteps

LEMMA CarriesStep ==
    TypeOK /\ NoneAhead /\ Carried /\ [Next]_vars
    => [\A p \in Players : Accepted(p) => EndOf(head) \subseteq state[p]]_vars
<1> SUFFICES ASSUME TypeOK, Carried, [Next]_vars, NEW p \in Players, Accepted(p)
             PROVE  EndOf(head) \subseteq state[p]
  OBVIOUS
<1> DEFINE Goal == EndOf(head) \subseteq state[p]
<1>1. ppc[p] = "sent" /\ head' # head /\ ppc'[p] = "update"  BY DEF Accepted
<1>2. UNCHANGED head \/ UNCHANGED ppc => Goal  BY <1>1
<1>3. ASSUME NEW q \in Players, Serve(q) PROVE Goal
  <2>1. q = p  BY <1>1, <1>3, ServeStep
  <2>2. abr[p].previousTip = head  BY <1>1, <1>3, <2>1, ServeStep
  <2> QED  BY <1>1, <2>2 DEF Carried, AfterCollect
<1>4. Update => Goal  BY <1>2 DEF Update
<1>5. Land => Goal  BY <1>2 DEF Land
<1>6. \A c \in Callbacks : Deliver(c) => Goal  BY <1>2, DeliverStep
<1>7. \A c \in Callbacks : Resolve(c) => Goal  BY <1>2, ResolveStep
<1>8. \A c \in Callbacks : Compare(c) => Goal  BY <1>2, CompareStep
<1>9. \A c \in Callbacks : FetchRoot(c) => Goal  BY <1>2, FetchRootStep
<1>10. \A c \in Callbacks : FetchEnd(c) => Goal  BY <1>2, FetchEndStep
<1>11. \A q \in Players : Preparing(q) => Goal  BY <1>2, PreparingStep DEF PlayerStep
<1>12. \A q \in Players : UpdateTree(q) => Goal  BY <1>2, UpdateStep
<1>13. UNCHANGED vars => Goal  BY <1>2
<1> HIDE DEF Goal
<1>14. Goal  BY <1>3, <1>4, <1>5, <1>6, <1>7, <1>8, <1>9, <1>10, <1>11, <1>12, <1>13, FewerSteps
<1> QED  BY <1>14 DEF Goal

\* A request that the server takes carries the nodes of the tree it builds on, whatever
\* arrives between the awaits of newAddBlockRequest, and whatever fails.
THEOREM RequestsCarryState == Spec => CarriesState
<1>1. Spec => [](TypeOK /\ NoneAhead /\ Carried)
  BY TypeInit, TypeStep, AheadInit, AheadStep, CarriedInit, CarriedStep, PTL DEF Spec
<1>2. Spec => [][\A p \in Players : Accepted(p) => EndOf(head) \subseteq state[p]]_vars
  BY <1>1, CarriesStep, PTL DEF Spec
<1> QED  BY <1>2 DEF CarriesState

-----------------------------------------------------------------------------
(***************************************************************************)
(* A client that follows the object.                                       *)
(***************************************************************************)
\* With messages handled one at a time the tip is still the one that a callback has
\* compared with: nothing else sets it in a client that plays no transactions.
OneHandled == \A b, c \in Callbacks : cpc[b] # "idle" /\ cpc[c] # "idle" => b = c

Compared ==
    \A c \in Callbacks :
       /\ cpc[c] = "resolve" => at[c] = tip
       /\ cpc[c] = "compare" => tip <= curr[c]
       /\ cpc[c] \in {"fetchRoot", "fetchEnd"} => tip = msg[c]

Follower == Players = {} /\ OneAtATime

LEMMA FollowerInit == Init => OneHandled /\ Compared
BY DEF Init, OneHandled, Compared

LEMMA FollowerStep ==
    ASSUME Follower
    PROVE  TypeOK /\ TypeOK' /\ NoneAhead /\ OneHandled /\ Compared /\ [Next]_vars
           => OneHandled' /\ Compared' /\ tip' >= tip
<1> SUFFICES ASSUME TypeOK, NoneAhead, OneHandled, Compared, [Next]_vars
             PROVE  OneHandled' /\ Compared' /\ tip' >= tip
  OBVIOUS
<1> DEFINE Goal == OneHandled' /\ Compared' /\ tip' >= tip
<1> USE DEF Follower
<1>0. /\ head \in Nat /\ tip \in Nat
      /\ \A c \in Callbacks : at[c] \in Nat /\ curr[c] \in Nat /\ msg[c] \in Nat
  BY NumbersType
<1>1. UNCHANGED <<tip, callbackVars>> => Goal
  BY <1>0 DEF OneHandled, Compared
<1>2. Update => Goal  BY <1>1 DEF Update
<1>3. Land => Goal    BY <1>1 DEF Land
\* A step of a callback leaves the others idle.
<1>4. ASSUME NEW c \in Callbacks, cpc[c] # "idle",
             \A b \in Callbacks \ {c} : cpc'[b] = cpc[b],
             cpc'[c] # "idle" => /\ cpc'[c] = "resolve" => at'[c] = tip'
                                 /\ cpc'[c] = "compare" => tip' <= curr'[c]
                                 /\ cpc'[c] \in {"fetchRoot", "fetchEnd"} => tip' = msg'[c],
             tip' >= tip
      PROVE  Goal
  <2>1. \A b \in Callbacks \ {c} : cpc'[b] = "idle"  BY <1>4 DEF OneHandled
  <2>2. OneHandled'  BY <2>1 DEF OneHandled
  <2>3. Compared'
    <3> SUFFICES ASSUME NEW b \in Callbacks
                 PROVE  /\ cpc'[b] = "resolve" => at'[b] = tip'
                        /\ cpc'[b] = "compare" => tip' <= curr'[b]
                        /\ cpc'[b] \in {"fetchRoot", "fetchEnd"} => tip' = msg'[b]
      BY DEF Compared
    <3>1. CASE b = c   BY <1>4, <3>1
    <3>2. CASE b # c   BY <2>1, <3>2
    <3> QED  BY <3>1, <3>2
  <2> QED  BY <1>4, <2>2, <2>3
<1>5. ASSUME NEW c \in Callbacks, Deliver(c) PROVE Goal
  <2>1. \A b \in Callbacks \ {c} : cpc'[b] = "idle"
    BY <1>5, DeliverStep DEF Handling
  <2>2. cpc'[c] = "resolve" /\ at'[c] = tip /\ UNCHANGED tip
    BY <1>5, DeliverStep
  <2> QED  BY <1>0, <2>1, <2>2 DEF OneHandled, Compared
<1>6. ASSUME NEW c \in Callbacks, Resolve(c) PROVE Goal
  <2>1. at[c] = tip /\ UNCHANGED tip /\ cpc[c] = "resolve" /\ tip <= head
    BY <1>6, ResolveStep DEF Compared, NoneAhead
  <2>2. CASE Finish(c)
    BY <1>0, <1>4, <2>1, <2>2, FinishStep
  <2>3. CASE Answering(c, "compare", IF HasEnd(at[c]) THEN at[c] ELSE head)
    BY <1>0, <1>4, <2>1, <2>3 DEF Answering
  <2> QED  BY <1>6, <2>2, <2>3, ResolveStep
<1>7. ASSUME NEW c \in Callbacks, Compare(c) PROVE Goal
  <2>1. cpc[c] = "compare" /\ tip <= curr[c]
    BY <1>7, CompareStep DEF Compared
  <2>2. CASE Finish(c) /\ UNCHANGED tip
    BY <1>0, <1>4, <2>1, <2>2, FinishStep
  <2>3. CASE Answering(c, "fetchRoot", curr[c]) /\ tip' = msg[c] /\ msg[c] >= curr[c]
    BY <1>0, <1>4, <2>1, <2>3 DEF Answering
  <2> QED  BY <1>7, <2>2, <2>3, CompareStep
<1>8. ASSUME NEW c \in Callbacks, FetchRoot(c) PROVE Goal
  <2>1. cpc[c] = "fetchRoot" /\ tip = msg[c] /\ UNCHANGED tip
    BY <1>8, FetchRootStep DEF Compared
  <2>2. CASE Finish(c)
    BY <1>0, <1>4, <2>1, <2>2, FinishStep
  <2>3. CASE Answering(c, "fetchEnd", curr[c])
    BY <1>0, <1>4, <2>1, <2>3 DEF Answering
  <2> QED  BY <1>8, <2>2, <2>3, FetchRootStep
<1>9. ASSUME NEW c \in Callbacks, FetchEnd(c) PROVE Goal
  BY <1>0, <1>4, <1>9, FetchEndStep, FinishStep
<1>10. \A p \in Players : Preparing(p) \/ Serve(p) \/ UpdateTree(p) => Goal
  OBVIOUS
<1>11. UNCHANGED vars => Goal  BY <1>1
<1> HIDE DEF Goal
<1>12. Goal
  BY <1>2, <1>3, <1>5, <1>6, <1>7, <1>8, <1>9, <1>10, <1>11, FewerSteps
<1> QED  BY <1>12 DEF Goal

\* The tip of a client that plays no transactions, and handles each message before the
\* next one arrives, never goes back, though messages are reordered and repeated, and
\* requests fail.
THEOREM FollowerNeverBack ==
    ASSUME Follower
    PROVE  Spec => NeverBack
<1>1. Spec => [](TypeOK /\ NoneAhead /\ OneHandled /\ Compared)
  BY TypeInit, TypeStep, AheadInit, AheadStep, FollowerInit, FollowerStep, PTL DEF Spec
<1>2. TypeOK /\ TypeOK' /\ NoneAhead /\ OneHandled /\ Compared /\ [Next]_vars => [tip' >= tip]_tip
  BY FollowerStep
<1>3. Spec => [][tip' >= tip]_tip
  BY <1>1, <1>2, PTL DEF Spec
<1> QED  BY <1>3 DEF NeverBack

-----------------------------------------------------------------------------
\* Of the object's last block there is a message still, or a callback that has it, or the
\* tip is of that block and its nodes are in the store or on their way.
Told ==
    head > 1 =>
       \/ \E i \in DOMAIN queue : queue[i] = head
       \/ \E c \in Callbacks : cpc[c] # "idle" /\ msg[c] = head
       \/ tip = head /\ EndOf(head) \subseteq local \cup landing

LEMMA ToldInit == Init => Told
BY DEF Init, Told

LEMMA ToldStep ==
    ASSUME Follower, ~Faults
    PROVE  TypeOK /\ TypeOK' /\ NoneAhead /\ OneHandled /\ Compared /\ Told /\ [Next]_vars => Told'
<1> SUFFICES ASSUME TypeOK, NoneAhead, OneHandled, Compared, Told, [Next]_vars
             PROVE  Told'
  OBVIOUS
<1> USE DEF Follower
<1>0. /\ head \in Nat /\ tip \in Nat
      /\ \A c \in Callbacks : at[c] \in Nat /\ curr[c] \in Nat /\ msg[c] \in Nat
  BY NumbersType
<1>1. Update => Told'  BY GrowStep DEF Update, Told
<1>2. Land => Told'    BY DEF Land, Told
<1>3. ASSUME NEW c \in Callbacks, Deliver(c) PROVE Told'
  <2>1. CASE \E i \in DOMAIN queue : queue[i] = head
    BY <1>3, <2>1, DeliverStep DEF Told
  <2>2. ASSUME NEW b \in Callbacks, cpc[b] # "idle", msg[b] = head PROVE Told'
    <3>1. b # c  BY <1>3, <2>2, DeliverStep
    <3> QED  BY <1>3, <2>2, <3>1, DeliverStep DEF Told
  <2>3. CASE tip = head /\ EndOf(head) \subseteq local \cup landing
    BY <1>3, <2>3, DeliverStep DEF Told
  <2>4. CASE ~(head > 1)  BY <1>3, <2>4, DeliverStep DEF Told
  <2> QED  BY <2>1, <2>2, <2>3, <2>4 DEF Told
\* A callback that keeps its message, and takes nothing away.
<1>4. ASSUME NEW c \in Callbacks, NEW label, NEW known, label # "idle",
             Answering(c, label, known), UNCHANGED <<head, queue, tip, local>>,
             landing \subseteq landing'
      PROVE  Told'
  BY <1>4 DEF Told, Answering
<1>5. ASSUME NEW c \in Callbacks, Resolve(c) PROVE Told'
  BY <1>4, <1>5, ResolveStep
<1>6. ASSUME NEW c \in Callbacks, Compare(c) PROVE Told'
  <2>1. /\ UNCHANGED <<head, queue, local, landing>> /\ cpc[c] = "compare" /\ tip <= curr[c]
    BY <1>6, CompareStep DEF Compared
  <2>2. CASE Finish(c) /\ UNCHANGED tip /\ ~(msg[c] >= curr[c])
    <3>1. msg[c] # head  BY <1>0, <2>2 DEF NoneAhead
    <3> QED  BY <2>1, <2>2, <3>1, FinishStep DEF Told
  <2>3. CASE Answering(c, "fetchRoot", curr[c]) /\ tip' = msg[c] /\ msg[c] >= curr[c]
    <3>1. tip = head => msg[c] = head  BY <1>0, <2>1, <2>3 DEF NoneAhead
    <3> QED  BY <2>1, <2>3, <3>1 DEF Told, Answering
  <2> QED  BY <1>6, <2>2, <2>3, CompareStep
<1>7. ASSUME NEW c \in Callbacks, FetchRoot(c) PROVE Told'
  BY <1>4, <1>7, FetchRootStep
<1>8. ASSUME NEW c \in Callbacks, FetchEnd(c) PROVE Told'
  <2>1. /\ UNCHANGED <<head, queue, tip, local>> /\ cpc[c] = "fetchEnd" /\ tip = msg[c]
        /\ Finish(c) /\ landing' = landing \cup EndOf(head)
    BY <1>8, FetchEndStep DEF Compared
  <2> QED  BY <2>1, FinishStep DEF Told
<1>9. \A p \in Players : Preparing(p) \/ Serve(p) \/ UpdateTree(p) => Told'
  OBVIOUS
<1>10. UNCHANGED vars => Told'  BY DEF Told
<1> QED
  BY <1>1, <1>2, <1>3, <1>5, <1>6, <1>7, <1>8, <1>9, <1>10, FewerSteps

\* When nothing is on its way any more, such a client, if its requests are answered, has
\* the end of its chain, and so the height it compares with, in its own store.
THEOREM FollowerReadsItself ==
    ASSUME Follower, ~Faults
    PROVE  Spec => []ReadsItself
<1>1. Spec => [](TypeOK /\ NoneAhead /\ OneHandled /\ Compared /\ Told)
  BY TypeInit, TypeStep, AheadInit, AheadStep, FollowerInit, FollowerStep, ToldInit, ToldStep,
     PTL DEF Spec
<1>2. Told => ReadsItself
  BY DEF Told, ReadsItself, Settled, Handling, HasEnd
<1> QED  BY <1>1, <1>2, PTL

-----------------------------------------------------------------------------
(***************************************************************************)
(* A client that writes.                                                   *)
(***************************************************************************)
\* A reply that has not been taken is ahead of the tip, and the only one: the next
\* request that the server takes must name the tip of that reply.
OwnTips ==
    /\ \A p \in Players : newTip[p] # 0 => tip < newTip[p]
    /\ \A p, q \in Players : newTip[p] # 0 /\ newTip[q] # 0 => p = q
    /\ \A p \in Players : abr[p].previousTip <= tip

LEMMA OwnTipsInit == Init => OwnTips
<1>1. NoRequest.previousTip = 0  BY DEF NoRequest
<1> QED  BY <1>1 DEF Init, OwnTips

LEMMA OwnTipsStep ==
    ASSUME Callbacks = {}
    PROVE  TypeOK /\ TypeOK' /\ NoneAhead /\ OwnTips /\ [Next]_vars => OwnTips' /\ tip' >= tip
<1> SUFFICES ASSUME TypeOK, NoneAhead, OwnTips, [Next]_vars
             PROVE  OwnTips' /\ tip' >= tip
  OBVIOUS
<1> DEFINE Goal == OwnTips' /\ tip' >= tip
<1>0. /\ head \in Nat /\ tip \in Nat /\ tip <= head
      /\ \A p \in Players : newTip[p] \in Nat /\ abr[p].previousTip \in Nat /\ newTip[p] <= head
  BY NumbersType DEF NoneAhead
<1>1. UNCHANGED <<tip, playerVars>> => Goal
  BY <1>0 DEF OwnTips
<1>2. NoRequest.previousTip = 0  BY DEF NoRequest
<1>3. Update => Goal  BY <1>1 DEF Update
<1>4. Land => Goal    BY <1>1 DEF Land
<1>5. \A c \in Callbacks : Deliver(c) \/ Resolve(c) \/ Compare(c) \/ FetchRoot(c) \/ FetchEnd(c) => Goal
  OBVIOUS
<1>6. ASSUME NEW p \in Players, Preparing(p) PROVE Goal
  <2>1. \A q \in Players : newTip'[q] \in {0, newTip[q]}
                           /\ abr'[q].previousTip \in {0, abr[q].previousTip, tip}
    BY <1>2, <1>6, PreparingStep DEF PlayerStep, Dropped
  <2>2. UNCHANGED tip  BY <1>6, PreparingStep DEF PlayerStep
  <2> QED  BY <1>0, <2>1, <2>2 DEF OwnTips
<1>7. ASSUME NEW p \in Players, Serve(p) PROVE Goal
  <2>1. UNCHANGED tip /\ abr'[p].previousTip = 0
        /\ \A q \in Players \ {p} : newTip'[q] = newTip[q] /\ abr'[q] = abr[q]
    BY <1>2, <1>7, ServeStep
  <2>2. CASE newTip'[p] = 0
    BY <1>0, <2>1, <2>2 DEF OwnTips
  <2>3. CASE abr[p].previousTip = head /\ newTip'[p] = head + 1
    <3>1. tip = head  BY <1>0, <2>3 DEF OwnTips
    <3>2. \A q \in Players : newTip[q] = 0  BY <1>0, <3>1 DEF OwnTips
    <3> QED  BY <1>0, <2>1, <2>3, <3>1, <3>2 DEF OwnTips
  <2> QED  BY <1>7, <2>2, <2>3, ServeStep
<1>8. ASSUME NEW p \in Players, UpdateTree(p) PROVE Goal
  <2>1. newTip'[p] = 0 /\ abr'[p].previousTip \in {0, abr[p].previousTip}
        /\ \A q \in Players \ {p} : newTip'[q] = newTip[q] /\ abr'[q] = abr[q]
    BY <1>2, <1>8, UpdateStep
  <2>2. CASE newTip[p] # 0 /\ tip' = newTip[p]
    <3>1. \A q \in Players \ {p} : newTip[q] = 0  BY <2>2 DEF OwnTips
    <3> QED  BY <1>0, <2>1, <2>2, <3>1 DEF OwnTips
  <2>3. CASE UNCHANGED tip
    BY <1>0, <2>1, <2>3 DEF OwnTips
  <2> QED  BY <1>8, <2>2, <2>3, UpdateStep
<1>9. UNCHANGED vars => Goal  BY <1>1
<1> HIDE DEF Goal
<1>10. Goal
  BY <1>3, <1>4, <1>5, <1>6, <1>7, <1>8, <1>9, FewerSteps
<1> QED  BY <1>10 DEF Goal

\* Without messages the tip of a client never goes back either: however its own plays
\* overlap, and whoever else writes, the server takes one only if it names the last tip,
\* and until the reply is taken none of the others does.
THEOREM WriterNeverBack ==
    ASSUME Callbacks = {}
    PROVE  Spec => NeverBack
<1>1. Spec => [](TypeOK /\ NoneAhead /\ OwnTips)
  BY TypeInit, TypeStep, AheadInit, AheadStep, OwnTipsInit, OwnTipsStep, PTL DEF Spec
<1>2. TypeOK /\ TypeOK' /\ NoneAhead /\ OwnTips /\ [Next]_vars => [tip' >= tip]_tip
  BY OwnTipsStep
<1>3. Spec => [][tip' >= tip]_tip
  BY <1>1, <1>2, PTL DEF Spec
<1> QED  BY <1>3 DEF NeverBack
=============================================================================
