-------------------------- MODULE Presence_proofs --------------------------
(***************************************************************************)
(* Proofs about the promise of presence: the history of every machine      *)
(* alternates and ends with the machine's status.                          *)
(***************************************************************************)
EXTENDS Presence, SequenceTheorems, TLAPS

\* The variables that History is about have the domains and the values that
\* Change relies on.
HistoryTyped ==
  /\ status \in [Machines -> {"unknown", "online", "offline"}]
  /\ history \in [Machines -> Seq({"online", "offline"})]

\* Appending an entry unlike the last one, or "online" to nothing, keeps a
\* history alternating.
LEMMA AppendAlternates ==
  ASSUME NEW h \in Seq({"online", "offline"}), Alternates(h),
         NEW new \in {"online", "offline"},
         IF h = <<>> THEN new = "online" ELSE new # h[Len(h)]
  PROVE  /\ Append(h, new) # <<>>
         /\ Append(h, new)[Len(Append(h, new))] = new
         /\ Alternates(Append(h, new))
<1> DEFINE g == Append(h, new)
<1>1. /\ g \in Seq({"online", "offline"})
      /\ Len(g) = Len(h) + 1
      /\ \A i \in 1 .. Len(h) : g[i] = h[i]
      /\ g[Len(h) + 1] = new
  BY AppendProperties
<1>2. /\ Len(h) \in Nat /\ (h = <<>> <=> Len(h) = 0)
      /\ g # <<>>
  BY <1>1, EmptySeq
<1>3. g[1] = "online"
  <2>1. CASE h = <<>>
    BY <1>1, <1>2, <2>1
  <2>2. CASE h # <<>>
    BY <1>1, <1>2, <2>2 DEF Alternates
  <2> QED
    BY <2>1, <2>2
<1>4. ASSUME NEW i \in 2 .. Len(g)
      PROVE  g[i] # g[i - 1]
  <2>1. CASE i = Len(h) + 1
    BY <1>1, <1>2, <2>1
  <2>2. CASE i # Len(h) + 1
    BY <1>1, <1>2, <2>2 DEF Alternates
  <2> QED
    BY <2>1, <2>2
<1> QED
  BY <1>1, <1>2, <1>3, <1>4 DEF Alternates

\* A change of status to what the machine is not keeps History.
LEMMA ChangeKeepsHistory ==
  ASSUME HistoryTyped, History, NEW m \in Machines,
         NEW new \in {"online", "offline"}, Change(m, new),
         status[m] # new, new = "offline" => status[m] = "online"
  PROVE  HistoryTyped' /\ History'
<1>1. HistoryTyped'
  BY DEF HistoryTyped, Change
<1>2. /\ history' = [history EXCEPT ![m] = Append(history[m], new)]
      /\ status' = [status EXCEPT ![m] = new]
      /\ history[m] \in Seq({"online", "offline"})
  BY DEF HistoryTyped, Change
<1>3. /\ Append(history[m], new) # <<>>
      /\ Append(history[m], new)[Len(Append(history[m], new))] = new
      /\ Alternates(Append(history[m], new))
  BY <1>2, AppendAlternates DEF History
<1>4. ASSUME NEW n \in Machines
      PROVE  /\ Alternates(history'[n])
             /\ status'[n] = IF history'[n] = <<>> THEN "unknown"
                             ELSE history'[n][Len(history'[n])]
  <2>1. CASE n = m
    BY <1>2, <1>3, <2>1 DEF HistoryTyped
  <2>2. CASE n # m
    BY <1>2, <2>2 DEF HistoryTyped, History
  <2> QED
    BY <2>1, <2>2
<1> QED
  BY <1>1, <1>4 DEF History

\* Every machine's history alternates and ends with the machine's status.
THEOREM HistoryInvariant == Spec => []History
<1>1. Init => HistoryTyped /\ History
  BY DEF Init, HistoryTyped, History, Alternates
<1>2. HistoryTyped /\ History /\ [Next]_vars => HistoryTyped' /\ History'
  <2> SUFFICES ASSUME HistoryTyped, History, [Next]_vars
               PROVE  HistoryTyped' /\ History'
    OBVIOUS
  <2>1. CASE UNCHANGED vars
    BY <2>1 DEF vars, HistoryTyped, History
  <2>2. ASSUME NEW m \in Machines, Connect(m)
        PROVE  HistoryTyped' /\ History'
    <3>1. CASE status[m] = "online"
      BY <2>2, <3>1 DEF Connect, HistoryTyped, History
    <3>2. CASE status[m] # "online"
      BY <2>2, <3>2, ChangeKeepsHistory DEF Connect
    <3> QED
      BY <3>1, <3>2
  <2>3. ASSUME NEW m \in Machines, Disconnect(m)
        PROVE  HistoryTyped' /\ History'
    BY <2>3, ChangeKeepsHistory DEF Disconnect
  <2> QED
    BY <2>1, <2>2, <2>3 DEF Next
<1> QED
  BY <1>1, <1>2, PTL DEF Spec

=============================================================================
