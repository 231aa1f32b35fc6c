-------------------------- MODULE EnrichBatchProofs --------------------------
(***************************************************************************)
(* What is paid for is neither lost nor paid for twice: the safety         *)
(* properties of EnrichBatch for any rows, batches, limits, and any number *)
(* of processes killed. That rows in flight wait is proved for a drain in  *)
(* which nothing raises between the provider's accept and the audit row.   *)
(* Then retrieval over what enrichment and mirroring wrote: the safety     *)
(* properties of Retrieval for any notes, externals, seeds, links and      *)
(* depths. The two components share no definition.                         *)
(***************************************************************************)
EXTENDS EnrichBatch, Retrieval, FiniteSetTheorems, SequenceTheorems,
        WellFoundedInduction, TLAPS

Open == {"pending", "running", "failed"}
Sending == {"claimed", "send", "sent", "audit"}
InFlight(i) == row[i].handle # None /\ batch[row[i].handle].state = "cooking"

\* A row that is not settled has attempts and failures left; the batch of a
\* row's handle was sent, and while it is in flight the claim is the drain's;
\* what is done, or is about to be, has its annotations.
Steady(i) ==
  /\ row[i].status \in Open =>
       row[i].attempts < MaxAttempts /\ row[i].fails < CollectBudget
  /\ row[i].handle # None => batch[row[i].handle].state # "unused"
  /\ ~LateFailures /\ InFlight(i) => owner[i] = "drain"
  /\ row[i].status = "done" \/ inline[i] = "wrote" => i \in enriched \cup gated

\* The rows the drain has in hand: what it sends it has claimed, and only an
\* inline run of long ago may have called it done since; what it applies is of
\* a batch that has ended; what it calls done it has written.
InHand ==
  /\ pc \in Sending => \A i \in picked :
       /\ owner[i] = "drain" /\ row[i].status \in {"running", "done"}
       /\ row[i].attempts < MaxAttempts /\ row[i].fails < CollectBudget
  /\ pc = "sent" => /\ cur \in Batches /\ batch[cur].state # "unused"
                    /\ batch[cur].of \subseteq picked
  /\ pc \in {"apply", "receipt"} =>
       /\ cur \in Batches /\ batch[cur].state = "ended"
       /\ \A i \in unread : row[i].handle = cur
  /\ pc = "receipt" => picked \subseteq enriched
  /\ pc = "wrote" => picked \subseteq enriched \cup gated

\* What the drain is about to send or to run is not in flight already.
NotTwice ==
  pc \in {"claimed", "send", "sent", "run"} => \A i \in picked : ~InFlight(i)

BatchInv ==
  /\ TypeOK /\ (\A i \in Rows : Steady(i)) /\ InHand
  /\ ~LateFailures => InFlightRowsWait /\ NotTwice

-----------------------------------------------------------------------------
(* Rows *)

LEMMA Numbers ==
  /\ MaxAttempts \in Nat \ {0} /\ CollectBudget \in Nat \ {0}
  /\ MaxRows \in Nat \ {0} /\ MaxBatches \in Nat \ {0}
  /\ None \notin Batches /\ Batches \subseteq Nat /\ Rows \subseteq Nat
  /\ MaxCrashes \in Nat
  BY EnrichBatchAssumption DEF None, Batches, Rows

\* The least of some rows is one of them.
LEMMA LeastRow ==
  ASSUME NEW S \in SUBSET Rows, S # {}
  PROVE  Min(S) \in S
<1>1. S \subseteq Nat
  BY Numbers
<1>2. PICK m \in S : \A k \in S : ~(<<k, m>> \in OpToRel(<, Nat))
  BY <1>1, NatLessThanWellFounded, WFMin
<1>3. \A k \in S : m =< k
  <2> SUFFICES ASSUME NEW k \in S, ~(m =< k) PROVE FALSE
    OBVIOUS
  <2>1. k < m /\ k \in Nat /\ m \in Nat
    BY <1>1
  <2> QED
    BY <2>1, <1>2 DEF OpToRel
<1> QED
  BY <1>2, <1>3 DEF Min

\* A charge leaves an attempt, or the row is dead.
LEMMA ChargeUpdate ==
  ASSUME NEW r \in Row, r.attempts < MaxAttempts, NEW q, q = Charge(r)
  PROVE  /\ q \in Row /\ q.status \in {"failed", "dead"}
         /\ q.status = "failed" => q.attempts < MaxAttempts
         /\ q.handle = r.handle /\ q.fails = r.fails
<1> DEFINE n == r.attempts + 1
<1>1. n \in 0..MaxAttempts
  BY Numbers DEF Row
<1>2. q = IF n >= MaxAttempts
          THEN [r EXCEPT !.status = "dead", !.attempts = n]
          ELSE [r EXCEPT !.status = "failed", !.attempts = n, !.ripe = FALSE]
  BY DEF Charge
<1>3. n >= MaxAttempts \/ n < MaxAttempts
  BY <1>1, Numbers
<1> HIDE DEF n
<1>4. CASE n >= MaxAttempts
  <2>1. q = [r EXCEPT !.status = "dead", !.attempts = n]
    BY <1>2, <1>4
  <2> QED
    BY <1>1, <2>1, Zenon DEF Row
<1>5. CASE ~(n >= MaxAttempts)
  <2>1. q = [r EXCEPT !.status = "failed", !.attempts = n, !.ripe = FALSE]
    BY <1>2, <1>5
  <2>2. n < MaxAttempts
    BY <1>3, <1>5
  <2> QED
    BY <1>1, <2>1, <2>2, Zenon DEF Row
<1> QED
  BY <1>4, <1>5

\* A claim, row by row.
LEMMA ClaimRows ==
  ASSUME TypeOK, NEW S, NEW who \in {"drain", "add"}, ClaimAll(S, who)
  PROVE  /\ row' \in [Rows -> Row]
         /\ owner' \in [Rows -> {"nobody", "drain", "add"}]
         /\ \A i \in Rows :
              /\ row'[i].attempts = row[i].attempts
              /\ row'[i].handle = row[i].handle /\ row'[i].fails = row[i].fails
              /\ row'[i].status = IF i \in S THEN "running" ELSE row[i].status
              /\ owner'[i] = IF i \in S THEN who ELSE owner[i]
<1>1. ASSUME NEW i \in Rows
      PROVE  /\ row'[i] \in Row
             /\ row'[i].attempts = row[i].attempts
             /\ row'[i].handle = row[i].handle /\ row'[i].fails = row[i].fails
             /\ row'[i].status = IF i \in S THEN "running" ELSE row[i].status
  <2>1. row[i] \in Row
    BY DEF TypeOK
  <2>2. CASE i \in S
    <3>1. row'[i] = [row[i] EXCEPT !.status = "running", !.ripe = FALSE]
      BY <2>2 DEF ClaimAll
    <3>2. /\ row'[i] \in Row /\ row'[i].status = "running"
          /\ row'[i].attempts = row[i].attempts
          /\ row'[i].handle = row[i].handle /\ row'[i].fails = row[i].fails
      BY <2>1, <3>1, Zenon DEF Row
    <3> QED
      BY <2>2, <3>2
  <2>3. CASE i \notin S
    BY <2>1, <2>3 DEF ClaimAll
  <2> QED
    BY <2>2, <2>3
<1>2. row' \in [Rows -> Row]
  BY <1>1, Zenon DEF ClaimAll
<1>3. /\ owner' \in [Rows -> {"nobody", "drain", "add"}]
      /\ \A i \in Rows : owner'[i] = IF i \in S THEN who ELSE owner[i]
  BY DEF ClaimAll, TypeOK
<1> QED
  BY <1>1, <1>2, <1>3

\* A new status, row by row.
LEMMA StatusRows ==
  ASSUME TypeOK, NEW S,
         NEW s \in {"pending", "running", "failed", "done", "dead"},
         SetStatus(S, s)
  PROVE  /\ row' \in [Rows -> Row]
         /\ \A i \in Rows :
              /\ row'[i].attempts = row[i].attempts
              /\ row'[i].handle = row[i].handle /\ row'[i].fails = row[i].fails
              /\ row'[i].status = IF i \in S THEN s ELSE row[i].status
<1>1. ASSUME NEW i \in Rows
      PROVE  /\ row'[i] \in Row
             /\ row'[i].attempts = row[i].attempts
             /\ row'[i].handle = row[i].handle /\ row'[i].fails = row[i].fails
             /\ row'[i].status = IF i \in S THEN s ELSE row[i].status
  <2>1. row[i] \in Row
    BY DEF TypeOK
  <2>2. CASE i \in S
    <3>1. row'[i] = [row[i] EXCEPT !.status = s]
      BY <2>2 DEF SetStatus
    <3>2. /\ row'[i] \in Row /\ row'[i].status = s
          /\ row'[i].attempts = row[i].attempts
          /\ row'[i].handle = row[i].handle /\ row'[i].fails = row[i].fails
      BY <2>1, <3>1, Zenon DEF Row
    <3> QED
      BY <2>2, <3>2
  <2>3. CASE i \notin S
    BY <2>1, <2>3 DEF SetStatus
  <2> QED
    BY <2>2, <2>3
<1>2. row' \in [Rows -> Row]
  BY <1>1, Zenon DEF SetStatus
<1> QED
  BY <1>1, <1>2

-----------------------------------------------------------------------------
(* What the actions have in common *)

\* What most steps do to a row at most: its handle and its count stay, it is
\* not revived, and if its batch is with the provider it is not put back.
Gentle(i) ==
  /\ row'[i].handle = row[i].handle /\ row'[i].fails = row[i].fails
  /\ row'[i].status \in Open =>
       row[i].status \in Open /\ row'[i].attempts < MaxAttempts
  /\ ~LateFailures /\ InFlight(i) => owner'[i] \in {owner[i], "drain"}
  /\ row'[i].status = "done" => row[i].status = "done" \/ i \in enriched \cup gated
  /\ inline'[i] = "wrote" => inline[i] = "wrote"
  /\ ~LateFailures /\ InFlight(i) =>
       row'[i].status \in {row[i].status, "running", "done"}

LEMMA GentleSteps ==
  ASSUME TypeOK, \A i \in Rows : Steady(i), \A i \in Rows : Gentle(i),
         UNCHANGED <<batch, enriched, gated>>
  PROVE  /\ \A i \in Rows : Steady(i)'
         /\ ~LateFailures /\ InFlightRowsWait => InFlightRowsWait'
<1>1. ASSUME NEW i \in Rows PROVE Steady(i)'
  <2>1. Steady(i) /\ Gentle(i)
    OBVIOUS
  <2>2. InFlight(i)' <=> InFlight(i)
    BY <2>1 DEF Gentle, InFlight
  <2> QED
    BY <2>1, <2>2 DEF Steady, Gentle
<1>2. ASSUME ~LateFailures, InFlightRowsWait, NEW i \in Rows, NEW b \in Batches,
             row'[i].handle = b, batch'[b].state = "cooking"
      PROVE  \/ row'[i].status \in {"running", "done"}
             \/ /\ row'[i].status = "dead"
                /\ \E j \in Rows : row'[j].handle = b /\ row'[j].fails = CollectBudget
  <2>1. row[i].handle = b /\ batch[b].state = "cooking"
    BY <1>2 DEF Gentle
  <2>2. InFlight(i)
    BY <2>1, Numbers DEF InFlight
  <2>3. row'[i].status \in {row[i].status, "running", "done"}
    BY <1>2, <2>2 DEF Gentle
  <2>4. CASE row[i].status \in {"running", "done"}
    BY <2>3, <2>4
  <2>5. CASE /\ row[i].status = "dead"
             /\ \E j \in Rows : row[j].handle = b /\ row[j].fails = CollectBudget
    <3>1. \E j \in Rows : row'[j].handle = b /\ row'[j].fails = CollectBudget
      BY <2>5 DEF Gentle
    <3> QED
      BY <2>3, <2>5, <3>1
  <2> QED
    BY <1>2, <2>1, <2>4, <2>5 DEF InFlightRowsWait
<1> QED
  BY <1>1, <1>2 DEF InFlightRowsWait

\* Steps that leave the rows alone.
LEMMA RowsSame ==
  ASSUME TypeOK, \A i \in Rows : Steady(i), UNCHANGED <<row, owner>>,
         enriched \cup gated \subseteq enriched' \cup gated',
         \A i \in Rows : inline'[i] = "wrote" =>
                           inline[i] = "wrote" \/ i \in enriched' \cup gated',
         \A b \in Batches :
           /\ batch[b].state # "unused" => batch'[b].state # "unused"
           /\ batch'[b].state = "cooking" => batch[b].state \in {"cooking", "unused"}
  PROVE  /\ \A i \in Rows : Steady(i)'
         /\ InFlightRowsWait => InFlightRowsWait'
<1>1. ASSUME NEW i \in Rows PROVE Steady(i)'
  <2>1. Steady(i)
    OBVIOUS
  <2>2. row[i].handle # None => row[i].handle \in Batches
    BY DEF TypeOK, Row
  <2>3. InFlight(i)' => InFlight(i)
    BY <2>1, <2>2 DEF Steady, InFlight
  <2> QED
    BY <2>1, <2>2, <2>3 DEF Steady
<1>2. ASSUME InFlightRowsWait, NEW i \in Rows, NEW b \in Batches,
             row[i].handle = b, batch'[b].state = "cooking"
      PROVE  batch[b].state = "cooking"
  <2>1. batch[b].state # "unused"
    <3>1. Steady(i) /\ b # None
      BY Numbers
    <3> QED
      BY <1>2, <3>1 DEF Steady
  <2> QED
    BY <1>2, <2>1
<1> QED
  BY <1>1, <1>2 DEF InFlightRowsWait

\* What the drain has in hand is not lost to the steps of anyone else.
LEMMA HandKept ==
  ASSUME TypeOK, InHand,
         pc' = pc, cur' = cur, unread' = unread, picked' = picked,
         enriched \cup gated \subseteq enriched' \cup gated', enriched \subseteq enriched',
         \A i \in Rows :
           /\ row'[i].handle = row[i].handle /\ row'[i].fails = row[i].fails
           /\ owner[i] = "drain" /\ row[i].status \in {"running", "done"} =>
                /\ owner'[i] = "drain" /\ row'[i].status \in {"running", "done"}
                /\ row'[i].attempts = row[i].attempts,
         \A b \in Batches :
           /\ batch'[b].of = batch[b].of
           /\ \/ batch'[b].state = batch[b].state
              \/ batch[b].state = "cooking" /\ batch'[b].state = "ended"
  PROVE  InHand' /\ (NotTwice => NotTwice')
<1>1. picked \subseteq Rows /\ unread \subseteq Rows
  BY DEF TypeOK
<1>2. pc' = pc /\ picked' = picked /\ cur' = cur /\ unread' = unread
  OBVIOUS
<1>3. pc' \in Sending => \A i \in picked' :
        /\ owner'[i] = "drain" /\ row'[i].status \in {"running", "done"}
        /\ row'[i].attempts < MaxAttempts /\ row'[i].fails < CollectBudget
  BY <1>1, <1>2 DEF InHand
<1>4. pc' = "sent" => /\ cur' \in Batches /\ batch'[cur'].state # "unused"
                      /\ batch'[cur'].of \subseteq picked'
  BY <1>2 DEF InHand
<1>5. pc' \in {"apply", "receipt"} =>
        /\ cur' \in Batches /\ batch'[cur'].state = "ended"
        /\ \A i \in unread' : row'[i].handle = cur'
  BY <1>1, <1>2 DEF InHand
<1>6. /\ pc' = "receipt" => picked' \subseteq enriched'
      /\ pc' = "wrote" => picked' \subseteq enriched' \cup gated'
  BY <1>2 DEF InHand
<1>7. ASSUME NotTwice PROVE NotTwice'
  <2>1. ASSUME NEW i \in Rows, ~InFlight(i) PROVE ~InFlight(i)'
    <3>1. row[i].handle = None \/ row[i].handle \in Batches
      BY DEF TypeOK, Row
    <3> QED
      BY <2>1, <3>1 DEF InFlight
  <2> QED
    BY <1>1, <1>2, <1>7, <2>1 DEF NotTwice
<1> QED
  BY <1>3, <1>4, <1>5, <1>6, <1>7 DEF InHand

\* The rows a batch has in flight are not pending.
LEMMA PendingIsNotInFlight ==
  ASSUME TypeOK, InFlightRowsWait, NEW i \in Rows,
         row[i].status \in {"pending", "failed"}
  PROVE  ~InFlight(i)
<1>1. row[i].handle = None \/ row[i].handle \in Batches
  BY DEF TypeOK, Row
<1> QED
  BY <1>1 DEF InFlightRowsWait, InFlight

-----------------------------------------------------------------------------
(* The inline runs, and the world *)

LEMMA InitBatchInv == Init => BatchInv
<1> SUFFICES ASSUME Init PROVE BatchInv
  OBVIOUS
<1>1. TypeOK
  <2>1. [status |-> "pending", attempts |-> 0, handle |-> None, fails |-> 0,
         ripe |-> FALSE] \in Row
    BY Numbers DEF Row
  <2> QED
    BY <2>1, Numbers DEF Init, TypeOK
<1>2. ASSUME NEW i \in Rows PROVE Steady(i)
  BY Numbers DEF Init, Steady, InFlight
<1>3. InHand /\ NotTwice
  BY DEF Init, InHand, NotTwice, Sending
<1>4. InFlightRowsWait
  BY Numbers DEF Init, InFlightRowsWait
<1> QED
  BY <1>1, <1>2, <1>3, <1>4 DEF BatchInv

LEMMA AddClaimsKeeps ==
  ASSUME BatchInv, NEW a \in Rows, AddClaims(a) PROVE BatchInv'
<1> USE DEF AddClaims, local
<1>1. TypeOK /\ (\A i \in Rows : Steady(i)) /\ InHand
      /\ (~LateFailures => InFlightRowsWait /\ NotTwice)
  BY DEF BatchInv
<1>2. /\ row' \in [Rows -> Row]
      /\ owner' \in [Rows -> {"nobody", "drain", "add"}]
      /\ \A i \in Rows :
           /\ row'[i].attempts = row[i].attempts
           /\ row'[i].handle = row[i].handle /\ row'[i].fails = row[i].fails
           /\ row'[i].status = IF i \in {a} THEN "running" ELSE row[i].status
           /\ owner'[i] = IF i \in {a} THEN "add" ELSE owner[i]
  <2>1. ClaimAll({a}, "add") /\ "add" \in {"drain", "add"}
    OBVIOUS
  <2> QED
    BY <1>1, <2>1, ClaimRows
<1>3. row[a].status = "pending" /\ (~LateFailures => ~InFlight(a))
  BY <1>1, PendingIsNotInFlight
<1>4. TypeOK'
  BY <1>1, <1>2 DEF TypeOK
<1>5. ASSUME NEW i \in Rows PROVE Gentle(i)
  <2>1. inline'[i] = "wrote" => inline[i] = "wrote"
    BY <1>1 DEF TypeOK
  <2>2. Steady(i)
    BY <1>1
  <2> QED
    BY <1>2, <1>3, <2>1, <2>2 DEF Gentle, Steady, Open
<1>6. (\A i \in Rows : Steady(i)') /\ (~LateFailures => InFlightRowsWait')
  BY <1>1, <1>5, GentleSteps
<1>7. InHand' /\ (NotTwice => NotTwice')
  <2>1. \A i \in Rows :
          /\ row'[i].handle = row[i].handle /\ row'[i].fails = row[i].fails
          /\ owner[i] = "drain" /\ row[i].status \in {"running", "done"} =>
               /\ owner'[i] = "drain" /\ row'[i].status \in {"running", "done"}
               /\ row'[i].attempts = row[i].attempts
    BY <1>2, <1>3
  <2> QED
    BY <1>1, <2>1, HandKept
<1> QED
  BY <1>1, <1>4, <1>6, <1>7 DEF BatchInv

LEMMA AddSucceedsKeeps ==
  ASSUME BatchInv, NEW a \in Rows, AddSucceeds(a) PROVE BatchInv'
<1> USE DEF AddSucceeds, local
<1>1. TypeOK /\ (\A i \in Rows : Steady(i)) /\ InHand
      /\ (~LateFailures => InFlightRowsWait /\ NotTwice)
  BY DEF BatchInv
<1>2. /\ row' \in [Rows -> Row]
      /\ \A i \in Rows :
           /\ row'[i].attempts = row[i].attempts
           /\ row'[i].handle = row[i].handle /\ row'[i].fails = row[i].fails
           /\ row'[i].status = IF i \in {a} THEN "done" ELSE row[i].status
  BY <1>1, StatusRows
<1>3. a \in enriched \cup gated
  BY <1>1 DEF Steady
<1>4. TypeOK'
  BY <1>1, <1>2 DEF TypeOK
<1>5. ASSUME NEW i \in Rows PROVE Gentle(i)
  <2>1. inline'[i] = "wrote" => inline[i] = "wrote"
    BY <1>1 DEF TypeOK
  <2>2. Steady(i)
    BY <1>1
  <2> QED
    BY <1>2, <1>3, <2>1, <2>2 DEF Gentle, Steady, Open
<1>6. (\A i \in Rows : Steady(i)') /\ (~LateFailures => InFlightRowsWait')
  BY <1>1, <1>5, GentleSteps
<1>7. InHand' /\ (NotTwice => NotTwice')
  BY <1>1, <1>2, HandKept
<1> QED
  BY <1>1, <1>4, <1>6, <1>7 DEF BatchInv

\* A failed or undone inline run charges or puts back only its own claim.
LEMMA AddFailsKeeps ==
  ASSUME BatchInv, NEW a \in Rows, AddFails(a) \/ AddAuth(a) PROVE BatchInv'
<1> USE DEF local
<1>1. TypeOK /\ (\A i \in Rows : Steady(i)) /\ InHand
      /\ (~LateFailures => InFlightRowsWait /\ NotTwice)
  BY DEF BatchInv
<1>2. UNCHANGED <<owner, batch, gated, enriched, pc, local, embed, keyed, crashes>>
      /\ inline' = [inline EXCEPT ![a] = "over"]
  BY DEF AddFails, AddAuth
<1>3. /\ row' \in [Rows -> Row]
      /\ \A i \in Rows :
           /\ row'[i].handle = row[i].handle /\ row'[i].fails = row[i].fails
           /\ row'[i] = row[i]
              \/ /\ i = a /\ row[a].status = "running" /\ owner[a] = "add"
                 /\ row'[a].status \in {"pending", "failed", "dead"}
                 /\ row'[a].status # "dead" => row'[a].attempts < MaxAttempts
  <2>1. CASE AddFails(a)
    <3>1. CASE row[a].status = "running" /\ owner[a] = "add"
      <4>1. row' = [row EXCEPT ![a] = Charge(row[a])]
        BY <2>1, <3>1 DEF AddFails
      <4>2. row[a] \in Row /\ row[a].attempts < MaxAttempts
        BY <1>1, <3>1 DEF TypeOK, Steady, Open
      <4>3. /\ Charge(row[a]) \in Row
            /\ Charge(row[a]).status \in {"failed", "dead"}
            /\ Charge(row[a]).status = "failed" => Charge(row[a]).attempts < MaxAttempts
            /\ Charge(row[a]).handle = row[a].handle
            /\ Charge(row[a]).fails = row[a].fails
        BY <4>2, ChargeUpdate
      <4> QED
        BY <1>1, <3>1, <4>1, <4>3 DEF TypeOK
    <3>2. CASE ~(row[a].status = "running" /\ owner[a] = "add")
      BY <1>1, <2>1, <3>2 DEF AddFails, TypeOK
    <3> QED
      BY <3>1, <3>2
  <2>2. CASE AddAuth(a)
    <3> DEFINE S == {j \in {a} : row[j].status = "running" /\ owner[j] = "add"}
    <3>1. /\ row' \in [Rows -> Row]
          /\ \A i \in Rows :
               /\ row'[i].attempts = row[i].attempts
               /\ row'[i].handle = row[i].handle /\ row'[i].fails = row[i].fails
               /\ row'[i].status = IF i \in S THEN "pending" ELSE row[i].status
      BY <1>1, <2>2, StatusRows DEF AddAuth
    <3>2. \A i \in Rows \ S : row'[i] = row[i]
      BY <2>2 DEF AddAuth, SetStatus
    <3>3. \A i \in S : i = a /\ row[i].status = "running" /\ row[i].attempts < MaxAttempts
                       /\ owner[i] = "add"
      BY <1>1 DEF Steady, Open
    <3> QED
      BY <3>1, <3>2, <3>3
  <2> QED
    BY <2>1, <2>2
<1>4. TypeOK'
  BY <1>1, <1>2, <1>3 DEF TypeOK
<1>5. ~LateFailures /\ owner[a] = "add" => ~InFlight(a)
  BY <1>1 DEF Steady
<1>6. ASSUME NEW i \in Rows PROVE Gentle(i)
  <2>1. inline'[i] = "wrote" => inline[i] = "wrote"
    BY <1>1, <1>2 DEF TypeOK
  <2>2. Steady(i) /\ (~LateFailures /\ i = a /\ owner[a] = "add" => ~InFlight(i))
    BY <1>1, <1>5
  <2>3. CASE row'[i] = row[i]
    BY <1>2, <2>1, <2>2, <2>3 DEF Gentle, Steady
  <2>4. CASE row'[i] # row[i]
    BY <1>2, <1>3, <2>1, <2>2, <2>4 DEF Gentle, Open
  <2> QED
    BY <2>3, <2>4
<1>7. (\A i \in Rows : Steady(i)') /\ (~LateFailures => InFlightRowsWait')
  BY <1>1, <1>2, <1>6, GentleSteps
<1>8. InHand' /\ (NotTwice => NotTwice')
  <2>1. \A i \in Rows :
          /\ row'[i].handle = row[i].handle /\ row'[i].fails = row[i].fails
          /\ owner[i] = "drain" /\ row[i].status \in {"running", "done"} =>
               /\ owner'[i] = "drain" /\ row'[i].status \in {"running", "done"}
               /\ row'[i].attempts = row[i].attempts
    BY <1>2, <1>3
  <2> QED
    BY <1>1, <1>2, <2>1, HandKept
<1> QED
  BY <1>1, <1>4, <1>7, <1>8 DEF BatchInv

LEMMA RipenKeeps ==
  ASSUME BatchInv, NEW a \in Rows, Ripen(a) PROVE BatchInv'
<1> USE DEF Ripen, local, world
<1>1. TypeOK /\ (\A i \in Rows : Steady(i)) /\ InHand
      /\ (~LateFailures => InFlightRowsWait /\ NotTwice)
  BY DEF BatchInv
<1>2. row[a] \in Row /\ row' = [row EXCEPT ![a] = [row[a] EXCEPT !.ripe = TRUE]]
  BY <1>1 DEF TypeOK
<1> DEFINE r == [row[a] EXCEPT !.ripe = TRUE]
<1>3. /\ r \in Row /\ r.status = row[a].status /\ r.attempts = row[a].attempts
      /\ r.handle = row[a].handle /\ r.fails = row[a].fails
  BY <1>2, Zenon DEF Row
<1>4. row' = [row EXCEPT ![a] = r]
  BY <1>2
<1> HIDE DEF r
<1>5. /\ row' \in [Rows -> Row]
      /\ \A i \in Rows :
           /\ row'[i].status = row[i].status /\ row'[i].attempts = row[i].attempts
           /\ row'[i].handle = row[i].handle /\ row'[i].fails = row[i].fails
  <2>1. row \in [Rows -> Row]
    BY <1>1 DEF TypeOK
  <2>2. /\ row' \in [Rows -> Row]
        /\ \A i \in Rows : row'[i] = IF i = a THEN r ELSE row[i]
    BY <1>3, <1>4, <2>1
  <2> QED
    BY <1>3, <2>2
<1>6. TypeOK'
  BY <1>1, <1>5 DEF TypeOK
<1>7. ASSUME NEW i \in Rows PROVE Gentle(i)
  <2>1. Steady(i)
    BY <1>1
  <2> QED
    BY <1>5, <2>1 DEF Gentle, Steady
<1>8. (\A i \in Rows : Steady(i)') /\ (~LateFailures => InFlightRowsWait')
  BY <1>1, <1>7, GentleSteps
<1>9. InHand' /\ (NotTwice => NotTwice')
  BY <1>1, <1>5, HandKept
<1> QED
  BY <1>1, <1>6, <1>8, <1>9 DEF BatchInv

\* The steps of the inline runs and of the world that leave the rows alone.
LEMMA WorldKeeps ==
  ASSUME BatchInv, NEW a \in Rows, NEW c \in Batches,
         AddWrites(a) \/ AddGone(a) \/ BatchEnds(c) \/ EnqueueEmbed \/ ChangeKey
           \/ Gate(a) \/ RunEmbed
  PROVE  BatchInv'
<1> USE DEF local, world
<1>1. TypeOK /\ (\A i \in Rows : Steady(i)) /\ InHand
      /\ (~LateFailures => InFlightRowsWait /\ NotTwice)
  BY DEF BatchInv
<1>2. /\ UNCHANGED <<row, owner, pc, local>>
      /\ enriched \subseteq enriched' /\ gated \subseteq gated'
  BY DEF AddWrites, AddGone, BatchEnds, EnqueueEmbed, ChangeKey, Gate, RunEmbed
<1>3. /\ inline' \in [Rows -> {"due", "running", "wrote", "over"}]
      /\ enriched' \subseteq Rows /\ gated' \subseteq Rows
      /\ embed' \in BOOLEAN /\ keyed' \in BOOLEAN /\ crashes' \in 0..MaxCrashes
  <2>1. \/ crashes' = crashes
        \/ crashes < MaxCrashes /\ crashes' = crashes + 1
    BY DEF AddWrites, AddGone, BatchEnds, EnqueueEmbed, ChangeKey, Gate, RunEmbed
  <2>2. crashes' \in 0..MaxCrashes
    BY <1>1, <2>1, Numbers DEF TypeOK
  <2>3. Gateable \subseteq Rows
    BY EnrichBatchAssumption DEF Rows
  <2>4. inline' \in [Rows -> {"due", "running", "wrote", "over"}]
    <3>1. inline \in [Rows -> {"due", "running", "wrote", "over"}]
      BY <1>1 DEF TypeOK
    <3>2. \/ inline' = inline
          \/ \E v \in {"wrote", "over"} : inline' = [inline EXCEPT ![a] = v]
      BY DEF AddWrites, AddGone, BatchEnds, EnqueueEmbed, ChangeKey, Gate, RunEmbed
    <3> QED
      BY <3>1, <3>2
  <2>5. enriched' \subseteq Rows /\ gated' \subseteq Rows
    BY <1>1, <2>3 DEF TypeOK, AddWrites, AddGone, BatchEnds, EnqueueEmbed,
                      ChangeKey, Gate, RunEmbed
  <2>6. embed' \in BOOLEAN /\ keyed' \in BOOLEAN
    BY <1>1, Zenon DEF TypeOK, AddWrites, AddGone, BatchEnds, EnqueueEmbed,
                       ChangeKey, Gate, RunEmbed
  <2> QED
    BY <2>2, <2>4, <2>5, <2>6
<1>4. \A i \in Rows : inline'[i] = "wrote" =>
                        inline[i] = "wrote" \/ i \in enriched' \cup gated'
  BY <1>1 DEF TypeOK, AddWrites, AddGone, BatchEnds, EnqueueEmbed, ChangeKey,
              Gate, RunEmbed
<1>5. /\ batch' \in [Batches -> [state : {"unused", "cooking", "ended"},
                                 of : SUBSET Rows, good : SUBSET Rows]]
      /\ \A b \in Batches :
           /\ batch'[b].of = batch[b].of
           /\ \/ batch'[b].state = batch[b].state
              \/ batch[b].state = "cooking" /\ batch'[b].state = "ended"
  <2>1. CASE batch' = batch
    BY <1>1, <2>1, Zenon DEF TypeOK
  <2>2. CASE BatchEnds(c)
    <3>1. PICK good \in SUBSET batch[c].of :
            batch' = [batch EXCEPT
              ![c] = [batch[c] EXCEPT !.state = "ended", !.good = good]]
      BY <2>2 DEF BatchEnds
    <3> DEFINE d == [batch[c] EXCEPT !.state = "ended", !.good = good]
    <3>2. batch[c] \in [state : {"unused", "cooking", "ended"},
                        of : SUBSET Rows, good : SUBSET Rows]
      BY <1>1 DEF TypeOK
    <3>3. good \in SUBSET Rows
      BY <3>2
    <3>4. /\ d \in [state : {"unused", "cooking", "ended"},
                    of : SUBSET Rows, good : SUBSET Rows]
          /\ d.of = batch[c].of /\ d.state = "ended"
      BY <3>2, <3>3, Zenon
    <3>5. batch' = [batch EXCEPT ![c] = d] /\ batch[c].state = "cooking"
      BY <2>2, <3>1 DEF BatchEnds
    <3> HIDE DEF d
    <3> QED
      BY <1>1, <3>4, <3>5 DEF TypeOK
  <2> QED
    BY <2>1, <2>2 DEF AddWrites, AddGone, EnqueueEmbed, ChangeKey, Gate, RunEmbed
<1>6. TypeOK'
  BY <1>1, <1>2, <1>3, <1>5 DEF TypeOK
<1>7. (\A i \in Rows : Steady(i)') /\ (InFlightRowsWait => InFlightRowsWait')
  <2>1. \A b \in Batches :
          /\ batch[b].state # "unused" => batch'[b].state # "unused"
          /\ batch'[b].state = "cooking" => batch[b].state \in {"cooking", "unused"}
    BY <1>5
  <2> QED
    BY <1>1, <1>2, <1>4, <2>1, RowsSame
<1>8. InHand' /\ (NotTwice => NotTwice')
  BY <1>1, <1>2, <1>5, HandKept
<1> QED
  BY <1>1, <1>6, <1>7, <1>8 DEF BatchInv

-----------------------------------------------------------------------------
(* The drain *)

\* A drain that has nothing in hand.
LEMMA EmptyHands ==
  ASSUME pc' \in {"idle", "collect", "submit", "selected", "reclaim", "reset", "loop"}
  PROVE  InHand' /\ NotTwice'
  BY DEF InHand, NotTwice, Sending

\* The steps that only move the drain on.
LEMMA MovesKeep ==
  ASSUME BatchInv,
         StartDrain \/ CollectAuth \/ CollectEnds \/ SubmitSelects \/ SubmitEscapes
           \/ Audit \/ DrainEnds \/ Crash
  PROVE  BatchInv'
<1> USE DEF local, world
<1>1. TypeOK /\ (\A i \in Rows : Steady(i)) /\ InHand
      /\ (~LateFailures => InFlightRowsWait /\ NotTwice)
  BY DEF BatchInv
<1>2. /\ UNCHANGED <<row, owner, inline, batch, embed, keyed, gated, enriched>>
      /\ pc' \in {"idle", "collect", "submit", "selected", "reclaim"}
  BY DEF StartDrain, CollectAuth, CollectEnds, SubmitSelects, SubmitEscapes,
         Audit, DrainEnds, Crash
<1>3. /\ todo' \subseteq Batches /\ cur' \in {None} \cup Batches
      /\ unread' \subseteq Rows /\ picked' \subseteq Rows
  <2>1. {row[i].handle : i \in {j \in Rows : row[j].status = "running"}} \ {None}
          \subseteq Batches
    BY <1>1 DEF TypeOK, Row
  <2>2. {i \in Pending : Cardinality({j \in Pending : j < i}) < FlushSize}
          \subseteq Rows
    BY DEF Pending
  <2>3. todo' \subseteq Batches
    BY <1>1, <2>1 DEF TypeOK, StartDrain, CollectAuth, CollectEnds, SubmitSelects,
                      SubmitEscapes, Audit, DrainEnds, Crash
  <2>4. picked' \subseteq Rows
    BY <1>1, <2>2 DEF TypeOK, StartDrain, CollectAuth, CollectEnds, SubmitSelects,
                      SubmitEscapes, Audit, DrainEnds, Crash
  <2>5. cur' \in {None} \cup Batches /\ unread' \subseteq Rows
    BY <1>1 DEF TypeOK, StartDrain, CollectAuth, CollectEnds, SubmitSelects,
                SubmitEscapes, Audit, DrainEnds, Crash
  <2> QED
    BY <2>3, <2>4, <2>5
<1>4. crashes' \in 0..MaxCrashes
  <2>1. \/ crashes' = crashes
        \/ crashes < MaxCrashes /\ crashes' = crashes + 1
    BY DEF StartDrain, CollectAuth, CollectEnds, SubmitSelects, SubmitEscapes,
           Audit, DrainEnds, Crash
  <2> QED
    BY <1>1, <2>1, Numbers DEF TypeOK
<1>5. TypeOK'
  BY <1>1, <1>2, <1>3, <1>4 DEF TypeOK
<1>6. (\A i \in Rows : Steady(i)') /\ (InFlightRowsWait => InFlightRowsWait')
  BY <1>1, <1>2, RowsSame
<1>7. InHand' /\ NotTwice'
  BY <1>2, EmptyHands
<1> QED
  BY <1>1, <1>5, <1>6, <1>7 DEF BatchInv

\* The results it starts to read are of rows that carry the handle.
LEMMA PollEndedKeeps ==
  ASSUME BatchInv, NEW b \in Batches, PollEnded(b) PROVE BatchInv'
<1> USE DEF PollEnded, world
<1>1. TypeOK /\ (\A i \in Rows : Steady(i)) /\ InHand
      /\ (~LateFailures => InFlightRowsWait /\ NotTwice)
  BY DEF BatchInv
<1>2. RunningOn(b) \subseteq Rows /\ \A i \in RunningOn(b) : row[i].handle = b
  BY DEF RunningOn
<1>3. TypeOK'
  BY <1>1, <1>2 DEF TypeOK
<1>4. (\A i \in Rows : Steady(i)') /\ (InFlightRowsWait => InFlightRowsWait')
  BY <1>1, RowsSame
<1>5. InHand' /\ NotTwice'
  BY <1>2 DEF InHand, NotTwice, Sending
<1> QED
  BY <1>1, <1>3, <1>4, <1>5 DEF BatchInv

\* What is enriched stays enriched, and the receipt is for what was written.
LEMMA WritesKeep ==
  ASSUME BatchInv, NEW a \in Rows, ApplySuccess(a) \/ RunWrites PROVE BatchInv'
<1> USE DEF world, local
<1>1. TypeOK /\ (\A i \in Rows : Steady(i)) /\ InHand
      /\ (~LateFailures => InFlightRowsWait /\ NotTwice)
  BY DEF BatchInv
<1>2. /\ UNCHANGED <<row, owner, inline, batch, embed, keyed, gated, crashes,
                      todo, cur, unread>>
      /\ enriched \subseteq enriched'
  BY DEF ApplySuccess, RunWrites
<1>3. \/ pc = "apply" /\ pc' = "receipt" /\ picked' \subseteq enriched'
      \/ pc' = "wrote" /\ picked' \subseteq enriched' \cup gated'
  BY <1>2 DEF ApplySuccess, RunWrites
<1>4. enriched' \subseteq Rows /\ picked' \subseteq Rows
  BY <1>1 DEF TypeOK, ApplySuccess, RunWrites
<1>5. TypeOK'
  BY <1>1, <1>2, <1>3, <1>4 DEF TypeOK
<1>6. (\A i \in Rows : Steady(i)') /\ (InFlightRowsWait => InFlightRowsWait')
  <2>1. enriched \cup gated \subseteq enriched' \cup gated'
    BY <1>2
  <2> QED
    BY <1>1, <1>2, <2>1, RowsSame
<1>7. InHand' /\ NotTwice'
  <2>1. CASE pc' = "receipt"
    BY <1>1, <1>2, <1>3, <2>1 DEF InHand, NotTwice, Sending
  <2>2. CASE pc' = "wrote"
    BY <1>3, <2>2 DEF InHand, NotTwice, Sending
  <2> QED
    BY <1>3, <2>1, <2>2
<1> QED
  BY <1>1, <1>5, <1>6, <1>7 DEF BatchInv

\* The new batch is one that no row has had.
LEMMA SendKeeps ==
  ASSUME BatchInv, Send PROVE BatchInv'
<1> USE DEF Send, world
<1>1. TypeOK /\ (\A i \in Rows : Steady(i)) /\ InHand
      /\ (~LateFailures => InFlightRowsWait /\ NotTwice)
  BY DEF BatchInv
<1>2. PICK b \in Batches :
        /\ batch[b].state = "unused"
        /\ batch' = [batch EXCEPT
             ![b] = [state |-> "cooking", of |-> picked, good |-> {}]]
        /\ cur' = b
  OBVIOUS
<1> DEFINE d == [state |-> "cooking", of |-> picked, good |-> {}]
<1>3. /\ d \in [state : {"unused", "cooking", "ended"},
                of : SUBSET Rows, good : SUBSET Rows]
      /\ d.state = "cooking" /\ d.of \subseteq picked
  BY <1>1 DEF TypeOK
<1>4. batch' = [batch EXCEPT ![b] = d]
  BY <1>2
<1> HIDE DEF d
<1>5. /\ batch' \in [Batches -> [state : {"unused", "cooking", "ended"},
                                 of : SUBSET Rows, good : SUBSET Rows]]
      /\ batch'[b] = d /\ \A c \in Batches \ {b} : batch'[c] = batch[c]
  BY <1>1, <1>3, <1>4, SMTT(30) DEF TypeOK
<1>6. TypeOK'
  BY <1>1, <1>2, <1>5 DEF TypeOK
<1>7. (\A i \in Rows : Steady(i)') /\ (InFlightRowsWait => InFlightRowsWait')
  <2>1. \A c \in Batches :
          /\ batch[c].state # "unused" => batch'[c].state # "unused"
          /\ batch'[c].state = "cooking" => batch[c].state \in {"cooking", "unused"}
    BY <1>2, <1>3, <1>5
  <2> QED
    BY <1>1, <2>1, RowsSame
<1>8. InHand'
  BY <1>1, <1>2, <1>3, <1>5 DEF InHand, Sending
<1>9. NotTwice => NotTwice'
  <2> SUFFICES ASSUME NotTwice, NEW i \in picked PROVE ~InFlight(i)'
    BY DEF NotTwice
  <2>1. i \in Rows /\ Steady(i) /\ ~InFlight(i)
    BY <1>1 DEF TypeOK, NotTwice
  <2>2. row[i].handle = None \/ row[i].handle \in Batches
    BY <2>1, <1>1 DEF TypeOK, Row
  <2>3. row[i].handle # None => row[i].handle # b
    BY <1>2, <2>1 DEF Steady
  <2> QED
    BY <1>5, <2>1, <2>2, <2>3 DEF InFlight
<1> QED
  BY <1>1, <1>6, <1>7, <1>8, <1>9 DEF BatchInv

\* A poll that answers takes the count off running rows, which are not at the
\* budget; one that raises adds to it, and kills only with one at the budget.
LEMMA PollKeeps ==
  ASSUME BatchInv, NEW b \in Batches,
         PollPending(b) \/ PollRaises(b) \/ (AllApplied /\ b = cur)
  PROVE  BatchInv'
<1> USE DEF world
<1>1. TypeOK /\ (\A i \in Rows : Steady(i)) /\ InHand
      /\ (~LateFailures => InFlightRowsWait /\ NotTwice)
  BY DEF BatchInv
<1> DEFINE R == RunningOn(b)
<1>2. /\ UNCHANGED <<owner, batch, inline, embed, keyed, gated, enriched, crashes>>
      /\ todo' = todo \ {b} /\ pc' = "collect"
      /\ cur' \in {cur, None} /\ unread' \subseteq unread /\ picked' \subseteq picked
  BY DEF PollPending, PollRaises, AllApplied, PollAnswered, PollRaised
<1>3. R \subseteq Rows /\ \A i \in R : row[i].status = "running" /\ row[i].handle = b
  BY DEF RunningOn
<1>4. PICK raised \in BOOLEAN, spent \in BOOLEAN :
        /\ spent => raised /\ \E j \in R : row[j].fails + 1 >= CollectBudget
        /\ raised /\ ~spent => \A i \in R : ~(row[i].fails + 1 >= CollectBudget)
        /\ row' \in [Rows -> Row]
        /\ \A i \in Rows \ R : row'[i] = row[i]
        /\ \A i \in R : /\ row'[i].handle = b /\ row'[i].attempts = row[i].attempts
                        /\ row'[i].status = IF spent THEN "dead" ELSE "running"
                        /\ row'[i].fails = IF raised THEN row[i].fails + 1 ELSE 0
  <2>1. CASE PollPending(b) \/ (AllApplied /\ b = cur)
    <3>1. row' = [i \in Rows |-> IF i \in R THEN [row[i] EXCEPT !.fails = 0] ELSE row[i]]
      BY <2>1 DEF PollPending, AllApplied, PollAnswered
    <3>2. ASSUME NEW i \in R
          PROVE  /\ row'[i] \in Row /\ row'[i].handle = b
                 /\ row'[i].attempts = row[i].attempts
                 /\ row'[i].status = "running" /\ row'[i].fails = 0
      <4>1. row'[i] = [row[i] EXCEPT !.fails = 0] /\ row[i] \in Row
        BY <1>1, <1>3, <3>1 DEF TypeOK
      <4>2. 0 \in 0..CollectBudget
        BY Numbers
      <4>3. row[i].status = "running" /\ row[i].handle = b
        BY <1>3
      <4> QED
        BY <4>1, <4>2, <4>3, Zenon DEF Row
    <3>3. \A i \in Rows \ R : row'[i] = row[i]
      BY <3>1
    <3>4. row' \in [Rows -> Row]
      <4>1. \A i \in Rows : row'[i] \in Row
        BY <1>1, <3>2, <3>3 DEF TypeOK
      <4> HIDE DEF R
      <4> QED
        BY <3>1, <4>1, Zenon
    <3> WITNESS FALSE \in BOOLEAN, FALSE \in BOOLEAN
    <3> QED
      BY <3>2, <3>3, <3>4
  <2>2. CASE PollRaises(b)
    <3> DEFINE spent == \E j \in R : row[j].fails + 1 >= CollectBudget
    <3>1. row' = [i \in Rows |->
            IF i \in R THEN [row[i] EXCEPT !.fails = row[i].fails + 1,
                               !.status = IF spent THEN "dead" ELSE row[i].status]
            ELSE row[i]]
      BY <2>2 DEF PollRaises, PollRaised
    <3>2. spent \in BOOLEAN
      OBVIOUS
    <3>3. ASSUME NEW i \in R
          PROVE  /\ row'[i] \in Row /\ row'[i].handle = b
                 /\ row'[i].attempts = row[i].attempts
                 /\ row'[i].status = IF spent THEN "dead" ELSE "running"
                 /\ row'[i].fails = row[i].fails + 1
      <4> DEFINE f == row[i].fails + 1
                 st == IF spent THEN "dead" ELSE row[i].status
      <4>1. row[i].fails < CollectBudget /\ row[i] \in Row /\ i \in Rows
        BY <1>1, <1>3 DEF Steady, Open, TypeOK
      <4>2. f \in 0..CollectBudget
        BY <4>1, Numbers DEF Row
      <4>3. row[i].status = "running" /\ row[i].handle = b
        BY <1>3
      <4>4. st = (IF spent THEN "dead" ELSE "running")
            /\ st \in {"running", "dead"}
        BY <4>3
      <4>5. row'[i] = [row[i] EXCEPT !.fails = f, !.status = st]
        BY <3>1, <4>1, Zenon
      <4> HIDE DEF f, st
      <4>6. /\ row'[i] \in Row /\ row'[i].handle = row[i].handle
            /\ row'[i].attempts = row[i].attempts
            /\ row'[i].status = st /\ row'[i].fails = f
        BY <4>1, <4>2, <4>4, <4>5, Zenon DEF Row
      <4> QED
        BY <4>3, <4>4, <4>6 DEF f
    <3>4. \A i \in Rows \ R : row'[i] = row[i]
      BY <3>1
    <3>5. row' \in [Rows -> Row]
      <4>1. \A i \in Rows : row'[i] \in Row
        BY <1>1, <3>3, <3>4 DEF TypeOK
      <4> HIDE DEF R, spent
      <4> QED
        BY <3>1, <4>1, Zenon
    <3>6. /\ spent => \E j \in R : row[j].fails + 1 >= CollectBudget
          /\ ~spent => \A i \in R : ~(row[i].fails + 1 >= CollectBudget)
      OBVIOUS
    <3> WITNESS TRUE \in BOOLEAN, spent \in BOOLEAN
    <3> HIDE DEF R, spent
    <3> QED
      BY <3>3, <3>4, <3>5, <3>6
  <2> QED
    BY <2>1, <2>2
<1> HIDE DEF R
<1>5. TypeOK'
  BY <1>1, <1>2, <1>4 DEF TypeOK
<1>6. ASSUME NEW i \in Rows PROVE Steady(i)'
  <2>1. Steady(i)
    BY <1>1
  <2>2. CASE i \in R
    <3>1. row[i].fails \in Nat /\ row[i].fails < CollectBudget /\ row[i].status = "running"
      BY <1>1, <1>3, <2>1, <2>2 DEF TypeOK, Row, Steady, Open
    <3>2. row'[i].status \in Open => row'[i].fails < CollectBudget
      BY <1>4, <2>2, <3>1, Numbers DEF Open
    <3>3. row'[i].handle = row[i].handle /\ (InFlight(i)' <=> InFlight(i))
      BY <1>2, <1>3, <1>4, <2>2 DEF InFlight
    <3> QED
      BY <1>2, <1>3, <1>4, <2>1, <2>2, <3>1, <3>2, <3>3 DEF Steady, Open
  <2>3. CASE i \notin R
    <3>1. InFlight(i)' <=> InFlight(i)
      BY <1>2, <1>4, <2>3 DEF InFlight
    <3> QED
      BY <1>2, <1>4, <2>1, <2>3, <3>1 DEF Steady
  <2> QED
    BY <2>2, <2>3
<1>7. ASSUME InFlightRowsWait PROVE InFlightRowsWait'
  <2> SUFFICES ASSUME NEW i \in Rows, NEW c \in Batches,
                      row'[i].handle = c, batch[c].state = "cooking"
               PROVE  \/ row'[i].status \in {"running", "done"}
                      \/ /\ row'[i].status = "dead"
                         /\ \E j \in Rows : row'[j].handle = c
                                            /\ row'[j].fails = CollectBudget
    BY <1>2 DEF InFlightRowsWait
  <2>1. CASE i \in R
    <3>1. CASE spent
      <4>1. PICK j \in R : row[j].fails + 1 >= CollectBudget
        BY <1>4, <3>1
      <4>2. row[j].fails \in Nat /\ row[j].fails < CollectBudget
        BY <1>1, <1>3 DEF TypeOK, Row, Steady, Open
      <4>3. row'[j].fails = CollectBudget /\ row'[j].handle = c /\ j \in Rows
        BY <1>3, <1>4, <2>1, <3>1, <4>1, <4>2, Numbers
      <4> QED
        BY <1>4, <2>1, <3>1, <4>3
    <3>2. CASE ~spent
      BY <1>4, <2>1, <3>2
    <3> QED
      BY <3>1, <3>2
  <2>2. CASE i \notin R
    <3>1. row'[i] = row[i]
      BY <1>4, <2>2
    <3>2. CASE row[i].status = "dead"
      <4>1. PICK j \in Rows : row[j].handle = c /\ row[j].fails = CollectBudget
        BY <1>7, <3>1, <3>2 DEF InFlightRowsWait
      <4>2. j \notin R
        <5>1. Steady(j) /\ ~(CollectBudget < CollectBudget)
          BY <1>1, Numbers
        <5> QED
          BY <1>3, <4>1, <5>1 DEF Steady, Open
      <4> QED
        BY <1>4, <3>1, <3>2, <4>1, <4>2
    <3> QED
      BY <1>7, <3>1, <3>2 DEF InFlightRowsWait
  <2> QED
    BY <2>1, <2>2
<1>8. InHand' /\ NotTwice'
  BY <1>2, EmptyHands
<1> QED
  BY <1>1, <1>5, <1>6, <1>7, <1>8 DEF BatchInv

\* Rows that are put back or given up were open, and are not in flight.
PutsBack(S) ==
  /\ S \subseteq Rows /\ \A i \in S : row[i].status \in Open
  /\ row' \in [Rows -> Row] /\ \A i \in Rows \ S : row'[i] = row[i]
  /\ \A i \in S :
       /\ row'[i].handle = row[i].handle /\ row'[i].fails = row[i].fails
       /\ row'[i].status \in {"pending", "failed", "dead"}
       /\ row'[i].status # "dead" => row'[i].attempts < MaxAttempts
  /\ UNCHANGED <<owner, batch, inline, embed, keyed, gated, enriched, crashes>>

LEMMA PutBackRows ==
  ASSUME BatchInv, NEW S, PutsBack(S), ~LateFailures => \A i \in S : ~InFlight(i)
  PROVE  (\A i \in Rows : Steady(i)') /\ (~LateFailures => InFlightRowsWait')
<1>1. TypeOK /\ (\A i \in Rows : Steady(i)) /\ InHand
      /\ (~LateFailures => InFlightRowsWait /\ NotTwice)
  BY DEF BatchInv
<1>2. ASSUME NEW i \in Rows PROVE Gentle(i)
  <2>1. Steady(i)
    BY <1>1
  <2>2. CASE i \in S
    BY <2>1, <2>2 DEF Gentle, PutsBack, Open
  <2>3. CASE i \notin S
    BY <2>1, <2>3 DEF Gentle, PutsBack, Steady
  <2> QED
    BY <2>2, <2>3
<1>3. UNCHANGED <<batch, enriched, gated>>
  BY DEF PutsBack
<1> QED
  BY <1>1, <1>2, <1>3, GentleSteps

\* Charges put back or give up.
LEMMA ChargesPutBack ==
  ASSUME BatchInv, NEW S, S \subseteq Rows, \A i \in S : row[i].status \in Open,
         row' = [i \in Rows |-> IF i \in S THEN Charge(row[i]) ELSE row[i]],
         UNCHANGED <<owner, batch, inline, embed, keyed, gated, enriched, crashes>>
  PROVE  PutsBack(S)
<1>1. TypeOK /\ (\A i \in Rows : Steady(i)) /\ InHand
      /\ (~LateFailures => InFlightRowsWait /\ NotTwice)
  BY DEF BatchInv
<1>2. ASSUME NEW i \in S
      PROVE  /\ row'[i] \in Row
             /\ row'[i].handle = row[i].handle /\ row'[i].fails = row[i].fails
             /\ row'[i].status \in {"pending", "failed", "dead"}
             /\ row'[i].status # "dead" => row'[i].attempts < MaxAttempts
  <2>1. row[i] \in Row /\ row[i].attempts < MaxAttempts /\ row'[i] = Charge(row[i])
    BY <1>1 DEF TypeOK, Steady
  <2>2. /\ row'[i] \in Row /\ row'[i].status \in {"failed", "dead"}
        /\ row'[i].status = "failed" => row'[i].attempts < MaxAttempts
        /\ row'[i].handle = row[i].handle /\ row'[i].fails = row[i].fails
    BY <2>1, ChargeUpdate
  <2> QED
    BY <2>2
<1>3. \A i \in Rows \ S : row'[i] = row[i]
  OBVIOUS
<1>4. \A i \in Rows : row'[i] \in Row
  BY <1>1, <1>2, <1>3 DEF TypeOK
<1>5. row' \in [Rows -> Row]
  BY <1>4, Zenon
<1> QED
  BY <1>2, <1>3, <1>5 DEF PutsBack

\* So does a status alone.
LEMMA StatusPutsBack ==
  ASSUME BatchInv, NEW S, S \subseteq Rows, \A i \in S : row[i].status \in Open,
         SetStatus(S, "pending"),
         UNCHANGED <<owner, batch, inline, embed, keyed, gated, enriched, crashes>>
  PROVE  PutsBack(S)
<1>1. TypeOK /\ (\A i \in Rows : Steady(i)) /\ InHand
      /\ (~LateFailures => InFlightRowsWait /\ NotTwice)
  BY DEF BatchInv
<1>2. /\ row' \in [Rows -> Row]
      /\ \A i \in Rows :
           /\ row'[i].attempts = row[i].attempts
           /\ row'[i].handle = row[i].handle /\ row'[i].fails = row[i].fails
           /\ row'[i].status = IF i \in S THEN "pending" ELSE row[i].status
  BY <1>1, StatusRows
<1>3. \A i \in Rows \ S : row'[i] = row[i]
  BY DEF SetStatus
<1>4. \A i \in S : row[i].attempts < MaxAttempts
  BY <1>1 DEF Steady
<1> QED
  BY <1>2, <1>3, <1>4 DEF PutsBack

\* A receipt is for a version that is enriched or must not be.
LEMMA Receipts ==
  ASSUME BatchInv, NEW S, S \subseteq Rows, S \subseteq enriched \cup gated,
         SetStatus(S, "done"),
         UNCHANGED <<owner, batch, inline, embed, keyed, gated, enriched, crashes>>
  PROVE  /\ (\A i \in Rows : Steady(i)') /\ (~LateFailures => InFlightRowsWait')
         /\ row' \in [Rows -> Row]
         /\ \A i \in Rows :
              /\ row'[i].attempts = row[i].attempts
              /\ row'[i].handle = row[i].handle /\ row'[i].fails = row[i].fails
              /\ row'[i].status = IF i \in S THEN "done" ELSE row[i].status
<1>1. TypeOK /\ (\A i \in Rows : Steady(i)) /\ InHand
      /\ (~LateFailures => InFlightRowsWait /\ NotTwice)
  BY DEF BatchInv
<1>2. /\ row' \in [Rows -> Row]
      /\ \A i \in Rows :
           /\ row'[i].attempts = row[i].attempts
           /\ row'[i].handle = row[i].handle /\ row'[i].fails = row[i].fails
           /\ row'[i].status = IF i \in S THEN "done" ELSE row[i].status
  BY <1>1, StatusRows
<1>3. ASSUME NEW i \in Rows PROVE Gentle(i)
  <2>1. Steady(i)
    BY <1>1
  <2> QED
    BY <1>2, <2>1 DEF Gentle, Steady, Open
<1> QED
  BY <1>1, <1>2, <1>3, GentleSteps

LEMMA WriteReceiptKeeps ==
  ASSUME BatchInv, WriteReceipt PROVE BatchInv'
<1> USE DEF WriteReceipt, world
<1>1. TypeOK /\ (\A i \in Rows : Steady(i)) /\ InHand
      /\ (~LateFailures => InFlightRowsWait /\ NotTwice)
  BY DEF BatchInv
<1>2. picked \subseteq enriched /\ picked \subseteq Rows
  BY <1>1 DEF InHand, TypeOK
<1>3. /\ (\A i \in Rows : Steady(i)') /\ (~LateFailures => InFlightRowsWait')
      /\ row' \in [Rows -> Row]
      /\ \A i \in Rows : row'[i].handle = row[i].handle
  BY <1>2, Receipts
<1>4. TypeOK'
  BY <1>1, <1>3 DEF TypeOK
<1>5. InHand' /\ NotTwice'
  BY <1>1, <1>3 DEF InHand, NotTwice, Sending, TypeOK
<1> QED
  BY <1>3, <1>4, <1>5 DEF BatchInv

LEMMA RunSucceedsKeeps ==
  ASSUME BatchInv, RunSucceeds PROVE BatchInv'
<1> USE DEF RunSucceeds, world
<1>1. TypeOK /\ (\A i \in Rows : Steady(i)) /\ InHand
      /\ (~LateFailures => InFlightRowsWait /\ NotTwice)
  BY DEF BatchInv
<1>2. picked \subseteq enriched \cup gated /\ picked \subseteq Rows
  BY <1>1 DEF InHand, TypeOK
<1>3. /\ (\A i \in Rows : Steady(i)') /\ (~LateFailures => InFlightRowsWait')
      /\ row' \in [Rows -> Row]
  BY <1>2, Receipts
<1>4. TypeOK'
  BY <1>1, <1>3 DEF TypeOK
<1>5. InHand' /\ NotTwice'
  BY EmptyHands
<1> QED
  BY <1>3, <1>4, <1>5 DEF BatchInv

LEMMA GateOutKeeps ==
  ASSUME BatchInv, GateOut PROVE BatchInv'
<1> USE DEF GateOut, world
<1>1. TypeOK /\ (\A i \in Rows : Steady(i)) /\ InHand
      /\ (~LateFailures => InFlightRowsWait /\ NotTwice)
  BY DEF BatchInv
<1>2. picked \cap gated \subseteq Rows /\ picked \subseteq Rows
  BY <1>1 DEF TypeOK
<1>3. /\ (\A i \in Rows : Steady(i)') /\ (~LateFailures => InFlightRowsWait')
      /\ row' \in [Rows -> Row]
      /\ \A i \in Rows :
           /\ row'[i].attempts = row[i].attempts
           /\ row'[i].handle = row[i].handle /\ row'[i].fails = row[i].fails
           /\ row'[i].status = IF i \in picked \cap gated THEN "done" ELSE row[i].status
  BY <1>2, Receipts
<1>4. TypeOK'
  BY <1>1, <1>3 DEF TypeOK
<1>5. CASE pc' = "reclaim"
  BY <1>3, <1>4, <1>5, EmptyHands DEF BatchInv
<1>6. CASE pc' = "send"
  <2>1. picked' \subseteq picked
    BY <1>6
  <2>2. InHand'
    BY <1>1, <1>2, <1>3, <1>6, <2>1 DEF InHand, Sending
  <2>3. NotTwice => NotTwice'
    BY <1>2, <1>3, <1>6, <2>1 DEF NotTwice, InFlight
  <2> QED
    BY <1>1, <1>3, <1>4, <2>2, <2>3 DEF BatchInv
<1> QED
  BY <1>5, <1>6

LEMMA SubmitAuthKeeps ==
  ASSUME BatchInv, SubmitAuth PROVE BatchInv'
<1> USE DEF SubmitAuth, world
<1>1. TypeOK /\ (\A i \in Rows : Steady(i)) /\ InHand
      /\ (~LateFailures => InFlightRowsWait /\ NotTwice)
  BY DEF BatchInv
<1> DEFINE S == {i \in picked : row[i].status = "running"}
<1>2. S \subseteq Rows /\ \A i \in S : row[i].status \in Open
  BY <1>1 DEF TypeOK, Open
<1>3. PutsBack(S)
  BY <1>2, StatusPutsBack
<1>4. ~LateFailures => \A i \in S : ~InFlight(i)
  BY <1>1 DEF NotTwice
<1> HIDE DEF S
<1>5. (\A i \in Rows : Steady(i)') /\ (~LateFailures => InFlightRowsWait')
  BY <1>3, <1>4, PutBackRows
<1>6. TypeOK'
  BY <1>1, <1>3 DEF TypeOK, PutsBack
<1> QED
  BY <1>5, <1>6, EmptyHands DEF BatchInv

\* A submit that fails after the accept is what LateFailures lets happen.
LEMMA SubmitFailsKeeps ==
  ASSUME BatchInv, SubmitFails PROVE BatchInv'
<1> USE DEF SubmitFails, world
<1>1. TypeOK /\ (\A i \in Rows : Steady(i)) /\ InHand
      /\ (~LateFailures => InFlightRowsWait /\ NotTwice)
  BY DEF BatchInv
<1> DEFINE S == {i \in picked : row[i].status = "running"}
<1>2. S \subseteq Rows /\ \A i \in S : row[i].status \in Open
  BY <1>1 DEF TypeOK, Open
<1>3. \A i \in Rows \ S : row'[i] = row[i]
  OBVIOUS
<1>4. ASSUME NEW i \in S
      PROVE  /\ row'[i] \in Row
             /\ row'[i].handle = row[i].handle /\ row'[i].fails = row[i].fails
             /\ row'[i].status = "failed" /\ row'[i].attempts < MaxAttempts
  <2>1. /\ row'[i] = [row[i] EXCEPT !.status = "failed", !.ripe = FALSE]
        /\ row[i] \in Row
    BY <1>1, <1>2 DEF TypeOK
  <2>2. /\ row'[i] \in Row /\ row'[i].status = "failed"
        /\ row'[i].attempts = row[i].attempts
        /\ row'[i].handle = row[i].handle /\ row'[i].fails = row[i].fails
    BY <2>1, ZenonT(30) DEF Row
  <2>3. row[i].attempts < MaxAttempts
    BY <1>1, <1>2 DEF Steady
  <2> QED
    BY <2>2, <2>3
<1>5. row' \in [Rows -> Row]
  <2>1. \A i \in Rows : row'[i] \in Row
    BY <1>1, <1>3, <1>4 DEF TypeOK
  <2> QED
    BY <2>1, Zenon
<1>6. ~LateFailures => \A i \in S : ~InFlight(i)
  BY <1>1 DEF NotTwice
<1> HIDE DEF S
<1>7. PutsBack(S)
  BY <1>2, <1>3, <1>4, <1>5 DEF PutsBack
<1>8. (\A i \in Rows : Steady(i)') /\ (~LateFailures => InFlightRowsWait')
  BY <1>6, <1>7, PutBackRows
<1>9. TypeOK'
  BY <1>1, <1>5 DEF TypeOK
<1> QED
  BY <1>8, <1>9, EmptyHands DEF BatchInv

LEMMA ReclaimKeeps ==
  ASSUME BatchInv, Reclaim PROVE BatchInv'
<1> USE DEF Reclaim, world, local
<1>1. TypeOK /\ (\A i \in Rows : Steady(i)) /\ InHand
      /\ (~LateFailures => InFlightRowsWait /\ NotTwice)
  BY DEF BatchInv
<1> DEFINE S == {i \in Rows : row[i].status = "running" /\ row[i].handle = None
                                /\ row[i].ripe}
<1>2. S \subseteq Rows /\ \A i \in S : row[i].status \in Open /\ ~InFlight(i)
  BY DEF Open, InFlight
<1>3. row' = [i \in Rows |-> IF i \in S THEN Charge(row[i]) ELSE row[i]]
  OBVIOUS
<1> HIDE DEF S
<1>4. PutsBack(S)
  BY <1>2, <1>3, ChargesPutBack
<1>5. (\A i \in Rows : Steady(i)') /\ (~LateFailures => InFlightRowsWait')
  BY <1>2, <1>4, PutBackRows
<1>6. TypeOK'
  BY <1>1, <1>4 DEF TypeOK, PutsBack
<1> QED
  BY <1>5, <1>6, EmptyHands DEF BatchInv

LEMMA ResetRetryableKeeps ==
  ASSUME BatchInv, ResetRetryable PROVE BatchInv'
<1> USE DEF ResetRetryable, world, local
<1>1. TypeOK /\ (\A i \in Rows : Steady(i)) /\ InHand
      /\ (~LateFailures => InFlightRowsWait /\ NotTwice)
  BY DEF BatchInv
<1> DEFINE S == {i \in Rows : row[i].status = "failed" /\ row[i].ripe}
<1>2. S \subseteq Rows /\ \A i \in S : row[i].status \in Open
  BY DEF Open
<1>3. ~LateFailures => \A i \in S : ~InFlight(i)
  BY <1>1, PendingIsNotInFlight
<1>4. PutsBack(S)
  BY <1>2, StatusPutsBack
<1> HIDE DEF S
<1>5. (\A i \in Rows : Steady(i)') /\ (~LateFailures => InFlightRowsWait')
  BY <1>3, <1>4, PutBackRows
<1>6. TypeOK'
  BY <1>1, <1>4 DEF TypeOK, PutsBack
<1> QED
  BY <1>5, <1>6, EmptyHands DEF BatchInv

\* The row the loop runs is not in flight, so it may be put back.
LEMMA RunFailsKeeps ==
  ASSUME BatchInv, RunFails \/ RunAuth PROVE BatchInv'
<1> USE DEF world
<1>1. TypeOK /\ (\A i \in Rows : Steady(i)) /\ InHand
      /\ (~LateFailures => InFlightRowsWait /\ NotTwice)
  BY DEF BatchInv
<1> DEFINE S == {i \in picked : row[i].status = "running" /\ owner[i] = "drain"}
<1>2. /\ pc = "run" /\ pc' \in {"loop", "idle"} /\ picked' = {}
      /\ UNCHANGED <<owner, batch, inline, embed, keyed, gated, enriched, crashes,
                     todo, cur, unread>>
  BY DEF RunFails, RunAuth
<1>3. S \subseteq Rows /\ \A i \in S : row[i].status \in Open
  BY <1>1 DEF TypeOK, Open
<1>4. PutsBack(S)
  <2>1. CASE RunFails
    <3>1. row' = [i \in Rows |-> IF i \in S THEN Charge(row[i]) ELSE row[i]]
      BY <2>1 DEF RunFails
    <3> HIDE DEF S
    <3> QED
      BY <1>2, <1>3, <3>1, ChargesPutBack
  <2>2. CASE RunAuth
    <3>1. SetStatus(S, "pending")
      BY <2>2 DEF RunAuth
    <3> QED
      BY <1>2, <1>3, <3>1, StatusPutsBack
  <2> QED
    BY <2>1, <2>2
<1>5. ~LateFailures => \A i \in S : ~InFlight(i)
  BY <1>1, <1>2 DEF NotTwice
<1> HIDE DEF S
<1>6. (\A i \in Rows : Steady(i)') /\ (~LateFailures => InFlightRowsWait')
  BY <1>4, <1>5, PutBackRows
<1>7. TypeOK'
  BY <1>1, <1>2, <1>4 DEF TypeOK, PutsBack
<1>8. InHand' /\ NotTwice'
  BY <1>2, EmptyHands
<1> QED
  BY <1>6, <1>7, <1>8 DEF BatchInv

\* A failed result is charged to a row whose batch has ended.
LEMMA ApplyFailureKeeps ==
  ASSUME BatchInv, NEW a \in Rows, ApplyFailure(a) PROVE BatchInv'
<1> USE DEF ApplyFailure, world
<1>1. TypeOK /\ (\A i \in Rows : Steady(i)) /\ InHand
      /\ (~LateFailures => InFlightRowsWait /\ NotTwice)
  BY DEF BatchInv
<1> DEFINE S == {i \in {a} : row[i].status = "running"}
<1>2. S \subseteq Rows /\ \A i \in S : row[i].status \in Open
  BY DEF Open
<1>3. row' = [i \in Rows |-> IF i \in S THEN Charge(row[i]) ELSE row[i]]
  BY <1>1 DEF TypeOK
<1>4. ~LateFailures => \A i \in S : ~InFlight(i)
  BY <1>1 DEF InHand, InFlight
<1> HIDE DEF S
<1>5. PutsBack(S)
  BY <1>2, <1>3, ChargesPutBack
<1>6. (\A i \in Rows : Steady(i)') /\ (~LateFailures => InFlightRowsWait')
  BY <1>4, <1>5, PutBackRows
<1>7. TypeOK'
  BY <1>1, <1>5 DEF TypeOK, PutsBack
<1>8. InHand' /\ NotTwice'
  <2>1. \A i \in Rows : row'[i].handle = row[i].handle
    BY <1>5 DEF PutsBack
  <2>2. unread \subseteq Rows
    BY <1>1 DEF TypeOK
  <2> QED
    BY <1>1, <2>1, <2>2 DEF InHand, NotTwice, Sending
<1> QED
  BY <1>6, <1>7, <1>8 DEF BatchInv

\* What a drain claims is pending: not in flight, and with attempts left.
LEMMA ClaimsKeep ==
  ASSUME BatchInv, NEW S \in SUBSET Pending, ClaimAll(S, "drain"), picked' = S,
         pc' \in {"reclaim", "claimed", "run"},
         UNCHANGED <<batch, world, enriched, todo, cur, unread>>
  PROVE  BatchInv'
<1> USE DEF world
<1>1. TypeOK /\ (\A i \in Rows : Steady(i)) /\ InHand
      /\ (~LateFailures => InFlightRowsWait /\ NotTwice)
  BY DEF BatchInv
<1>2. /\ row' \in [Rows -> Row]
      /\ owner' \in [Rows -> {"nobody", "drain", "add"}]
      /\ \A i \in Rows :
           /\ row'[i].attempts = row[i].attempts
           /\ row'[i].handle = row[i].handle /\ row'[i].fails = row[i].fails
           /\ row'[i].status = IF i \in S THEN "running" ELSE row[i].status
           /\ owner'[i] = IF i \in S THEN "drain" ELSE owner[i]
  <2>1. "drain" \in {"drain", "add"}
    OBVIOUS
  <2> QED
    BY <1>1, <2>1, ClaimRows
<1>3. S \subseteq Rows /\ \A i \in S : row[i].status = "pending"
  BY DEF Pending
<1>4. TypeOK'
  BY <1>1, <1>2, <1>3 DEF TypeOK
<1>5. ASSUME NEW i \in Rows PROVE Gentle(i)
  <2>1. Steady(i)
    BY <1>1
  <2> QED
    BY <1>2, <1>3, <2>1 DEF Gentle, Steady, Open
<1>6. (\A i \in Rows : Steady(i)') /\ (~LateFailures => InFlightRowsWait')
  BY <1>1, <1>5, GentleSteps
<1>7. InHand'
  <2>1. \A i \in S : row[i].attempts < MaxAttempts /\ row[i].fails < CollectBudget
    BY <1>1, <1>3 DEF Steady, Open
  <2> QED
    BY <1>2, <1>3, <2>1 DEF InHand, Sending
<1>8. ~LateFailures => NotTwice'
  <2>1. ~LateFailures => \A i \in S : ~InFlight(i)
    BY <1>1, <1>3, PendingIsNotInFlight
  <2> QED
    BY <1>2, <1>3, <2>1 DEF NotTwice, InFlight
<1> QED
  BY <1>4, <1>6, <1>7, <1>8 DEF BatchInv

\* The rows that get a handle give up none that is in flight.
LEMMA RecordHandleKeeps ==
  ASSUME BatchInv, RecordHandle PROVE BatchInv'
<1> USE DEF RecordHandle, world, local
<1>1. TypeOK /\ (\A i \in Rows : Steady(i)) /\ InHand
      /\ (~LateFailures => InFlightRowsWait /\ NotTwice)
  BY DEF BatchInv
<1> DEFINE S == batch[cur].of
<1>2. /\ cur \in Batches /\ batch[cur].state # "unused" /\ S \subseteq picked
      /\ picked \subseteq Rows
  BY <1>1 DEF InHand, TypeOK
<1>3. \A i \in S : owner[i] = "drain" /\ row[i].attempts < MaxAttempts
                   /\ row[i].fails < CollectBudget
  BY <1>1, <1>2 DEF InHand, Sending
<1>4. ASSUME NEW i \in S
      PROVE  /\ row'[i] \in Row /\ row'[i].status = "running" /\ row'[i].handle = cur
             /\ row'[i].attempts = row[i].attempts /\ row'[i].fails = row[i].fails
  <2>1. row'[i] = [row[i] EXCEPT !.status = "running", !.handle = cur]
        /\ row[i] \in Row
    BY <1>1, <1>2 DEF TypeOK
  <2> QED
    BY <1>2, <2>1, Zenon DEF Row
<1>5. \A i \in Rows \ S : row'[i] = row[i]
  OBVIOUS
<1>6. row' \in [Rows -> Row]
  <2>1. \A i \in Rows : row'[i] \in Row
    BY <1>1, <1>4, <1>5 DEF TypeOK
  <2> QED
    BY <2>1, Zenon
<1> HIDE DEF S
<1>7. TypeOK'
  BY <1>1, <1>6 DEF TypeOK
<1>8. ASSUME NEW i \in Rows PROVE Steady(i)'
  <2>1. Steady(i)
    BY <1>1
  <2>2. CASE i \in S
    BY <1>2, <1>3, <1>4, <2>1, <2>2 DEF Steady
  <2>3. CASE i \notin S
    <3>1. row'[i] = row[i]
      BY <1>5, <2>3
    <3>2. UNCHANGED <<owner, batch, inline, gated, enriched>>
      OBVIOUS
    <3> QED
      BY <2>1, <3>1, <3>2 DEF Steady, InFlight
  <2> QED
    BY <2>2, <2>3
<1>9. ASSUME ~LateFailures PROVE InFlightRowsWait'
  <2> SUFFICES ASSUME NEW i \in Rows, NEW b \in Batches,
                      row'[i].handle = b, batch[b].state = "cooking"
               PROVE  \/ row'[i].status \in {"running", "done"}
                      \/ /\ row'[i].status = "dead"
                         /\ \E j \in Rows : row'[j].handle = b
                                            /\ row'[j].fails = CollectBudget
    BY DEF InFlightRowsWait
  <2>1. CASE i \in S
    BY <1>4, <2>1
  <2>2. CASE i \notin S
    <3>1. row'[i] = row[i]
      BY <1>5, <2>2
    <3>2. CASE row[i].status = "dead"
      <4>1. PICK j \in Rows : row[j].handle = b /\ row[j].fails = CollectBudget
        BY <1>1, <1>9, <3>1, <3>2 DEF InFlightRowsWait
      <4>2. j \notin S
        BY <1>1, <1>2, <1>9, <4>1, Numbers DEF NotTwice, InFlight
      <4> QED
        BY <1>5, <3>1, <3>2, <4>1, <4>2
    <3> QED
      BY <1>1, <1>9, <3>1, <3>2 DEF InFlightRowsWait
  <2> QED
    BY <2>1, <2>2
<1>10. InHand' /\ NotTwice'
  <2>1. pc = "sent" /\ pc' = "audit" /\ picked' = picked
    OBVIOUS
  <2>2. ASSUME NEW i \in picked
        PROVE  /\ owner'[i] = "drain" /\ row'[i].status \in {"running", "done"}
               /\ row'[i].attempts < MaxAttempts /\ row'[i].fails < CollectBudget
    <3>1. /\ owner[i] = "drain" /\ row[i].status \in {"running", "done"}
          /\ row[i].attempts < MaxAttempts /\ row[i].fails < CollectBudget
      BY <1>1, <2>1 DEF InHand, Sending
    <3> QED
      BY <1>2, <1>4, <1>5, <3>1
  <2> QED
    BY <2>1, <2>2 DEF InHand, NotTwice, Sending
<1> QED
  BY <1>7, <1>8, <1>9, <1>10 DEF BatchInv

-----------------------------------------------------------------------------
(* The theorems *)

LEMMA DrainKeeps == BatchInv /\ DrainStep => BatchInv'
<1> SUFFICES ASSUME BatchInv, DrainStep PROVE BatchInv'
  OBVIOUS
<1>1. 1 \in Rows /\ 1 \in Batches
  BY Numbers DEF Rows, Batches
<1>2. CASE StartDrain \/ CollectAuth \/ CollectEnds \/ SubmitSelects \/ SubmitEscapes
             \/ Audit \/ DrainEnds
  BY <1>2, MovesKeep
<1>3. CASE AllApplied
  <2>1. cur \in Batches
    BY <1>3 DEF AllApplied, BatchInv, InHand
  <2> QED
    BY <1>3, <2>1, PollKeeps
<1>4. CASE \E b \in Batches : PollPending(b) \/ PollRaises(b)
  BY <1>4, PollKeeps
<1>5. CASE \E b \in Batches : PollEnded(b)
  BY <1>5, PollEndedKeeps
<1>6. CASE RunWrites \/ \E i \in Rows : ApplySuccess(i)
  BY <1>1, <1>6, WritesKeep
<1>7. CASE \E i \in Rows : ApplyFailure(i)
  BY <1>7, ApplyFailureKeeps
<1>8. CASE SubmitClaims
  <2>1. picked \cap Pending \in SUBSET Pending
    OBVIOUS
  <2> QED
    BY <1>8, <2>1, ClaimsKeep DEF SubmitClaims
<1>9. CASE LoopClaims
  <2>1. Pending \in SUBSET Rows /\ Pending # {}
    BY <1>9 DEF LoopClaims, Pending
  <2>2. {Min(Pending)} \in SUBSET Pending
    BY <2>1, LeastRow
  <2> QED
    BY <1>9, <2>2, ClaimsKeep DEF LoopClaims
<1>10. CASE WriteReceipt \/ GateOut \/ RunSucceeds
  BY <1>10, WriteReceiptKeeps, GateOutKeeps, RunSucceedsKeeps
<1>11. CASE Send \/ RecordHandle \/ SubmitAuth \/ SubmitFails
  BY <1>11, SendKeeps, RecordHandleKeeps, SubmitAuthKeeps, SubmitFailsKeeps
<1>12. CASE Reclaim \/ ResetRetryable \/ RunFails \/ RunAuth
  BY <1>12, ReclaimKeeps, ResetRetryableKeeps, RunFailsKeeps
<1>13. CASE RunEmbed
  BY <1>1, <1>13, WorldKeeps
<1> QED
  BY <1>2, <1>3, <1>4, <1>5, <1>6, <1>7, <1>8, <1>9, <1>10, <1>11, <1>12, <1>13
     DEF DrainStep

LEMMA NextBatchInv == BatchInv /\ [Next]_vars => BatchInv'
<1> SUFFICES ASSUME BatchInv, [Next]_vars PROVE BatchInv'
  OBVIOUS
<1>1. 1 \in Rows /\ 1 \in Batches
  BY Numbers DEF Rows, Batches
<1>2. CASE DrainStep
  BY <1>2, DrainKeeps
<1>3. CASE Crash
  BY <1>3, MovesKeep
<1>4. CASE \E i \in Rows : AddStep(i) \/ Ripen(i) \/ Gate(i)
  BY <1>1, <1>4, AddClaimsKeeps, AddSucceedsKeeps, AddFailsKeeps, RipenKeeps,
     WorldKeeps DEF AddStep
<1>5. CASE (\E b \in Batches : BatchEnds(b)) \/ EnqueueEmbed \/ ChangeKey
  BY <1>1, <1>5, WorldKeeps
<1>6. CASE UNCHANGED vars
  BY <1>6 DEF vars, BatchInv, TypeOK, Steady, InHand, NotTwice, InFlight,
              InFlightRowsWait, Sending
<1> QED
  BY <1>2, <1>3, <1>4, <1>5, <1>6 DEF Next

\* Rows, batches and the drain's memory of them stay in step, whatever is
\* killed and whoever claims a row meanwhile.
THEOREM BatchInvariant == Spec => []BatchInv
<1> QED
  BY InitBatchInv, NextBatchInv, PTL DEF Spec

\* Every variable keeps its type: in particular no row is charged beyond the
\* attempts it has, nor its batch beyond the budget.
THEOREM BatchTypeCorrect == Spec => []TypeOK
<1>1. BatchInv => TypeOK
  BY DEF BatchInv
<1> QED
  BY <1>1, BatchInvariant, PTL

\* A done row is a version whose annotations are stored, or one that must not
\* be enriched.
THEOREM DoneIsAnnotated == Spec => []DoneHasAnnotations
<1>1. BatchInv => DoneHasAnnotations
  BY DEF BatchInv, Steady, DoneHasAnnotations
<1> QED
  BY <1>1, BatchInvariant, PTL

\* If nothing raises between the provider's accept and the audit row, a row
\* whose batch is with the provider is not put back in the queue, and given
\* up only once the count of a row of its batch has reached the budget.
THEOREM InFlightIsLeftAlone ==
  ASSUME ~LateFailures
  PROVE  Spec => []InFlightRowsWait
<1>1. BatchInv => InFlightRowsWait
  BY DEF BatchInv
<1> QED
  BY <1>1, BatchInvariant, PTL

-----------------------------------------------------------------------------
(* Lists *)

StrictOrder(S, R) ==
  /\ \A x \in S : <<x, x>> \notin R
  /\ \A x, y \in S : x # y => <<x, y>> \in R \/ <<y, x>> \in R
  /\ \A x, y, z \in S : <<x, y>> \in R /\ <<y, z>> \in R => <<x, z>> \in R

\* A list of members of S that holds none of them twice.
IsList(s, S) ==
  /\ s \in Seq(S)
  /\ \A i, j \in 1..Len(s) : i # j => s[i] # s[j]

LEMMA FunctionsAreSequences ==
  ASSUME NEW S, NEW n \in Nat, NEW s \in [1..n -> S]
  PROVE  s \in Seq(S) /\ Len(s) = n /\ DOMAIN s = 1..n
<1>1. s \in Seq(S)
  BY SeqDef
<1>2. DOMAIN s = 1..n /\ DOMAIN s = 1..Len(s) /\ Len(s) \in Nat
  BY <1>1, LenProperties
<1> QED
  BY <1>1, <1>2

\* What is known of a list and its members.
LEMMA ListFacts ==
  ASSUME NEW S, NEW s, IsList(s, S)
  PROVE  /\ Len(s) \in Nat /\ DOMAIN s = 1..Len(s) /\ s \in [1..Len(s) -> S]
         /\ ToSet(s) \subseteq S /\ IsFiniteSet(ToSet(s))
         /\ Cardinality(ToSet(s)) = Len(s)
         /\ \A i \in 1..Len(s) : s[i] \in S /\ s[i] \in ToSet(s)
         /\ \A x \in ToSet(s) : \E i \in 1..Len(s) : s[i] = x
<1>1. Len(s) \in Nat /\ DOMAIN s = 1..Len(s) /\ s \in [1..Len(s) -> S]
  BY LenProperties DEF IsList
<1>2. /\ ToSet(s) \subseteq S
      /\ \A i \in 1..Len(s) : s[i] \in S /\ s[i] \in ToSet(s)
      /\ \A x \in ToSet(s) : \E i \in 1..Len(s) : s[i] = x
  BY <1>1 DEF ToSet
<1>3. s \in [1..Len(s) -> ToSet(s)]
  BY <1>1, <1>2
<1>4. s \in Surjection(1..Len(s), ToSet(s)) /\ s \in Injection(1..Len(s), ToSet(s))
  BY <1>1, <1>2, <1>3 DEF IsList, Surjection, Injection, IsInjective
<1>5. IsFiniteSet(1..Len(s)) /\ Cardinality(1..Len(s)) = Len(s)
  <2>1. /\ IsFiniteSet(1..Len(s))
        /\ Cardinality(1..Len(s)) = IF 1 > Len(s) THEN 0 ELSE Len(s) - 1 + 1
    BY <1>1, FS_Interval
  <2> QED
    BY <1>1, <2>1
<1>6. /\ IsFiniteSet(ToSet(s))
      /\ Cardinality(ToSet(s)) = Cardinality(1..Len(s))
            <=> s \in Injection(1..Len(s), ToSet(s))
  BY <1>4, <1>5, FS_Surjection
<1> QED
  BY <1>1, <1>2, <1>4, <1>5, <1>6

LEMMA RankFacts ==
  ASSUME NEW S, NEW s, IsList(s, S)
  PROVE  /\ \A x \in ToSet(s) : Rank(s, x) \in 1..Len(s) /\ s[Rank(s, x)] = x
         /\ \A i \in 1..Len(s) : Rank(s, s[i]) = i
<1>1. /\ DOMAIN s = 1..Len(s)
      /\ \A x \in ToSet(s) : \E i \in 1..Len(s) : s[i] = x
      /\ \A i \in 1..Len(s) : s[i] \in ToSet(s)
  BY ListFacts
<1>2. \A x \in ToSet(s) : Rank(s, x) \in 1..Len(s) /\ s[Rank(s, x)] = x
  BY <1>1 DEF Rank
<1> QED
  BY <1>1, <1>2 DEF IsList

\* The members of a finite set in a strict order are a list of them all.
LEMMA InOrderFacts ==
  ASSUME NEW S, IsFiniteSet(S), NEW R, StrictOrder(S, R)
  PROVE  /\ IsList(InOrder(S, R), S) /\ ToSet(InOrder(S, R)) = S
         /\ Len(InOrder(S, R)) = Cardinality(S)
         /\ \A i, j \in 1..Len(InOrder(S, R)) :
              i < j => <<InOrder(S, R)[i], InOrder(S, R)[j]>> \in R
<1> DEFINE n == Cardinality(S)
           Below(x) == {y \in S : <<y, x>> \in R}
           place == [x \in S |-> Cardinality(Below(x)) + 1]
           s == InOrder(S, R)
<1>1. n \in Nat
  BY FS_CardinalityType
<1>2. ASSUME NEW x \in S
      PROVE  /\ IsFiniteSet(Below(x)) /\ Cardinality(Below(x)) \in Nat
             /\ Cardinality(Below(x)) \in 0..(n - 1)
  <2>1. Below(x) \in SUBSET S /\ x \notin Below(x)
    BY DEF StrictOrder
  <2> HIDE DEF Below
  <2>2. /\ IsFiniteSet(Below(x)) /\ Cardinality(Below(x)) <= n
        /\ Cardinality(S) = Cardinality(Below(x)) => S = Below(x)
    BY <2>1, FS_Subset
  <2>3. Cardinality(Below(x)) # n
    BY <2>1, <2>2
  <2>4. Cardinality(Below(x)) \in Nat
    BY <2>2, FS_CardinalityType
  <2> QED
    BY <1>1, <2>2, <2>3, <2>4
<1>3. ASSUME NEW x \in S, NEW y \in S, <<x, y>> \in R
      PROVE  Cardinality(Below(x)) < Cardinality(Below(y))
  <2>1. Below(x) \in SUBSET Below(y) /\ x \in Below(y) /\ x \notin Below(x)
    BY <1>3 DEF StrictOrder
  <2>2. /\ IsFiniteSet(Below(y)) /\ Cardinality(Below(y)) \in Nat
        /\ Cardinality(Below(x)) \in Nat
    BY <1>1, <1>2
  <2> HIDE DEF Below
  <2>3. /\ Cardinality(Below(x)) <= Cardinality(Below(y))
        /\ Cardinality(Below(y)) = Cardinality(Below(x)) => Below(y) = Below(x)
    BY <2>1, <2>2, FS_Subset
  <2> QED
    BY <2>1, <2>2, <2>3
<1>4. place \in [S -> 1..n]
  <2> HIDE DEF Below
  <2>1. ASSUME NEW x \in S PROVE Cardinality(Below(x)) + 1 \in 1..n
    <3>1. Cardinality(Below(x)) \in 0..(n - 1)
      BY <1>2
    <3> HIDE DEF n
    <3> QED
      BY <1>1, <3>1
  <2> QED
    BY <2>1
<1>5. \A x, y \in S : place[x] = place[y] => x = y
  <2> SUFFICES ASSUME NEW x \in S, NEW y \in S, x # y PROVE place[x] # place[y]
    OBVIOUS
  <2>1. Cardinality(Below(x)) \in Nat /\ Cardinality(Below(y)) \in Nat
    BY <1>2
  <2>2. <<x, y>> \in R \/ <<y, x>> \in R
    BY DEF StrictOrder
  <2>3. \/ Cardinality(Below(x)) < Cardinality(Below(y))
        \/ Cardinality(Below(y)) < Cardinality(Below(x))
    BY <1>3, <2>2
  <2> HIDE DEF Below
  <2> QED
    BY <2>1, <2>3
<1>6. \A k \in 1..n : \E x \in S : place[x] = k
  <2>1. place \in Injection(S, 1..n)
    <3> HIDE DEF place
    <3>1. DOMAIN place = S
      BY <1>4
    <3> QED
      BY <1>4, <1>5, <3>1 DEF Injection, IsInjective
  <2>2. IsFiniteSet(1..n) /\ Cardinality(1..n) = n
    BY <1>1, FS_Interval
  <2> HIDE DEF place
  <2>3. place \in Surjection(S, 1..n)
    BY <2>1, <2>2, FS_Injection
  <2> QED
    BY <2>3 DEF Surjection
<1>7. ASSUME NEW k \in 1..n
      PROVE  s[k] \in S /\ place[s[k]] = k
  <2> DEFINE x == CHOOSE x \in S : Cardinality({y \in S : <<y, x>> \in R}) = k - 1
  <2>1. s[k] = x
    BY DEF InOrder
  <2>2. PICK z \in S : place[z] = k
    BY <1>6
  <2>3. Cardinality(Below(z)) + 1 = k /\ Cardinality(Below(z)) \in 0..(n - 1)
    BY <1>2, <2>2
  <2>4. Cardinality(Below(z)) = k - 1 /\ k \in Nat
    BY <1>1, <2>3
  <2>5. x \in S /\ Cardinality(Below(x)) = k - 1
    BY <2>4
  <2> HIDE DEF x, Below
  <2>6. (k - 1) + 1 = k
    BY <2>4
  <2> QED
    BY <2>1, <2>5, <2>6
<1>8. s \in [1..n -> S] /\ DOMAIN s = 1..n
  <2> DEFINE At(k) == CHOOSE x \in S : Cardinality({y \in S : <<y, x>> \in R}) = k - 1
  <2>1. s = [k \in 1..n |-> At(k)]
    BY DEF InOrder
  <2> HIDE DEF s, place, At
  <2> QED
    BY <1>7, <2>1
<1> HIDE DEF place, s
<1>9. s \in Seq(S) /\ Len(s) = n
  BY <1>1, <1>8, FunctionsAreSequences
<1>10. IsList(s, S)
  BY <1>7, <1>9 DEF IsList
<1>11. ToSet(s) = S
  <2>1. \A x \in S : place[x] \in 1..n /\ s[place[x]] = x
    BY <1>4, <1>5, <1>7
  <2> QED
    BY <1>8, <2>1 DEF ToSet
<1>12. ASSUME NEW i \in 1..n, NEW j \in 1..n, i < j
       PROVE  <<s[i], s[j]>> \in R
  <2>1. /\ s[i] \in S /\ s[j] \in S /\ place[s[i]] = i /\ place[s[j]] = j
        /\ i \in Nat /\ j \in Nat
    BY <1>1, <1>7
  <2>2. <<s[i], s[j]>> \in R \/ <<s[j], s[i]>> \in R
    BY <1>12, <2>1 DEF StrictOrder
  <2>3. ASSUME <<s[j], s[i]>> \in R PROVE FALSE
    <3>1. Cardinality(Below(s[j])) < Cardinality(Below(s[i]))
      BY <1>3, <2>1, <2>3
    <3>2. Cardinality(Below(s[j])) + 1 = j /\ Cardinality(Below(s[i])) + 1 = i
      BY <2>1 DEF place
    <3>3. Cardinality(Below(s[j])) \in 0..(n - 1) /\ Cardinality(Below(s[i])) \in 0..(n - 1)
      BY <1>2, <2>1
    <3> HIDE DEF Below
    <3> QED
      BY <1>1, <1>12, <3>1, <3>2, <3>3
  <2> QED
    BY <2>2, <2>3
<1> QED
  BY <1>9, <1>10, <1>11, <1>12 DEF s

\* Part of a list, in the order of the list.
LEMMA KeptFacts ==
  ASSUME NEW S, NEW s, IsList(s, S), NEW T \in SUBSET ToSet(s)
  PROVE  /\ IsList(Kept(s, T), S) /\ ToSet(Kept(s, T)) = T
         /\ \A i, j \in 1..Len(Kept(s, T)) :
              i < j => Rank(s, Kept(s, T)[i]) < Rank(s, Kept(s, T)[j])
<1> DEFINE R == {pair \in T \X T : Rank(s, pair[1]) < Rank(s, pair[2])}
           t == Kept(s, T)
<1>1. IsFiniteSet(T) /\ T \subseteq S /\ Len(s) \in Nat
  BY ListFacts, FS_Subset
<1>2. \A x \in T : Rank(s, x) \in 1..Len(s) /\ s[Rank(s, x)] = x
  BY RankFacts
<1>3. \A x, y \in T : <<x, y>> \in R <=> Rank(s, x) < Rank(s, y)
  OBVIOUS
<1>4. StrictOrder(T, R)
  <2> HIDE DEF R
  <2>1. \A x \in T : Rank(s, x) \in Nat
    BY <1>1, <1>2
  <2>2. \A x, y \in T : x # y => Rank(s, x) # Rank(s, y)
    BY <1>2
  <2> QED
    BY <1>3, <2>1, <2>2 DEF StrictOrder
<1>5. t = InOrder(T, R)
  BY DEF Kept
<1> HIDE DEF R, t
<1>6. /\ IsList(t, T) /\ ToSet(t) = T
      /\ \A i, j \in 1..Len(t) : i < j => <<t[i], t[j]>> \in R
  BY <1>1, <1>4, <1>5, InOrderFacts
<1>7. IsList(t, S) /\ \A i \in 1..Len(t) : t[i] \in T
  BY <1>1, <1>6, ListFacts, SeqMonotonic DEF IsList
<1> QED
  BY <1>3, <1>6, <1>7 DEF t

\* The first of a list.
LEMMA CutFacts ==
  ASSUME NEW S, NEW s, IsList(s, S), NEW n \in Nat
  PROVE  /\ IsList(Cut(s, n), S) /\ ToSet(Cut(s, n)) \subseteq ToSet(s)
         /\ Len(Cut(s, n)) <= Len(s)
         /\ \A i \in 1..Len(Cut(s, n)) : i \in 1..Len(s) /\ Cut(s, n)[i] = s[i]
<1> DEFINE m == Lesser(n, Len(s))
           t == Cut(s, n)
<1>1. Len(s) \in Nat /\ \A i \in 1..Len(s) : s[i] \in S /\ s[i] \in ToSet(s)
  BY ListFacts
<1>2. m \in Nat /\ m <= Len(s) /\ \A i \in 1..m : i \in 1..Len(s)
  BY <1>1 DEF Lesser
<1>3. t = [i \in 1..m |-> s[i]]
  BY DEF Cut
<1> HIDE DEF m, t
<1>4. t \in [1..m -> S] /\ \A i \in 1..m : t[i] = s[i]
  BY <1>1, <1>2, <1>3
<1>5. t \in Seq(S) /\ Len(t) = m /\ DOMAIN t = 1..m
  BY <1>2, <1>4, FunctionsAreSequences
<1>6. IsList(t, S)
  BY <1>2, <1>4, <1>5 DEF IsList
<1>7. ToSet(t) \subseteq ToSet(s)
  BY <1>1, <1>2, <1>4, <1>5 DEF ToSet
<1> QED
  BY <1>2, <1>4, <1>5, <1>6, <1>7 DEF t

\* Any order a leg or a reranker may put things in.
LEMMA OrdersFacts ==
  ASSUME NEW S, NEW n \in Nat, NEW s \in Orders(S, n)
  PROVE  IsList(s, S) /\ Len(s) = n
<1>1. s \in [1..n -> S] /\ \A i, j \in 1..n : i # j => s[i] # s[j]
  BY DEF Orders
<1> QED
  BY <1>1, FunctionsAreSequences DEF IsList

LEMMA ListsFacts ==
  ASSUME NEW S, IsFiniteSet(S), NEW s \in Lists(S)
  PROVE  IsList(s, S) /\ ToSet(s) = S
<1>1. Cardinality(S) \in Nat
  BY FS_CardinalityType
<1>2. IsList(s, S) /\ Len(s) = Cardinality(S)
  BY <1>1, OrdersFacts DEF Lists
<1>3. ToSet(s) \in SUBSET S /\ Cardinality(ToSet(s)) = Cardinality(S)
  BY <1>2, ListFacts
<1> QED
  BY <1>2, <1>3, FS_Subset

\* One list after another that has none of its members.
LEMMA JoinedFacts ==
  ASSUME NEW S, NEW s, IsList(s, S), NEW t, IsList(t, S), ToSet(s) \cap ToSet(t) = {}
  PROVE  /\ IsList(s \o t, S) /\ ToSet(s \o t) = ToSet(s) \cup ToSet(t)
         /\ Len(s \o t) = Len(s) + Len(t)
         /\ \A i \in 1..Len(s \o t) :
              (s \o t)[i] = IF i <= Len(s) THEN s[i] ELSE t[i - Len(s)]
<1> DEFINE u == s \o t
           m == Len(s)
           n == Len(t)
<1>1. /\ m \in Nat /\ \A i \in 1..m : s[i] \in ToSet(s)
      /\ \A x \in ToSet(s) : \E i \in 1..m : s[i] = x
  BY ListFacts
<1>2. /\ n \in Nat /\ \A i \in 1..n : t[i] \in ToSet(t)
      /\ \A x \in ToSet(t) : \E i \in 1..n : t[i] = x
  BY ListFacts
<1>3. /\ u \in Seq(S) /\ Len(u) = m + n
      /\ \A i \in 1..(m + n) : u[i] = IF i <= m THEN s[i] ELSE t[i - m]
  BY ConcatProperties DEF IsList
<1>4. DOMAIN u = 1..(m + n)
  BY <1>3, LenProperties
<1>5. /\ \A i, j \in 1..m : i # j => s[i] # s[j]
      /\ \A i, j \in 1..n : i # j => t[i] # t[j]
  BY DEF IsList
<1> HIDE DEF u, m, n
<1>6. ASSUME NEW i \in 1..(m + n)
      PROVE  IF i <= m THEN i \in 1..m ELSE i - m \in 1..n
  BY <1>1, <1>2
<1>7. ASSUME NEW i \in 1..(m + n), NEW j \in 1..(m + n), i # j
      PROVE  u[i] # u[j]
  <2>1. CASE i <= m /\ j <= m
    BY <1>3, <1>5, <1>6, <1>7, <2>1
  <2>2. CASE ~(i <= m) /\ ~(j <= m)
    <3>1. i - m \in 1..n /\ j - m \in 1..n /\ i - m # j - m
      BY <1>1, <1>2, <1>7, <2>2
    <3> QED
      BY <1>3, <1>5, <2>2, <3>1
  <2>3. CASE (i <= m) # (j <= m)
    BY <1>1, <1>2, <1>3, <1>6, <2>3
  <2> QED
    BY <2>1, <2>2, <2>3
<1>8. ToSet(u) = ToSet(s) \cup ToSet(t)
  <2>1. \A i \in 1..(m + n) : u[i] \in ToSet(s) \cup ToSet(t)
    BY <1>1, <1>2, <1>3, <1>6
  <2>2. ASSUME NEW x \in ToSet(s) PROVE \E i \in 1..(m + n) : u[i] = x
    <3>1. PICK i \in 1..m : s[i] = x
      BY <1>1
    <3>2. i \in 1..(m + n) /\ i <= m
      BY <1>1, <1>2
    <3> QED
      BY <1>3, <3>1, <3>2
  <2>3. ASSUME NEW x \in ToSet(t) PROVE \E i \in 1..(m + n) : u[i] = x
    <3>1. PICK i \in 1..n : t[i] = x
      BY <1>2
    <3>2. i + m \in 1..(m + n) /\ ~(i + m <= m) /\ (i + m) - m = i
      BY <1>1, <1>2
    <3> QED
      BY <1>3, <3>1, <3>2
  <2>4. ToSet(u) = {u[i] : i \in 1..(m + n)}
    BY <1>4 DEF ToSet
  <2> QED
    BY <2>1, <2>2, <2>3, <2>4
<1> QED
  BY <1>3, <1>7, <1>8 DEF IsList, u, m, n

-----------------------------------------------------------------------------
(* What a question may hold *)

Passages == Nodes \X (1..MaxVersions) \X Nat

\* What was found, and what came of it: by how it was found, and by its tier.
Finds == [passage : Passages, via : {"hit", "user", "ai"}]
Ranked == [passage : Passages, tier : 1..5]

\* A list of finds, or of ranked ones, that holds no passage twice.
IsContext(s, S) ==
  /\ s \in Seq(S)
  /\ \A i, j \in 1..Len(s) : i # j => s[i].passage # s[j].passage

LEMMA ConstantFacts ==
  /\ IsFiniteSet(Nodes) /\ MaxVersions \in Nat \ {0}
  /\ TopK \in Nat \ {0} /\ KeepN \in Nat \ {0} /\ RrfK \in Nat \ {0}
  /\ Limit \in Nat \ {0} /\ Hops \in Nat /\ MaxChanges \in Nat
  /\ \A n \in Nodes : Places[n] \in Nat \ {0}
  BY RetrievalAssumption

\* The passages of finitely many contents are finitely many.
LEMMA PassageFacts ==
  ASSUME NEW C \in SUBSET Contents
  PROVE  /\ PassagesIn(C) \subseteq Passages /\ IsFiniteSet(PassagesIn(C))
         /\ \A p \in PassagesIn(C) : ContentOf(p) \in C
<1>1. ASSUME NEW c \in C
      PROVE  /\ PassagesOf(c) \subseteq Passages
             /\ \A p \in PassagesOf(c) : ContentOf(p) = c
             /\ IsFiniteSet(PassagesOf(c))
  <2>1. c[1] \in Nodes /\ c[2] \in 1..MaxVersions /\ c = <<c[1], c[2]>>
    BY DEF Contents
  <2>2. Places[c[1]] \in Nat
    BY <2>1, ConstantFacts
  <2>3. PassagesOf(c) \subseteq Passages /\ \A p \in PassagesOf(c) : ContentOf(p) = c
    BY <2>1, <2>2 DEF PassagesOf, Passages, ContentOf
  <2> DEFINE f == [i \in 1..Places[c[1]] |-> <<c[1], c[2], i>>]
  <2>4. f \in Surjection(1..Places[c[1]], PassagesOf(c))
    <3>1. f \in [1..Places[c[1]] -> PassagesOf(c)]
      BY DEF PassagesOf
    <3>2. \A p \in PassagesOf(c) : \E i \in 1..Places[c[1]] : f[i] = p
      BY DEF PassagesOf
    <3> QED
      BY <3>1, <3>2 DEF Surjection
  <2> HIDE DEF f
  <2>5. IsFiniteSet(1..Places[c[1]])
    BY <2>2, FS_Interval
  <2> QED
    BY <2>3, <2>4, <2>5, FS_Surjection
<1>2. PassagesIn(C) \subseteq Passages /\ \A p \in PassagesIn(C) : ContentOf(p) \in C
  BY <1>1 DEF PassagesIn
<1>3. IsFiniteSet(C)
  <2>1. IsFiniteSet(1..MaxVersions)
    BY ConstantFacts, FS_Interval
  <2>2. IsFiniteSet(Contents)
    BY <2>1, ConstantFacts, FS_Product DEF Contents
  <2> QED
    BY <2>2, FS_Subset
<1>4. IsFiniteSet({PassagesOf(c) : c \in C})
  <2> DEFINE D == {PassagesOf(c) : c \in C}
             f == [c \in C |-> PassagesOf(c)]
  <2>1. f \in Surjection(C, D)
    <3>1. f \in [C -> D] /\ \A d \in D : \E c \in C : f[c] = d
      OBVIOUS
    <3> QED
      BY <3>1 DEF Surjection
  <2> HIDE DEF f, D
  <2>2. IsFiniteSet(D)
    BY <1>3, <2>1, FS_Surjection
  <2> QED
    BY <2>2 DEF D
<1>5. IsFiniteSet(PassagesIn(C))
  <2>1. \A d \in {PassagesOf(c) : c \in C} : IsFiniteSet(d)
    BY <1>1
  <2> QED
    BY <1>4, <2>1, FS_UNION DEF PassagesIn
<1> QED
  BY <1>2, <1>5

LEMMA ContentFacts ==
  ASSUME NEW p \in Passages
  PROVE  /\ p[1] \in Nodes /\ p[2] \in 1..MaxVersions
         /\ ContentOf(p) \in Contents /\ ContentOf(p) = <<p[1], p[2]>>
  BY DEF Passages, ContentOf, Contents

LEMMA ContextFacts ==
  ASSUME NEW S, NEW s, IsContext(s, S)
  PROVE  /\ IsList(s, S)
         /\ \A x, y \in ToSet(s) : x # y => x.passage # y.passage
<1>1. IsList(s, S)
  BY DEF IsContext, IsList
<1>2. \A x \in ToSet(s) : \E i \in 1..Len(s) : s[i] = x
  BY <1>1, ListFacts
<1> QED
  BY <1>1, <1>2 DEF IsContext

\* A list of some of a context is a context.
LEMMA PartOfContext ==
  ASSUME NEW S, NEW s, IsContext(s, S), NEW t, IsList(t, S), ToSet(t) \subseteq ToSet(s)
  PROVE  IsContext(t, S)
<1>1. \A i \in 1..Len(t) : t[i] \in ToSet(t)
  BY ListFacts
<1>2. \A x, y \in ToSet(s) : x # y => x.passage # y.passage
  BY ContextFacts
<1> QED
  BY <1>1, <1>2 DEF IsContext, IsList

-----------------------------------------------------------------------------
(* The fused order is one *)

\* Induction, as a set: one that has 0 and the next of each number has all.
LEMMA AllNumbers ==
  ASSUME NEW S \in SUBSET Nat, 0 \in S, \A m \in S : m + 1 \in S
  PROVE  S = Nat
<1> DEFINE Missing == Nat \ S
<1> SUFFICES ASSUME Missing # {} PROVE FALSE
  OBVIOUS
<1>1. PICK m \in Missing : \A k \in Missing : ~(<<k, m>> \in OpToRel(<, Nat))
  BY NatLessThanWellFounded, WFMin
<1>2. m \in Nat /\ m # 0
  OBVIOUS
<1>3. m - 1 \in Nat /\ (m - 1) + 1 = m /\ m - 1 < m
  BY <1>2
<1>4. m - 1 \in S
  BY <1>1, <1>3 DEF OpToRel
<1> QED
  BY <1>3, <1>4

UpTo(n) == CHOOSE f : f = [i \in 0..n |-> IF i = 0 THEN 1 ELSE f[i - 1] * (RrfK + i)]

LEMMA UpToExists ==
  ASSUME NEW n \in Nat
  PROVE  UpTo(n) = [i \in 0..n |-> IF i = 0 THEN 1 ELSE UpTo(n)[i - 1] * (RrfK + i)]
<1> DEFINE Is(m, f) == f = [i \in 0..m |-> IF i = 0 THEN 1 ELSE f[i - 1] * (RrfK + i)]
           Some == {m \in Nat : \E f : Is(m, f)}
<1>1. 0 \in Some
  <2> DEFINE f == [i \in 0..0 |-> 1]
  <2>1. \A i \in 0..0 : i = 0
    OBVIOUS
  <2>2. Is(0, f)
    BY <2>1
  <2> QED
    BY <2>2
<1>2. ASSUME NEW m \in Some
      PROVE  m + 1 \in Some
  <2>1. PICK f : f = [i \in 0..m |-> IF i = 0 THEN 1 ELSE f[i - 1] * (RrfK + i)]
    OBVIOUS
  <2> DEFINE After(h, i) == IF i = 0 THEN 1 ELSE h[i - 1] * (RrfK + i)
             g == [i \in 0..(m + 1) |-> IF i = m + 1 THEN After(f, i) ELSE f[i]]
  <2>2. m \in Nat /\ m + 1 \in Nat
    OBVIOUS
  <2>3. \A i \in 0..(m + 1) : i = 0 \/ (i - 1 \in 0..(m + 1) /\ i - 1 # m + 1)
    BY <2>2
  <2>4. \A i \in 0..(m + 1) : i = m + 1 \/ i \in 0..m
    BY <2>2
  <2>5. \A i \in 0..(m + 1) : i = 0 \/ g[i - 1] = f[i - 1]
    BY <2>3
  <2> HIDE DEF g
  <2>6. \A i \in 0..(m + 1) : After(g, i) = After(f, i)
    BY <2>5
  <2>7. \A i \in 0..m : f[i] = After(f, i)
    BY <2>1
  <2> HIDE DEF After
  <2>8. g = [i \in 0..(m + 1) |-> After(g, i)]
    BY <2>4, <2>6, <2>7 DEF g
  <2>9. Is(m + 1, g)
    BY <2>8 DEF After
  <2> QED
    BY <2>2, <2>9
<1> HIDE DEF Is
<1>3. Some = Nat
  BY <1>1, <1>2, AllNumbers
<1>4. \E f : Is(n, f)
  BY <1>3
<1> QED
  BY <1>4 DEF Is, UpTo

LEMMA UnitIsANumber == Unit \in Nat
<1>1. TopK \in Nat /\ RrfK \in Nat
  BY ConstantFacts
<1> DEFINE f == UpTo(TopK)
           Whole == {i \in Nat : i \in 0..TopK => f[i] \in Nat}
<1>2. /\ f[0] = 1
      /\ \A i \in 0..TopK : i # 0 => f[i] = f[i - 1] * (RrfK + i)
  <2>1. f = [i \in 0..TopK |-> IF i = 0 THEN 1 ELSE f[i - 1] * (RrfK + i)]
    BY <1>1, UpToExists
  <2>2. 0 \in 0..TopK
    BY <1>1
  <2> HIDE DEF f
  <2> QED
    BY <2>1, <2>2
<1>3. Unit = f[TopK]
  BY DEF Unit, UpTo
<1> HIDE DEF f
<1>4. 0 \in Whole
  BY <1>2
<1>5. ASSUME NEW m \in Whole PROVE m + 1 \in Whole
  <2> SUFFICES ASSUME m + 1 \in 0..TopK PROVE f[m + 1] \in Nat
    OBVIOUS
  <2>1. m \in 0..TopK /\ m + 1 # 0 /\ (m + 1) - 1 = m /\ RrfK + (m + 1) \in Nat
    BY <1>1
  <2>2. f[m] \in Nat /\ f[m + 1] = f[m] * (RrfK + (m + 1))
    BY <1>2, <2>1
  <2> QED
    BY <2>1, <2>2
<1>6. Whole = Nat
  BY <1>4, <1>5, AllNumbers
<1> QED
  BY <1>1, <1>3, <1>6

LEMMA WeightIsANumber ==
  ASSUME NEW S, NEW leg, IsList(leg, S), NEW p
  PROVE  Weight(leg, p) \in Nat
<1>1. CASE p \in ToSet(leg)
  <2>1. Rank(leg, p) \in Nat
    BY <1>1, RankFacts, ListFacts
  <2>2. RrfK + Rank(leg, p) \in Nat \ {0}
    BY <2>1, ConstantFacts
  <2>3. \A u \in Nat, d \in Nat \ {0} : u \div d \in Nat
    OBVIOUS
  <2> QED
    BY <1>1, <2>2, <2>3, UnitIsANumber DEF Weight
<1> QED
  BY <1>1 DEF Weight

LEMMA LegsOrdered ==
  ASSUME IsList(lexical, Passages), IsList(dense, Passages)
  PROVE  /\ IsFiniteSet(Hits) /\ Hits \subseteq Passages
         /\ StrictOrder(Hits, {pair \in Hits \X Hits : Better(pair[1], pair[2])})
<1> DEFINE R == {pair \in Hits \X Hits : Better(pair[1], pair[2])}
<1>1. IsFiniteSet(Hits) /\ Hits \subseteq Passages
  BY ListFacts, FS_Union DEF Hits
<1>2. \A p, q \in Hits : <<p, q>> \in R <=> Better(p, q)
  OBVIOUS
<1>3. \A p \in Hits : Score(p) \in Nat
  <2>1. \A p : Weight(lexical, p) \in Nat /\ Weight(dense, p) \in Nat
    BY WeightIsANumber
  <2> QED
    BY <2>1 DEF Score
<1>4. /\ \A p \in ToSet(lexical) : Rank(lexical, p) \in Nat
      /\ \A p \in ToSet(dense) : Rank(dense, p) \in Nat
      /\ \A p, q \in ToSet(lexical) : p # q => Rank(lexical, p) # Rank(lexical, q)
      /\ \A p, q \in ToSet(dense) : p # q => Rank(dense, p) # Rank(dense, q)
  <2>1. /\ \A p \in ToSet(lexical) : /\ Rank(lexical, p) \in 1..Len(lexical)
                                     /\ lexical[Rank(lexical, p)] = p
        /\ \A p \in ToSet(dense) : /\ Rank(dense, p) \in 1..Len(dense)
                                   /\ dense[Rank(dense, p)] = p
        /\ Len(lexical) \in Nat /\ Len(dense) \in Nat
    BY RankFacts, ListFacts
  <2> QED
    BY <2>1
<1>5. /\ \A p \in Hits : ~Arrival(p, p)
      /\ \A p, q \in Hits : p # q => Arrival(p, q) \/ Arrival(q, p)
      /\ \A p, q, r \in Hits : Arrival(p, q) /\ Arrival(q, r) => Arrival(p, r)
  BY <1>4 DEF Arrival, Hits
<1> HIDE DEF R
<1>6. StrictOrder(Hits, R)
  <2>1. \A p \in Hits : <<p, p>> \notin R
    BY <1>2, <1>3, <1>5 DEF Better
  <2>2. \A p, q \in Hits : p # q => <<p, q>> \in R \/ <<q, p>> \in R
    BY <1>2, <1>3, <1>5 DEF Better
  <2>3. \A p, q, r \in Hits : <<p, q>> \in R /\ <<q, r>> \in R => <<p, r>> \in R
    BY <1>2, <1>3, <1>5 DEF Better
  <2> QED
    BY <2>1, <2>2, <2>3 DEF StrictOrder
<1> QED
  BY <1>1, <1>6 DEF R

LEMMA FusedFacts ==
  ASSUME IsList(lexical, Passages), IsList(dense, Passages)
  PROVE  /\ IsList(Fused, Hits) /\ ToSet(Fused) = Hits
         /\ \A i, j \in 1..Len(Fused) : i < j => Better(Fused[i], Fused[j])
         /\ IsList(TopFused, Passages) /\ ToSet(TopFused) \subseteq Hits
<1> DEFINE R == {pair \in Hits \X Hits : Better(pair[1], pair[2])}
<1>1. IsFiniteSet(Hits) /\ Hits \subseteq Passages /\ StrictOrder(Hits, R)
  BY LegsOrdered
<1>2. Fused = InOrder(Hits, R)
  BY DEF Fused
<1>3. \A p, q : <<p, q>> \in R => Better(p, q)
  OBVIOUS
<1> HIDE DEF R
<1>4. /\ IsList(Fused, Hits) /\ ToSet(Fused) = Hits
      /\ \A i, j \in 1..Len(Fused) : i < j => Better(Fused[i], Fused[j])
  BY <1>1, <1>2, <1>3, InOrderFacts
<1>5. IsList(Fused, Passages)
  BY <1>1, <1>4, SeqMonotonic DEF IsList
<1>6. IsList(TopFused, Passages) /\ ToSet(TopFused) \subseteq Hits
  BY <1>4, <1>5, CutFacts, ConstantFacts DEF TopFused
<1> QED
  BY <1>4, <1>6

LEMMA WithRowsFacts ==
  ASSUME NEW s, IsList(s, Passages)
  PROVE  IsList(WithRows(s), Passages) /\ ToSet(WithRows(s)) \subseteq ToSet(s)
<1>1. {p \in ToSet(s) : ContentOf(p) \in indexed} \in SUBSET ToSet(s)
  OBVIOUS
<1> QED
  BY <1>1, KeptFacts DEF WithRows

\* Dividing by less gives no less.
LEMMA Shares ==
  ASSUME NEW u \in Nat, NEW a \in Nat \ {0}, NEW b \in Nat \ {0}, a < b
  PROVE  u \div b <= u \div a
<1> DEFINE q == u \div b
           r == u \div a
<1>1. q \in Nat /\ b * q <= u
  OBVIOUS
<1>2. r \in Nat /\ u < a * (r + 1)
  OBVIOUS
<1> HIDE DEF q, r
<1>3. a * q <= b * q
  BY <1>1
<1>4. a * q <= u
  BY <1>1, <1>3
<1>5. ASSUME r + 1 <= q PROVE FALSE
  <2>1. a * (r + 1) <= a * q
    BY <1>1, <1>2, <1>5
  <2> QED
    BY <1>1, <1>2, <1>4, <2>1
<1> QED
  BY <1>1, <1>2, <1>5 DEF q, r

\* retrieval.py, reciprocal_rank_fusion: of two passages the one that stands
\* higher in every leg the other is in stands higher in what is fused of them,
\* for any legs of any length.
LEMMA FusedByBoth ==
  ASSUME IsList(lexical, Passages), IsList(dense, Passages),
         NEW p \in Hits, NEW q \in Hits,
         \A leg \in {lexical, dense} :
           q \in ToSet(leg) => p \in ToSet(leg) /\ Rank(leg, p) < Rank(leg, q)
  PROVE  Rank(Fused, p) < Rank(Fused, q)
<1>1. ASSUME NEW leg, IsList(leg, Passages),
             q \in ToSet(leg) => p \in ToSet(leg) /\ Rank(leg, p) < Rank(leg, q)
      PROVE  /\ Weight(leg, p) \in Nat /\ Weight(leg, q) \in Nat
             /\ Weight(leg, q) <= Weight(leg, p)
  <2>1. Weight(leg, p) \in Nat /\ Weight(leg, q) \in Nat
    BY <1>1, WeightIsANumber
  <2>2. CASE q \in ToSet(leg)
    <3> DEFINE a == RrfK + Rank(leg, p)
               b == RrfK + Rank(leg, q)
    <3>1. Rank(leg, p) \in Nat /\ Rank(leg, q) \in Nat
      BY <1>1, <2>2, RankFacts, ListFacts
    <3>2. a \in Nat \ {0} /\ b \in Nat \ {0} /\ a < b
      BY <1>1, <2>2, <3>1, ConstantFacts
    <3>3. Weight(leg, p) = Unit \div a /\ Weight(leg, q) = Unit \div b
      BY <1>1, <2>2 DEF Weight
    <3> HIDE DEF a, b
    <3> QED
      BY <2>1, <3>2, <3>3, Shares, UnitIsANumber
  <2>3. CASE q \notin ToSet(leg)
    BY <2>1, <2>3 DEF Weight
  <2> QED
    BY <2>1, <2>2, <2>3
<1>2. Score(p) \in Nat /\ Score(q) \in Nat /\ Score(q) <= Score(p)
  <2>1. /\ Weight(lexical, p) \in Nat /\ Weight(lexical, q) \in Nat
        /\ Weight(lexical, q) <= Weight(lexical, p)
    BY <1>1
  <2>2. /\ Weight(dense, p) \in Nat /\ Weight(dense, q) \in Nat
        /\ Weight(dense, q) <= Weight(dense, p)
    BY <1>1
  <2> QED
    BY <2>1, <2>2 DEF Score
<1>3. Arrival(p, q)
  BY DEF Arrival, Hits
<1>4. Better(p, q) /\ ~Better(q, p) /\ p # q
  <2>1. ~Arrival(q, p) /\ p # q
    <3>1. \A leg \in {lexical, dense} : \A x \in ToSet(leg) : Rank(leg, x) \in Nat
      BY RankFacts, ListFacts
    <3> QED
      BY <3>1 DEF Arrival, Hits
  <2> QED
    BY <1>2, <1>3, <2>1 DEF Better
<1>5. /\ Rank(Fused, p) \in 1..Len(Fused) /\ Fused[Rank(Fused, p)] = p
      /\ Rank(Fused, q) \in 1..Len(Fused) /\ Fused[Rank(Fused, q)] = q
      /\ \A i, j \in 1..Len(Fused) : i < j => Better(Fused[i], Fused[j])
      /\ Len(Fused) \in Nat
  BY FusedFacts, RankFacts, ListFacts
<1> DEFINE i == Rank(Fused, p)
           j == Rank(Fused, q)
<1> HIDE DEF i, j
<1>6. i \in 1..Len(Fused) /\ j \in 1..Len(Fused) /\ i # j /\ ~(j < i)
  BY <1>4, <1>5 DEF i, j
<1> QED
  BY <1>5, <1>6 DEF i, j

-----------------------------------------------------------------------------
(* The invariant *)

Stages == {"idle", "lexical", "rescope", "dense", "fuse", "expand", "traverse",
           "resolve", "resolve externals", "fetch", "rank", "pin", "pinned",
           "collapse", "done"}

RetrievalTypeOK ==
  /\ head \in [Nodes -> 1..MaxVersions] /\ alive \in [Nodes -> BOOLEAN]
  /\ indexed \subseteq Contents /\ embedded \subseteq Contents
  /\ edges \subseteq Edges /\ changes \in 0..MaxChanges
  /\ step \in Stages /\ mode \in {"ask", "related"}
  /\ scope \subseteq Contents
  /\ IsList(lexical, Passages) /\ IsList(dense, Passages) /\ IsList(hits, Passages)
  /\ graph \subseteq Edges /\ reached \subseteq Contents
  /\ IsContext(context, IF step \in {"pin", "pinned", "collapse", "done"} THEN Ranked ELSE Finds)
  /\ seen \subseteq Contents

\* What a question holds was the live head of something since it was asked.
Sourced ==
  /\ step # "idle" => LiveHeads \subseteq seen
  /\ step = "idle" => seen = {}
  /\ scope \subseteq seen /\ reached \subseteq seen
  /\ \A p \in ToSet(lexical) \cup ToSet(dense) \cup ToSet(hits) : ContentOf(p) \in seen
  /\ \A x \in ToSet(context) : ContentOf(x.passage) \in seen

\* Contents come one after the other.
Grown == \A c \in seen : c[2] <= head[c[1]]

\* Only an AI's edge leads to n from what was hit.
Guess(n) == ~\E e \in graph : e.to = n /\ e.source = "user" /\ e.from \in Seeds

\* The context of each stage, and what its tiers say.
Arranged ==
  /\ step \notin {"rank", "pin", "pinned", "collapse", "done"} => context = <<>>
  /\ Hops = 0 /\ step # "pinned" => reached = {}
  /\ step \in {"pin", "pinned"} => mode = "ask"
  /\ step = "collapse" => mode = "related"
  /\ step = "rank" => \A x \in ToSet(context) : x.via = "ai" => Guess(x.passage[1])
  /\ step \in {"rank", "pin", "pinned"} \/ (step = "done" /\ mode = "ask") =>
       \A p \in ToSet(hits) : \E x \in ToSet(context) : x.passage = p
  /\ step = "done" /\ mode = "related" =>
       \A i, j \in 1..Len(context) :
         i # j => context[i].passage[1] # context[j].passage[1]

Tiered ==
  step \in {"pin", "pinned", "collapse", "done"} =>
    /\ \A x \in ToSet(context) :
         /\ x.tier = 5 => Guess(x.passage[1])
         /\ x.tier = 4 => x.passage[2] < head[x.passage[1]]
    /\ \A i, j \in 1..Len(context) : i < j => context[i].tier <= context[j].tier

RetrievalInv == RetrievalTypeOK /\ Sourced /\ Grown /\ Arranged /\ Tiered

-----------------------------------------------------------------------------
(* The invariant holds what the runs check *)

LEMMA InvSourced == RetrievalInv => OnlyLiveSinceAsked
<1> SUFFICES ASSUME RetrievalInv, step = "done", NEW i \in DOMAIN context
             PROVE  ContentOf(context[i].passage) \in seen
  BY DEF OnlyLiveSinceAsked
<1>1. IsContext(context, Ranked)
  BY DEF RetrievalInv, RetrievalTypeOK
<1>2. context[i] \in ToSet(context)
  BY DEF ToSet
<1> QED
  BY <1>2 DEF RetrievalInv, Sourced

LEMMA InvKept == RetrievalInv => KeptOnce
<1> SUFFICES ASSUME RetrievalInv, step = "done" PROVE KeptOnce
  BY DEF KeptOnce
<1>1. IsContext(context, Ranked) /\ mode \in {"ask", "related"}
  BY DEF RetrievalInv, RetrievalTypeOK
<1>2. DOMAIN context = 1..Len(context)
  BY <1>1, ContextFacts, ListFacts
<1> DEFINE listed == [i \in DOMAIN context |-> context[i].passage]
           nodes == [i \in DOMAIN context |-> context[i].passage[1]]
<1>3. CASE mode = "related"
  <2>1. \A i, j \in 1..Len(context) :
          i # j => context[i].passage[1] # context[j].passage[1]
    BY <1>3 DEF RetrievalInv, Arranged
  <2>2. IsInjective(nodes)
    BY <1>2, <2>1 DEF IsInjective
  <2> QED
    BY <1>3, <2>2 DEF KeptOnce
<1>4. CASE mode = "ask"
  <2>1. \A p \in ToSet(hits) : \E x \in ToSet(context) : x.passage = p
    BY <1>4 DEF RetrievalInv, Arranged
  <2>2. ToSet(hits) \subseteq ToSet(listed)
    <3>1. \A x \in ToSet(context) : x.passage \in ToSet(listed)
      BY DEF ToSet
    <3> QED
      BY <2>1, <3>1
  <2>3. IsInjective(listed)
    BY <1>1, <1>2 DEF IsInjective, IsContext
  <2> QED
    BY <1>4, <2>2, <2>3 DEF KeptOnce
<1> QED
  BY <1>1, <1>3, <1>4

LEMMA InvEarned == RetrievalInv => TierIsEarned
<1> SUFFICES ASSUME RetrievalInv, step = "done", NEW i \in DOMAIN context
             PROVE  LET n == context[i].passage[1] IN
      /\ context[i].tier = 5 =>
           ~\E e \in graph : e.to = n /\ e.source = "user" /\ e.from \in Seeds
      /\ context[i].tier = 4 => \E v \in (context[i].passage[2] + 1)..MaxVersions :
                                  v <= head[n] /\ <<n, context[i].passage[2]>> \in seen
      /\ \A j \in DOMAIN context : i < j => context[i].tier <= context[j].tier
  BY DEF TierIsEarned
<1>1. IsContext(context, Ranked)
  BY DEF RetrievalInv, RetrievalTypeOK
<1>2. /\ DOMAIN context = 1..Len(context) /\ context[i] \in Ranked
      /\ context[i] \in ToSet(context)
  BY <1>1, ContextFacts, ListFacts
<1> DEFINE x == context[i]
           p == x.passage
           n == p[1]
<1>3. p \in Passages
  BY <1>2 DEF Ranked
<1> HIDE DEF p
<1>4. n \in Nodes /\ p[2] \in 1..MaxVersions /\ ContentOf(p) = <<n, p[2]>>
  BY <1>3, ContentFacts
<1>5. x.tier = 5 => Guess(n)
  BY <1>2 DEF RetrievalInv, Tiered, p
<1>6. x.tier = 4 => \E v \in (p[2] + 1)..MaxVersions :
                      v <= head[n] /\ <<n, p[2]>> \in seen
  <2> SUFFICES ASSUME x.tier = 4
               PROVE  \E v \in (p[2] + 1)..MaxVersions :
                        v <= head[n] /\ <<n, p[2]>> \in seen
    OBVIOUS
  <2>1. p[2] < head[n]
    BY <1>2 DEF RetrievalInv, Tiered, p
  <2>2. <<n, p[2]>> \in seen
    BY <1>2, <1>4 DEF RetrievalInv, Sourced, p
  <2>3. head[n] \in 1..MaxVersions /\ MaxVersions \in Nat
    BY <1>4, ConstantFacts DEF RetrievalInv, RetrievalTypeOK
  <2>4. head[n] \in (p[2] + 1)..MaxVersions /\ head[n] <= head[n]
    BY <1>4, <2>1, <2>3
  <2> QED
    BY <2>2, <2>4
<1>7. \A j \in DOMAIN context : i < j => context[i].tier <= context[j].tier
  BY <1>2 DEF RetrievalInv, Tiered
<1> QED
  BY <1>5, <1>6, <1>7 DEF Guess, p

-----------------------------------------------------------------------------
(* A write to the store *)

LEMMA WriteKeeps ==
  ASSUME RetrievalInv, UNCHANGED <<step, mode>>, UNCHANGED legs, UNCHANGED tail,
         head' \in [Nodes -> 1..MaxVersions], alive' \in [Nodes -> BOOLEAN],
         \A n \in Nodes : head[n] <= head'[n],
         indexed' \subseteq Contents, embedded' \subseteq Contents,
         edges' \subseteq Edges, changes' \in 0..MaxChanges,
         \/ UNCHANGED <<head, alive, seen>>
         \/ Sees
  PROVE  RetrievalInv'
<1>0. /\ UNCHANGED <<step, mode, scope, lexical, dense, hits, graph, reached, context>>
      /\ RetrievalTypeOK /\ Sourced /\ Grown /\ Arranged /\ Tiered
  BY DEF legs, tail, RetrievalInv
<1>1. /\ seen \subseteq seen' /\ seen' \subseteq seen \cup LiveHeads'
      /\ step = "idle" => seen' = {}
      /\ step # "idle" => LiveHeads' \subseteq seen'
  <2>1. CASE UNCHANGED <<head, alive, seen>>
    BY <1>0, <2>1 DEF Sourced, LiveHeads
  <2>2. CASE Sees
    BY <1>0, <2>2 DEF Sees, Sourced, LiveHeads
  <2> QED
    BY <2>1, <2>2
<1>2. \A n \in Nodes : head[n] \in 1..MaxVersions /\ head'[n] \in 1..MaxVersions
  BY <1>0 DEF RetrievalTypeOK
<1>3. LiveHeads' \subseteq Contents /\ \A c \in LiveHeads' : c[2] = head'[c[1]]
  BY <1>2 DEF LiveHeads, Contents
<1>4. seen' \subseteq Contents
  BY <1>0, <1>1, <1>3 DEF RetrievalTypeOK
<1>5. RetrievalTypeOK'
  BY <1>0, <1>4 DEF RetrievalTypeOK
<1>6. Sourced'
  <2>1. step' # "idle" => LiveHeads' \subseteq seen'
    BY <1>0, <1>1
  <2> QED
    BY <1>0, <1>1, <2>1 DEF Sourced
<1>7. Grown'
  <2> SUFFICES ASSUME NEW c \in seen' PROVE c[2] <= head'[c[1]]
    BY DEF Grown
  <2>1. c[1] \in Nodes /\ c[2] \in 1..MaxVersions
    BY <1>4 DEF Contents
  <2>2. c \in seen \/ c[2] = head'[c[1]]
    BY <1>1, <1>3
  <2>3. c \in seen => c[2] <= head[c[1]]
    BY <1>0 DEF Grown
  <2> QED
    BY <1>2, <2>1, <2>2, <2>3, ConstantFacts
<1>8. Seeds' = Seeds /\ \A n : Guess(n)' <=> Guess(n)
  <2>1. Seeds' = Seeds
    BY <1>0 DEF Seeds
  <2> QED
    BY <1>0, <2>1 DEF Guess
<1>9. Arranged'
  BY <1>0, <1>8 DEF Arranged
<1>10. Tiered'
  <2> SUFFICES ASSUME step \in {"pin", "pinned", "collapse", "done"} PROVE Tiered'
    BY <1>0 DEF Tiered
  <2>1. IsContext(context, Ranked)
    BY <1>0 DEF RetrievalTypeOK
  <2>2. ASSUME NEW x \in ToSet(context), x.tier = 4
        PROVE  x.passage[2] < head'[x.passage[1]]
    <3>1. x \in Ranked
      BY <2>1, ContextFacts, ListFacts
    <3>2. x.passage[1] \in Nodes /\ x.passage[2] \in 1..MaxVersions
      BY <3>1, ContentFacts DEF Ranked
    <3>3. x.passage[2] < head[x.passage[1]]
      BY <1>0, <2>2 DEF Tiered
    <3> QED
      BY <1>2, <3>2, <3>3, ConstantFacts
  <2> QED
    BY <1>0, <1>8, <2>2 DEF Tiered
<1> QED
  BY <1>5, <1>6, <1>7, <1>9, <1>10 DEF RetrievalInv

LEMMA ChangeKeepsRetrieval ==
  ASSUME RetrievalInv, Change
  PROVE  RetrievalInv'
<1>0. /\ head \in [Nodes -> 1..MaxVersions] /\ alive \in [Nodes -> BOOLEAN]
      /\ indexed \subseteq Contents /\ embedded \subseteq Contents
      /\ edges \subseteq Edges /\ changes \in 0..MaxChanges
      /\ Notes \subseteq Nodes /\ Externals \subseteq Nodes
  BY DEF RetrievalInv, RetrievalTypeOK, Nodes
<1>1. LiveHeads \subseteq Contents
  BY <1>0 DEF LiveHeads, Contents
<1>2. ASSUME Writes
      PROVE  /\ changes' \in 0..MaxChanges
             /\ UNCHANGED <<step, mode>> /\ UNCHANGED legs /\ UNCHANGED tail
  BY <1>0, <1>2, ConstantFacts DEF Writes
<1>3. ASSUME NEW n \in Nodes, head[n] < MaxVersions,
             head' = [head EXCEPT ![n] = @ + 1]
      PROVE  /\ head' \in [Nodes -> 1..MaxVersions]
             /\ \A m \in Nodes : head[m] <= head'[m]
  <2>1. \A m \in Nodes : head[m] \in 1..MaxVersions /\ MaxVersions \in Nat
    BY <1>0, ConstantFacts
  <2>2. head[n] + 1 \in 1..MaxVersions
    BY <1>3, <2>1
  <2> QED
    BY <1>0, <1>3, <2>1, <2>2
<1>4. \A m \in Nodes : head[m] <= head[m]
  BY <1>0, ConstantFacts
<1>5. ASSUME NEW n \in Notes, Save(n) PROVE RetrievalInv'
  BY <1>0, <1>2, <1>3, <1>5, WriteKeeps DEF Save
<1>6. ASSUME NEW e \in Externals, Ingest(e) PROVE RetrievalInv'
  <2>1. alive' \in [Nodes -> BOOLEAN]
    BY <1>0, <1>6 DEF Ingest
  <2> QED
    BY <1>0, <1>2, <1>3, <1>6, <2>1, WriteKeeps DEF Ingest
<1>7. ASSUME NEW n \in Nodes, Bury(n) PROVE RetrievalInv'
  <2>1. alive' \in [Nodes -> BOOLEAN]
    BY <1>0, <1>7 DEF Bury
  <2> QED
    BY <1>0, <1>2, <1>3, <1>7, <2>1, WriteKeeps DEF Bury
<1>8. ASSUME NEW c \in Contents, Index(c) PROVE RetrievalInv'
  BY <1>0, <1>2, <1>4, <1>8, WriteKeeps DEF Index
<1>9. ASSUME NEW c \in Contents, Embed(c) PROVE RetrievalInv'
  BY <1>0, <1>2, <1>4, <1>9, WriteKeeps DEF Embed
<1>10. ASSUME NEW e \in Edges, Relink(e) PROVE RetrievalInv'
  BY <1>0, <1>2, <1>4, <1>10, WriteKeeps DEF Relink
<1> QED
  BY <1>5, <1>6, <1>7, <1>8, <1>9, <1>10 DEF Change

-----------------------------------------------------------------------------
(* The stages up to the graph hop *)

LEMMA EmptyContext ==
  ASSUME NEW S
  PROVE  IsContext(<<>>, S) /\ IsList(<<>>, S) /\ ToSet(<<>>) = {}
<1>1. <<>> \in Seq(S) /\ Len(<<>>) = 0 /\ \A i \in 1..0 : FALSE
  BY EmptySeq
<1>2. DOMAIN <<>> = 1..0
  BY <1>1, LenProperties
<1> QED
  BY <1>1, <1>2 DEF IsContext, IsList, ToSet

\* A stage before there is a context finds something new.
LEMMA StageKeeps ==
  ASSUME RetrievalInv, UNCHANGED <<head, alive, indexed, embedded, edges, changes>>,
         step \notin {"rank", "pin", "pinned", "collapse", "done"}, context' = context,
         step' \in Stages \ {"idle", "rank", "pin", "pinned", "collapse", "done"},
         mode' \in {"ask", "related"},
         seen \subseteq seen', seen' \subseteq seen \cup LiveHeads, LiveHeads \subseteq seen',
         scope' \subseteq seen', reached' \subseteq seen', graph' \subseteq Edges,
         Hops = 0 => reached' = {},
         IsList(lexical', Passages), IsList(dense', Passages), IsList(hits', Passages),
         \A p \in ToSet(lexical') \cup ToSet(dense') \cup ToSet(hits') : ContentOf(p) \in seen'
  PROVE  RetrievalInv'
<1>0. RetrievalTypeOK /\ Sourced /\ Grown /\ context = <<>>
  BY DEF RetrievalInv, Arranged
<1>1. LiveHeads' = LiveHeads
  BY DEF LiveHeads
<1>2. LiveHeads \subseteq Contents /\ \A c \in LiveHeads : c[2] <= head[c[1]]
  <2>1. \A n \in Nodes : head[n] \in 1..MaxVersions /\ head[n] <= head[n]
    BY <1>0, ConstantFacts DEF RetrievalTypeOK
  <2> QED
    BY <2>1 DEF LiveHeads, Contents
<1>3. seen' \subseteq Contents
  BY <1>0, <1>2 DEF RetrievalTypeOK
<1>4. RetrievalTypeOK'
  BY <1>0, <1>3, EmptyContext DEF RetrievalTypeOK
<1>5. Sourced'
  <2>1. ToSet(context') = {}
    BY <1>0, EmptyContext
  <2> QED
    BY <1>1, <2>1 DEF Sourced
<1>6. Grown'
  BY <1>0, <1>2 DEF Grown
<1>7. Arranged' /\ Tiered'
  BY <1>0 DEF Arranged, Tiered
<1> QED
  BY <1>4, <1>5, <1>6, <1>7 DEF RetrievalInv

\* What an order holds is of what it orders.
LEMMA OrderedFrom ==
  ASSUME NEW C \in SUBSET seen, seen \subseteq Contents,
         NEW n \in Nat, NEW s \in Orders(PassagesIn(C), n)
  PROVE  IsList(s, Passages) /\ \A p \in ToSet(s) : ContentOf(p) \in seen
<1>1. /\ PassagesIn(C) \subseteq Passages
      /\ \A p \in PassagesIn(C) : ContentOf(p) \in C
  BY PassageFacts
<1>2. IsList(s, PassagesIn(C))
  BY OrdersFacts
<1>3. ToSet(s) \subseteq PassagesIn(C)
  BY <1>2, ListFacts
<1>4. IsList(s, Passages)
  BY <1>1, <1>2, SeqMonotonic DEF IsList
<1> QED
  BY <1>1, <1>3, <1>4

LEMMA Lessers ==
  ASSUME NEW a \in Nat, NEW b \in Nat
  PROVE  Lesser(a, b) \in Nat
  BY DEF Lesser

LEMMA LegsKeep ==
  ASSUME RetrievalInv, Asks \/ Lexical \/ Rescope \/ Dense
  PROVE  RetrievalInv'
<1>0. /\ RetrievalTypeOK /\ Sourced /\ Arranged
      /\ seen \subseteq Contents /\ scope \subseteq seen /\ reached \subseteq seen
      /\ graph \subseteq Edges
      /\ IsList(lexical, Passages) /\ IsList(dense, Passages) /\ IsList(hits, Passages)
      /\ mode \in {"ask", "related"}
      /\ (Hops = 0 /\ step # "pinned" => reached = {})
      /\ \A p \in ToSet(lexical) \cup ToSet(dense) \cup ToSet(hits) : ContentOf(p) \in seen
  BY DEF RetrievalInv, RetrievalTypeOK, Sourced, Arranged
<1>1. CASE Asks
  <2>1. /\ step = "idle" /\ step' = "lexical" /\ scope' = LiveHeads /\ seen' = LiveHeads
        /\ UNCHANGED <<head, alive, indexed, embedded, edges, changes, mode, lexical,
                       dense, hits, graph, reached, context>>
    BY <1>1 DEF Asks, tail
  <2>2. seen = {}
    BY <1>0, <2>1 DEF Sourced
  <2> QED
    BY <1>0, <2>1, <2>2, StageKeeps DEF Stages
<1>2. ASSUME step # "idle" PROVE LiveHeads \subseteq seen
  BY <1>0, <1>2 DEF Sourced
<1>3. CASE Lexical
  <2>1. /\ step = "lexical" /\ step' = "rescope"
        /\ UNCHANGED <<head, alive, indexed, embedded, edges, changes, seen, mode, scope,
                       dense, hits, graph, reached, context>>
    BY <1>3 DEF Lexical, store, tail
  <2>2. PICK n \in 0..Lesser(TopK, Cardinality(PassagesIn(scope \cap indexed))) :
          lexical' \in Orders(PassagesIn(scope \cap indexed), n)
    BY <1>3 DEF Lexical
  <2>3. n \in Nat
    OBVIOUS
  <2>4. scope \cap indexed \in SUBSET seen
    BY <1>0
  <2>5. IsList(lexical', Passages) /\ \A p \in ToSet(lexical') : ContentOf(p) \in seen
    BY <1>0, <2>2, <2>3, <2>4, OrderedFrom
  <2> QED
    BY <1>0, <1>2, <2>1, <2>5, StageKeeps DEF Stages
<1>4. CASE Rescope
  <2>1. /\ step = "rescope" /\ step' = "dense" /\ scope' = LiveHeads
        /\ UNCHANGED <<head, alive, indexed, embedded, edges, changes, seen, mode, lexical,
                       dense, hits, graph, reached, context>>
    BY <1>4 DEF Rescope, store, tail
  <2> QED
    BY <1>0, <1>2, <2>1, StageKeeps DEF Stages
<1>5. CASE Dense
  <2>1. /\ step = "dense" /\ step' = "fuse"
        /\ UNCHANGED <<head, alive, indexed, embedded, edges, changes, seen, mode, scope,
                       lexical, hits, graph, reached, context>>
    BY <1>5 DEF Dense, store, tail
  <2> DEFINE C == Scoped(scope)
             n == Lesser(TopK, Cardinality(PassagesIn(C)))
  <2>2. dense' \in Orders(PassagesIn(C), n)
    BY <1>5 DEF Dense
  <2>3. C \in SUBSET seen /\ C \in SUBSET Contents
    BY <1>0 DEF Scoped
  <2> HIDE DEF C
  <2>4. Cardinality(PassagesIn(C)) \in Nat
    BY <2>3, PassageFacts, FS_CardinalityType
  <2>5. n \in Nat
    BY <2>4, Lessers, ConstantFacts
  <2> HIDE DEF n
  <2>6. IsList(dense', Passages) /\ \A p \in ToSet(dense') : ContentOf(p) \in seen
    BY <1>0, <2>2, <2>3, <2>5, OrderedFrom
  <2> QED
    BY <1>0, <1>2, <2>1, <2>6, StageKeeps DEF Stages
<1> QED
  BY <1>1, <1>3, <1>4, <1>5

LEMMA HitsKeep ==
  ASSUME RetrievalInv, Rerank \/ Expand \/ ReadEdges \/ ResolveNotes \/ ResolveExternals
  PROVE  RetrievalInv'
<1>0. /\ RetrievalTypeOK /\ Sourced /\ Arranged
      /\ seen \subseteq Contents /\ scope \subseteq seen /\ reached \subseteq seen
      /\ graph \subseteq Edges /\ edges \subseteq Edges
      /\ IsList(lexical, Passages) /\ IsList(dense, Passages) /\ IsList(hits, Passages)
      /\ mode \in {"ask", "related"}
      /\ (Hops = 0 /\ step # "pinned" => reached = {})
      /\ \A p \in ToSet(lexical) \cup ToSet(dense) \cup ToSet(hits) : ContentOf(p) \in seen
  BY DEF RetrievalInv, RetrievalTypeOK, Sourced, Arranged
<1>1. ASSUME step # "idle" PROVE LiveHeads \subseteq seen
  BY <1>0, <1>1 DEF Sourced
<1>2. CASE Rerank
  <2>1. /\ step = "fuse" /\ step' = "expand"
        /\ scope' = {} /\ lexical' = <<>> /\ dense' = <<>> /\ mode' \in {"ask", "related"}
        /\ UNCHANGED <<head, alive, indexed, embedded, edges, changes, seen, graph, reached,
                       context>>
    BY <1>2 DEF Rerank, store
  <2>2. /\ IsList(TopFused, Passages)
        /\ ToSet(TopFused) \subseteq ToSet(lexical) \cup ToSet(dense)
    BY <1>0, FusedFacts DEF Hits
  <2>3. IsList(hits', Passages) /\ ToSet(hits') \subseteq ToSet(TopFused)
    <3>1. CASE hits' = TopFused
      BY <2>2, <3>1
    <3>2. CASE hits' # TopFused
      <4> DEFINE S == ToSet(WithRows(TopFused))
                 n == Lesser(KeepN, Cardinality(S))
      <4>1. hits' \in Orders(S, n)
        BY <1>2, <3>2 DEF Rerank
      <4>2. /\ S \subseteq ToSet(TopFused) /\ S \subseteq Passages
            /\ IsList(WithRows(TopFused), Passages)
        BY <2>2, WithRowsFacts, ListFacts
      <4>3. Cardinality(S) \in Nat
        BY <4>2, ListFacts
      <4>4. n \in Nat
        BY <4>3, Lessers, ConstantFacts
      <4> HIDE DEF S, n
      <4>5. IsList(hits', S)
        BY <4>1, <4>4, OrdersFacts
      <4>6. ToSet(hits') \subseteq S
        BY <4>5, ListFacts
      <4> QED
        BY <4>2, <4>5, <4>6, SeqMonotonic DEF IsList
    <3> QED
      BY <3>1, <3>2
  <2>4. /\ ToSet(lexical') = {} /\ ToSet(dense') = {}
        /\ IsList(lexical', Passages) /\ IsList(dense', Passages)
    BY <2>1, EmptyContext
  <2>5. \A p \in ToSet(lexical') \cup ToSet(dense') \cup ToSet(hits') : ContentOf(p) \in seen'
    BY <1>0, <2>1, <2>2, <2>3, <2>4
  <2> QED
    BY <1>0, <1>1, <2>1, <2>3, <2>4, <2>5, StageKeeps DEF Stages
<1>3. CASE Expand
  <2>1. /\ step = "expand" /\ step' = "traverse" /\ hits' = WithRows(hits)
        /\ UNCHANGED <<head, alive, indexed, embedded, edges, changes, seen, mode, scope,
                       lexical, dense, graph, reached, context>>
    BY <1>3 DEF Expand, store, legs
  <2>2. IsList(hits', Passages) /\ ToSet(hits') \subseteq ToSet(hits)
    BY <1>0, <2>1, WithRowsFacts
  <2> QED
    BY <1>0, <1>1, <2>1, <2>2, StageKeeps DEF Stages
<1>4. CASE ReadEdges
  <2>1. /\ step = "traverse" /\ step' = "resolve" /\ graph' \in {{}, edges}
        /\ UNCHANGED <<head, alive, indexed, embedded, edges, changes, seen, mode, scope,
                       lexical, dense, hits, reached, context>>
    BY <1>4 DEF ReadEdges, store, legs
  <2> QED
    BY <1>0, <1>1, <2>1, StageKeeps DEF Stages
<1>5. CASE ResolveNotes
  <2>1. /\ step = "resolve" /\ step' = "resolve externals"
        /\ reached' = {c \in LiveHeads : c[1] \in Found(graph) \cap Notes}
        /\ UNCHANGED <<head, alive, indexed, embedded, edges, changes, seen, mode, scope,
                       lexical, dense, hits, graph, context>>
    BY <1>5 DEF ResolveNotes, store, legs
  <2>2. reached' \subseteq seen' /\ (Hops = 0 => reached' = {})
    BY <1>1, <2>1 DEF Found
  <2> QED
    BY <1>0, <1>1, <2>1, <2>2, StageKeeps DEF Stages
<1>6. CASE ResolveExternals
  <2>1. /\ step = "resolve externals" /\ step' = "fetch"
        /\ reached' = reached \cup {c \in LiveHeads : c[1] \in Found(graph) \cap Externals}
        /\ UNCHANGED <<head, alive, indexed, embedded, edges, changes, seen, mode, scope,
                       lexical, dense, hits, graph, context>>
    BY <1>6 DEF ResolveExternals, store, legs
  <2>2. reached' \subseteq seen' /\ (Hops = 0 => reached' = {})
    BY <1>0, <1>1, <2>1 DEF Found
  <2> QED
    BY <1>0, <1>1, <2>1, <2>2, StageKeeps DEF Stages
<1> QED
  BY <1>2, <1>3, <1>4, <1>5, <1>6

-----------------------------------------------------------------------------
(* The graph hop *)

Ball(E, n) ==
  CHOOSE f : f = [i \in 0..n |-> IF i = 0 THEN Seeds ELSE f[i - 1] \cup Step(E, f[i - 1])]

LEMMA BallExists ==
  ASSUME NEW E, NEW n \in Nat
  PROVE  Ball(E, n) = [i \in 0..n |->
           IF i = 0 THEN Seeds ELSE Ball(E, n)[i - 1] \cup Step(E, Ball(E, n)[i - 1])]
<1> DEFINE After(h, i) == IF i = 0 THEN Seeds ELSE h[i - 1] \cup Step(E, h[i - 1])
           Is(m, f) == f = [i \in 0..m |-> After(f, i)]
           Some == {m \in Nat : \E f : Is(m, f)}
<1>1. 0 \in Some
  <2> DEFINE f == [i \in 0..0 |-> Seeds]
  <2>1. \A i \in 0..0 : i = 0
    OBVIOUS
  <2>2. Is(0, f)
    BY <2>1
  <2> QED
    BY <2>2
<1>2. ASSUME NEW m \in Some
      PROVE  m + 1 \in Some
  <2>1. PICK f : f = [i \in 0..m |-> After(f, i)]
    OBVIOUS
  <2> DEFINE g == [i \in 0..(m + 1) |-> IF i = m + 1 THEN After(f, i) ELSE f[i]]
  <2>2. m \in Nat /\ m + 1 \in Nat
    OBVIOUS
  <2>3. \A i \in 0..(m + 1) : i = 0 \/ (i - 1 \in 0..(m + 1) /\ i - 1 # m + 1)
    BY <2>2
  <2>4. \A i \in 0..(m + 1) : i = m + 1 \/ i \in 0..m
    BY <2>2
  <2>5. \A i \in 0..(m + 1) : i = 0 \/ g[i - 1] = f[i - 1]
    BY <2>3
  <2> HIDE DEF g
  <2>6. \A i \in 0..(m + 1) : After(g, i) = After(f, i)
    BY <2>5
  <2> HIDE DEF After
  <2>7. \A i \in 0..m : f[i] = After(f, i)
    BY <2>1
  <2>8. Is(m + 1, g)
    BY <2>4, <2>6, <2>7 DEF g
  <2> QED
    BY <2>2, <2>8
<1> HIDE DEF Is
<1>3. Some = Nat
  BY <1>1, <1>2, AllNumbers
<1>4. \E f : Is(n, f)
  BY <1>3
<1> QED
  BY <1>4 DEF Is, Ball

LEMMA SeedsWithin ==
  ASSUME NEW E, NEW n \in Nat
  PROVE  Seeds \subseteq Within(E, n)
<1> DEFINE f == Ball(E, n)
           From == {i \in Nat : i \in 0..n => Seeds \subseteq f[i]}
<1>1. /\ f[0] = Seeds
      /\ \A i \in 0..n : i # 0 => f[i] = f[i - 1] \cup Step(E, f[i - 1])
  <2>1. f = [i \in 0..n |-> IF i = 0 THEN Seeds ELSE f[i - 1] \cup Step(E, f[i - 1])]
    BY BallExists
  <2>2. 0 \in 0..n
    OBVIOUS
  <2> HIDE DEF f
  <2> QED
    BY <2>1, <2>2
<1>2. Within(E, n) = f[n]
  BY DEF Within, Ball
<1> HIDE DEF f
<1>3. 0 \in From
  BY <1>1
<1>4. ASSUME NEW m \in From PROVE m + 1 \in From
  <2> SUFFICES ASSUME m + 1 \in 0..n PROVE Seeds \subseteq f[m + 1]
    OBVIOUS
  <2>1. m \in 0..n /\ m + 1 # 0 /\ (m + 1) - 1 = m
    OBVIOUS
  <2> QED
    BY <1>1, <2>1
<1>5. From = Nat
  BY <1>3, <1>4, AllNumbers
<1> QED
  BY <1>2, <1>5

\* A stage that does something with the context.
LEMMA ContextStageKeeps ==
  ASSUME RetrievalInv, UNCHANGED store, UNCHANGED legs, UNCHANGED <<mode, hits, graph>>,
         step # "idle", step' \in Stages \ {"idle"},
         reached' \subseteq reached \cup LiveHeads,
         IsContext(context', IF step' \in {"pin", "pinned", "collapse", "done"} THEN Ranked ELSE Finds),
         \A x \in ToSet(context') : ContentOf(x.passage) \in seen,
         Arranged', Tiered'
  PROVE  RetrievalInv'
<1>1. /\ UNCHANGED <<head, alive, indexed, embedded, edges, changes, seen, scope, lexical,
                     dense, mode, hits, graph>>
      /\ RetrievalTypeOK /\ Sourced /\ Grown
  BY DEF store, legs, RetrievalInv
<1>2. RetrievalTypeOK'
  <2>1. LiveHeads \subseteq seen /\ seen \subseteq Contents
    BY <1>1 DEF Sourced, RetrievalTypeOK
  <2> QED
    BY <1>1, <2>1 DEF RetrievalTypeOK
<1>3. Sourced'
  BY <1>1 DEF Sourced, LiveHeads
<1>4. Grown'
  BY <1>1 DEF Grown
<1> QED
  BY <1>2, <1>3, <1>4 DEF RetrievalInv

LEMMA SameGuess ==
  ASSUME UNCHANGED <<hits, graph>>
  PROVE  \A n : Guess(n)' <=> Guess(n)
<1>1. Seeds' = Seeds
  BY DEF Seeds
<1> QED
  BY <1>1 DEF Guess

LEMMA JoinedContexts ==
  ASSUME NEW S, NEW s, IsContext(s, S), NEW t, IsContext(t, S),
         \A x \in ToSet(s), y \in ToSet(t) : x.passage # y.passage
  PROVE  /\ IsContext(s \o t, S) /\ ToSet(s \o t) = ToSet(s) \cup ToSet(t)
         /\ Len(s \o t) = Len(s) + Len(t)
         /\ \A i \in 1..Len(s \o t) :
              (s \o t)[i] = IF i <= Len(s) THEN s[i] ELSE t[i - Len(s)]
<1> DEFINE u == s \o t
<1>1. /\ IsList(s, S) /\ \A x, y \in ToSet(s) : x # y => x.passage # y.passage
      /\ IsList(t, S) /\ \A x, y \in ToSet(t) : x # y => x.passage # y.passage
  BY ContextFacts
<1>2. ToSet(s) \cap ToSet(t) = {}
  OBVIOUS
<1>3. /\ IsList(u, S) /\ ToSet(u) = ToSet(s) \cup ToSet(t)
      /\ Len(u) = Len(s) + Len(t)
      /\ \A i \in 1..Len(u) : u[i] = IF i <= Len(s) THEN s[i] ELSE t[i - Len(s)]
  BY <1>1, <1>2, JoinedFacts
<1> HIDE DEF u
<1>4. \A x, y \in ToSet(u) : x # y => x.passage # y.passage
  BY <1>1, <1>3
<1>5. \A i \in 1..Len(u) : u[i] \in ToSet(u)
  BY <1>3, ListFacts
<1>6. IsContext(u, S)
  BY <1>3, <1>4, <1>5 DEF IsContext, IsList
<1> QED
  BY <1>3, <1>6 DEF u

LEMMA FetchKeeps ==
  ASSUME RetrievalInv, Fetch
  PROVE  RetrievalInv'
<1> DEFINE C == reached \cap indexed
           N == NewRows(PassagesIn(C))
<1>0. /\ step = "fetch" /\ step' = "rank" /\ reached' = {} /\ UNCHANGED <<mode, hits, graph>>
      /\ UNCHANGED store /\ UNCHANGED legs
      /\ IsList(hits, Passages) /\ (Hops = 0 => reached = {})
      /\ reached \subseteq seen /\ reached \subseteq Contents
      /\ \A p \in ToSet(hits) : ContentOf(p) \in seen
  BY DEF Fetch, RetrievalInv, RetrievalTypeOK, Sourced, Arranged
<1>1. PICK more \in Lists(N) :
        context' = [i \in 1..Len(hits) |-> Direct(hits[i])]
                   \o [i \in 1..Len(more) |-> Via(more[i])]
  BY DEF Fetch
<1>2. /\ N \subseteq Passages /\ IsFiniteSet(N) /\ N \cap ToSet(hits) = {}
      /\ \A p \in N : ContentOf(p) \in seen
      /\ N # {} => reached # {}
  <2>1. C \in SUBSET Contents
    BY <1>0
  <2>2. /\ PassagesIn(C) \subseteq Passages /\ IsFiniteSet(PassagesIn(C))
        /\ \A p \in PassagesIn(C) : ContentOf(p) \in C
    BY <2>1, PassageFacts
  <2>3. N \subseteq PassagesIn(C) /\ N \cap ToSet(hits) = {}
    BY DEF NewRows
  <2> HIDE DEF N
  <2> QED
    BY <1>0, <2>2, <2>3, FS_Subset
<1> HIDE DEF N, C
<1>3. IsList(more, N) /\ ToSet(more) = N
  BY <1>2, ListsFacts
<1>4. ASSUME NEW p \in Passages
      PROVE  /\ Direct(p) \in Finds /\ Direct(p).passage = p /\ Direct(p).via = "hit"
             /\ Via(p) \in Finds /\ Via(p).passage = p /\ Via(p).via = BestEdge(graph, p[1])
  <2>1. BestEdge(graph, p[1]) \in {"user", "ai"}
    BY DEF BestEdge
  <2> QED
    BY <2>1 DEF Direct, Via, Finds
<1> DEFINE a == [i \in 1..Len(hits) |-> Direct(hits[i])]
           b == [i \in 1..Len(more) |-> Via(more[i])]
<1>5. /\ IsContext(a, Finds) /\ ToSet(a) = {Direct(p) : p \in ToSet(hits)}
  <2>1. /\ Len(hits) \in Nat /\ DOMAIN hits = 1..Len(hits)
        /\ \A i \in 1..Len(hits) : hits[i] \in Passages /\ hits[i] \in ToSet(hits)
        /\ \A p \in ToSet(hits) : \E i \in 1..Len(hits) : hits[i] = p
        /\ \A i, j \in 1..Len(hits) : i # j => hits[i] # hits[j]
    BY <1>0, ListFacts DEF IsList
  <2>2. a \in [1..Len(hits) -> Finds]
    BY <1>4, <2>1
  <2>3. a \in Seq(Finds) /\ Len(a) = Len(hits) /\ DOMAIN a = 1..Len(hits)
    BY <2>1, <2>2, FunctionsAreSequences
  <2>4. \A i \in 1..Len(hits) : a[i] = Direct(hits[i]) /\ a[i].passage = hits[i]
    BY <1>4, <2>1
  <2> HIDE DEF a
  <2>5. IsContext(a, Finds)
    BY <2>1, <2>3, <2>4 DEF IsContext
  <2>6. ToSet(a) = {Direct(p) : p \in ToSet(hits)}
    BY <2>1, <2>3, <2>4 DEF ToSet
  <2> QED
    BY <2>5, <2>6
<1>6. IsContext(b, Finds) /\ ToSet(b) = {Via(p) : p \in N}
  <2>1. /\ Len(more) \in Nat /\ DOMAIN more = 1..Len(more)
        /\ \A i \in 1..Len(more) : more[i] \in Passages /\ more[i] \in ToSet(more)
        /\ \A p \in ToSet(more) : \E i \in 1..Len(more) : more[i] = p
        /\ \A i, j \in 1..Len(more) : i # j => more[i] # more[j]
    BY <1>2, <1>3, ListFacts DEF IsList
  <2>2. b \in [1..Len(more) -> Finds]
    BY <1>4, <2>1
  <2>3. b \in Seq(Finds) /\ Len(b) = Len(more) /\ DOMAIN b = 1..Len(more)
    BY <2>1, <2>2, FunctionsAreSequences
  <2>4. \A i \in 1..Len(more) : b[i] = Via(more[i]) /\ b[i].passage = more[i]
    BY <1>4, <2>1
  <2> HIDE DEF b
  <2>5. IsContext(b, Finds)
    BY <2>1, <2>3, <2>4 DEF IsContext
  <2>6. ToSet(b) = {Via(p) : p \in ToSet(more)}
    BY <2>1, <2>3, <2>4 DEF ToSet
  <2> QED
    BY <1>3, <2>5, <2>6
<1>7. context' = a \o b
  BY <1>1
<1> HIDE DEF a, b
<1>8. ToSet(hits) \subseteq Passages
  BY <1>0, ListFacts
<1>9. \A x \in ToSet(a), y \in ToSet(b) : x.passage # y.passage
  BY <1>2, <1>4, <1>5, <1>6, <1>8
<1>10. /\ IsContext(context', Finds)
       /\ ToSet(context') = ToSet(a) \cup ToSet(b)
  BY <1>5, <1>6, <1>7, <1>9, JoinedContexts
<1>11. \A x \in ToSet(context') : ContentOf(x.passage) \in seen
  BY <1>0, <1>2, <1>4, <1>5, <1>6, <1>8, <1>10
<1>12. ASSUME NEW x \in ToSet(context'), x.via = "ai" PROVE Guess(x.passage[1])'
  <2>1. PICK p \in N : x = Via(p)
    BY <1>4, <1>5, <1>6, <1>8, <1>10, <1>12
  <2>2. x.passage = p /\ BestEdge(graph, p[1]) = "ai"
    BY <1>2, <1>4, <1>12, <2>1
  <2>3. Hops # 0 /\ Hops - 1 \in Nat
    BY <1>0, <1>2, ConstantFacts
  <2>4. Seeds \subseteq Within(graph, Hops - 1)
    BY <2>3, SeedsWithin
  <2>5. ~\E e \in graph :
          e.to = p[1] /\ e.source = "user" /\ e.from \in Within(graph, Hops - 1)
    BY <2>2 DEF BestEdge
  <2>6. Guess(p[1])
    BY <2>4, <2>5 DEF Guess
  <2> QED
    BY <1>0, <2>2, <2>6, SameGuess
<1>13. \A p \in ToSet(hits) : \E x \in ToSet(context') : x.passage = p
  BY <1>4, <1>5, <1>8, <1>10
<1>14. Arranged' /\ Tiered'
  BY <1>0, <1>12, <1>13 DEF Arranged, Tiered
<1> QED
  BY <1>0, <1>10, <1>11, <1>14, ContextStageKeeps DEF Stages

-----------------------------------------------------------------------------
(* The trust gradient, the pin, and the related notes *)

LEMMA TierFacts ==
  ASSUME NEW x \in Finds
  PROVE  /\ Tier(x) \in 1..5
         /\ Tier(x) = 5 => x.via = "ai"
         /\ Tier(x) = 4 => head[x.passage[1]] # x.passage[2]
<1>1. /\ x.via \in {"hit", "user", "ai"}
      /\ x.passage[1] \in Notes \/ x.passage[1] \in Externals
      /\ ~(x.passage[1] \in Notes /\ x.passage[1] \in Externals)
  BY ContentFacts, RetrievalAssumption DEF Finds, Nodes
<1> DEFINE n == x.passage[1]
           v == x.passage[2]
<1>2. CASE n \in Notes /\ x.via = "hit"
  <2>1. Tier(x) = 1
    BY <1>1, <1>2 DEF Tier
  <2> QED
    BY <2>1
<1>3. CASE n \in Notes /\ x.via = "user"
  <2>1. Tier(x) = 2
    BY <1>1, <1>3 DEF Tier
  <2> QED
    BY <2>1
<1>4. CASE n \in Notes /\ x.via = "ai"
  <2>1. Tier(x) = 5
    BY <1>1, <1>4 DEF Tier
  <2> QED
    BY <1>4, <2>1
<1>5. CASE n \in Externals /\ (x.via # "hit" \/ head[n] = v)
  <2>1. Tier(x) = 3
    BY <1>1, <1>5 DEF Tier
  <2> QED
    BY <2>1
<1>6. CASE n \in Externals /\ x.via = "hit" /\ head[n] # v
  <2>1. Tier(x) = 4
    BY <1>1, <1>6 DEF Tier
  <2> QED
    BY <1>6, <2>1
<1> QED
  BY <1>1, <1>2, <1>3, <1>4, <1>5, <1>6

\* Those of one tier keep the order they had.
LEMMA ByTierFacts ==
  ASSUME NEW s, IsContext(s, Finds)
  PROVE  /\ IsContext(ByTier(s), Finds) /\ ToSet(ByTier(s)) = ToSet(s)
         /\ Len(ByTier(s)) = Len(s)
         /\ \A i, j \in 1..Len(s) : i < j => Tier(ByTier(s)[i]) <= Tier(ByTier(s)[j])
<1> DEFINE S == ToSet(s)
           Before(x, y) == \/ Tier(x) < Tier(y)
                           \/ Tier(x) = Tier(y) /\ Rank(s, x) < Rank(s, y)
           R == {pair \in S \X S : Before(pair[1], pair[2])}
           t == ByTier(s)
<1>1. IsList(s, Finds)
  BY ContextFacts
<1>2. S \subseteq Finds /\ IsFiniteSet(S) /\ Cardinality(S) = Len(s) /\ Len(s) \in Nat
  BY <1>1, ListFacts
<1>3. \A x \in S : Tier(x) \in Nat /\ Rank(s, x) \in Nat
  <2>1. \A x \in S : Rank(s, x) \in 1..Len(s)
    BY <1>1, RankFacts
  <2>2. \A x \in S : Tier(x) \in 1..5
    BY <1>2, TierFacts
  <2> HIDE DEF S
  <2> QED
    BY <1>2, <2>1, <2>2
<1>4. \A x, y \in S : x # y => Rank(s, x) # Rank(s, y)
  <2>1. \A x \in S : s[Rank(s, x)] = x
    BY <1>1, RankFacts
  <2> QED
    BY <2>1
<1>5. \A x, y \in S : <<x, y>> \in R <=> Before(x, y)
  OBVIOUS
<1>6. t = InOrder(S, R)
  BY DEF ByTier
<1> HIDE DEF S, R, t
<1>7. StrictOrder(S, R)
  BY <1>3, <1>4, <1>5 DEF StrictOrder
<1>8. /\ IsList(t, S) /\ ToSet(t) = S /\ Len(t) = Len(s)
      /\ \A i, j \in 1..Len(t) : i < j => <<t[i], t[j]>> \in R
  BY <1>2, <1>6, <1>7, InOrderFacts
<1>9. IsList(t, Finds) /\ ToSet(t) \subseteq ToSet(s) /\ \A i \in 1..Len(t) : t[i] \in S
  BY <1>2, <1>8, ListFacts, SeqMonotonic DEF IsList, S
<1>10. IsContext(t, Finds)
  BY <1>9, PartOfContext
<1>11. ASSUME NEW i \in 1..Len(s), NEW j \in 1..Len(s), i < j
       PROVE  Tier(t[i]) <= Tier(t[j])
  <2>1. t[i] \in S /\ t[j] \in S /\ Before(t[i], t[j])
    BY <1>5, <1>8, <1>9, <1>11
  <2> QED
    BY <1>3, <2>1
<1> QED
  BY <1>8, <1>10, <1>11 DEF S, t

LEMMA TrustRankKeeps ==
  ASSUME RetrievalInv, TrustRank
  PROVE  RetrievalInv'
<1>0. /\ step = "rank" /\ step' \in IF mode = "related" THEN {"collapse"} ELSE {"pin", "done"}
      /\ UNCHANGED <<mode, hits, graph, reached>> /\ UNCHANGED store /\ UNCHANGED legs
      /\ mode \in {"ask", "related"}
      /\ (Hops = 0 /\ step # "pinned" => reached = {})
  BY DEF TrustRank, RetrievalInv, RetrievalTypeOK, Arranged
<1>1. /\ IsContext(context, Finds)
      /\ \A x \in ToSet(context) : x.via = "ai" => Guess(x.passage[1])
      /\ \A x \in ToSet(context) : ContentOf(x.passage) \in seen
      /\ \A p \in ToSet(hits) : \E x \in ToSet(context) : x.passage = p
      /\ Grown
  BY <1>0 DEF RetrievalInv, RetrievalTypeOK, Arranged, Sourced
<1> DEFINE b == ByTier(context)
           Item(x) == [passage |-> x.passage, tier |-> Tier(x)]
           n == Len(context)
<1>2. /\ IsContext(b, Finds) /\ ToSet(b) = ToSet(context) /\ Len(b) = n
      /\ \A i, j \in 1..n : i < j => Tier(b[i]) <= Tier(b[j])
  BY <1>1, ByTierFacts
<1>3. n \in Nat /\ DOMAIN context = 1..n
  BY <1>1, ContextFacts, ListFacts
<1>4. context' = [i \in 1..n |-> Item(b[i])]
  BY <1>3 DEF TrustRank
<1> HIDE DEF b, n
<1>5. ASSUME NEW x \in Finds
      PROVE  Item(x) \in Ranked /\ Item(x).passage = x.passage /\ Item(x).tier = Tier(x)
  BY <1>5, TierFacts DEF Ranked, Finds
<1> HIDE DEF Item
<1>6. /\ \A i \in 1..n : b[i] \in Finds /\ b[i] \in ToSet(context)
      /\ \A x \in ToSet(context) : \E i \in 1..n : b[i] = x
  BY <1>2, ContextFacts, ListFacts
<1>7. /\ \A i \in 1..n : /\ context'[i] = Item(b[i]) /\ context'[i].passage = b[i].passage
                         /\ context'[i].tier = Tier(b[i])
      /\ context' \in [1..n -> Ranked]
  BY <1>4, <1>5, <1>6
<1>8. context' \in Seq(Ranked) /\ Len(context') = n /\ DOMAIN context' = 1..n
  BY <1>3, <1>7, FunctionsAreSequences
<1>9. IsContext(context', Ranked)
  <2>1. \A i, j \in 1..n : i # j => b[i].passage # b[j].passage
    BY <1>2 DEF IsContext
  <2> QED
    BY <1>7, <1>8, <2>1 DEF IsContext
<1>10. ASSUME NEW y \in ToSet(context')
       PROVE  \E x \in ToSet(context) : /\ x \in Finds /\ y.passage = x.passage
                                        /\ y.tier = Tier(x)
  BY <1>6, <1>7, <1>8 DEF ToSet
<1>11. \A y \in ToSet(context') : ContentOf(y.passage) \in seen
  BY <1>1, <1>10
<1>12. \A p \in ToSet(hits) : \E y \in ToSet(context') : y.passage = p
  <2>1. ASSUME NEW x \in ToSet(context)
        PROVE  \E y \in ToSet(context') : y.passage = x.passage
    <3>1. PICK i \in 1..n : b[i] = x
      BY <1>6
    <3>2. context'[i] \in ToSet(context') /\ context'[i].passage = x.passage
      BY <1>7, <1>8, <3>1 DEF ToSet
    <3> QED
      BY <3>2
  <2> QED
    BY <1>1, <2>1
<1>13. Arranged'
  BY <1>0, <1>12 DEF Arranged
<1>14. ASSUME NEW y \in ToSet(context')
       PROVE  /\ y.tier = 5 => Guess(y.passage[1])'
              /\ y.tier = 4 => y.passage[2] < head'[y.passage[1]]
  <2>1. PICK x \in ToSet(context) : x \in Finds /\ y.passage = x.passage /\ y.tier = Tier(x)
    BY <1>10
  <2>2. y.tier = 5 => Guess(y.passage[1])'
    BY <1>0, <1>1, <2>1, TierFacts, SameGuess
  <2>3. ASSUME y.tier = 4 PROVE y.passage[2] < head'[y.passage[1]]
    <3> DEFINE p == x.passage
    <3>1. p \in Passages /\ head[p[1]] # p[2]
      BY <2>1, <2>3, TierFacts DEF Finds
    <3>2. p[1] \in Nodes /\ p[2] \in 1..MaxVersions /\ ContentOf(p) = <<p[1], p[2]>>
      BY <3>1, ContentFacts
    <3>3. p[2] <= head[p[1]]
      BY <1>1, <3>2 DEF Grown
    <3>4. head[p[1]] \in 1..MaxVersions /\ head' = head
      BY <1>0, <3>2 DEF RetrievalInv, RetrievalTypeOK, store
    <3>5. y.passage = p
      BY <2>1
    <3> HIDE DEF p
    <3> QED
      BY <3>1, <3>2, <3>3, <3>4, <3>5, ConstantFacts
  <2> QED
    BY <2>2, <2>3
<1>15. Tiered'
  BY <1>2, <1>7, <1>8, <1>14 DEF Tiered
<1> QED
  BY <1>0, <1>9, <1>11, <1>13, <1>15, ContextStageKeeps DEF Stages

\* What is left of a ranked context is in the order of the tiers.
LEMMA KeptTiers ==
  ASSUME IsContext(context, Ranked), Tiered, step \in {"pin", "pinned", "collapse", "done"},
         NEW T \in SUBSET ToSet(context)
  PROVE  /\ IsContext(Kept(context, T), Ranked) /\ ToSet(Kept(context, T)) = T
         /\ \A i, j \in 1..Len(Kept(context, T)) :
              i < j => Kept(context, T)[i].tier <= Kept(context, T)[j].tier
<1> DEFINE t == Kept(context, T)
<1>1. IsList(context, Ranked)
  BY ContextFacts
<1>2. /\ IsList(t, Ranked) /\ ToSet(t) = T
      /\ \A i, j \in 1..Len(t) : i < j => Rank(context, t[i]) < Rank(context, t[j])
  BY <1>1, KeptFacts
<1> HIDE DEF t
<1>3. IsContext(t, Ranked)
  BY <1>2, PartOfContext
<1>4. \A i \in 1..Len(t) : t[i] \in ToSet(context)
  BY <1>2, ListFacts
<1>5. \A x \in ToSet(context) :
        Rank(context, x) \in 1..Len(context) /\ context[Rank(context, x)] = x
  BY <1>1, RankFacts
<1>6. ASSUME NEW i \in 1..Len(t), NEW j \in 1..Len(t), i < j
      PROVE  t[i].tier <= t[j].tier
  <2>1. /\ Rank(context, t[i]) \in 1..Len(context) /\ context[Rank(context, t[i])] = t[i]
        /\ Rank(context, t[j]) \in 1..Len(context) /\ context[Rank(context, t[j])] = t[j]
        /\ Rank(context, t[i]) < Rank(context, t[j])
    BY <1>2, <1>4, <1>5, <1>6
  <2>2. \A k, m \in 1..Len(context) : k < m => context[k].tier <= context[m].tier
    BY DEF Tiered
  <2>3. context[Rank(context, t[i])].tier <= context[Rank(context, t[j])].tier
    BY <2>1, <2>2
  <2> QED
    BY <2>1, <2>3
<1> QED
  BY <1>2, <1>3, <1>6 DEF t

LEMMA PinNoteKeeps ==
  ASSUME RetrievalInv, NEW pinned \in Notes, PinNote(pinned)
  PROVE  RetrievalInv'
<1>1. /\ step = "pin" /\ step' = "pinned" /\ mode = "ask" /\ context' = context
      /\ reached' = {c \in LiveHeads : c[1] = pinned}
      /\ UNCHANGED <<mode, hits, graph>> /\ UNCHANGED store /\ UNCHANGED legs
      /\ IsContext(context, Ranked)
      /\ \A x \in ToSet(context) : ContentOf(x.passage) \in seen
      /\ \A p \in ToSet(hits) : \E x \in ToSet(context) : x.passage = p
  BY DEF PinNote, RetrievalInv, RetrievalTypeOK, Arranged, Sourced
<1>2. Arranged'
  BY <1>1 DEF Arranged
<1>3. Tiered'
  <2>1. head' = head /\ Tiered
    BY <1>1 DEF store, RetrievalInv
  <2> QED
    BY <1>1, <2>1, SameGuess DEF Tiered
<1> QED
  BY <1>1, <1>2, <1>3, ContextStageKeeps DEF Stages

LEMMA PinPassagesKeeps ==
  ASSUME RetrievalInv, PinPassages
  PROVE  RetrievalInv'
<1>a. /\ step = "pinned" /\ step' = "done" /\ mode = "ask" /\ reached' = {}
      /\ UNCHANGED <<mode, hits, graph>> /\ UNCHANGED store /\ UNCHANGED legs
      /\ IsContext(context, Ranked) /\ Tiered /\ reached \subseteq seen /\ seen \subseteq Contents
      /\ \A x \in ToSet(context) : ContentOf(x.passage) \in seen
      /\ \A p \in ToSet(hits) : \E x \in ToSet(context) : x.passage = p
  BY DEF PinPassages, RetrievalInv, RetrievalTypeOK, Arranged, Sourced
<1>b. CASE context' = context
  <2>1. Arranged'
    BY <1>a, <1>b DEF Arranged
  <2>2. head' = head
    BY <1>a DEF store
  <2>3. Tiered'
    BY <1>a, <1>b, <2>2, SameGuess DEF Tiered
  <2> QED
    BY <1>a, <1>b, <2>1, <2>3, ContextStageKeeps DEF Stages
<1>c. SUFFICES ASSUME context' # context PROVE RetrievalInv'
  BY <1>b
<1>d. PICK c \in reached \cap indexed :
        LET own == [i \in 1..Places[c[1]] |-> [passage |-> <<c[1], c[2], i>>, tier |-> 1]]
        IN context' = own \o Kept(context, {x \in ToSet(context) :
                               \A j \in DOMAIN own : own[j].passage # x.passage})
  BY <1>c DEF PinPassages
<1> DEFINE n == Places[c[1]]
           own == [i \in 1..n |-> [passage |-> <<c[1], c[2], i>>, tier |-> 1]]
           T == {x \in ToSet(context) : \A j \in DOMAIN own : own[j].passage # x.passage}
           t == Kept(context, T)
<1>0. /\ step = "pinned" /\ step' = "done" /\ mode = "ask" /\ reached' = {}
      /\ UNCHANGED <<mode, hits, graph>> /\ UNCHANGED store /\ UNCHANGED legs
      /\ IsContext(context, Ranked) /\ Tiered
      /\ \A x \in ToSet(context) : ContentOf(x.passage) \in seen
      /\ \A p \in ToSet(hits) : \E x \in ToSet(context) : x.passage = p
  BY <1>a
<1>1. context' = own \o t
  BY <1>d
<1>2. /\ c[1] \in Nodes /\ c[2] \in 1..MaxVersions /\ c \in seen /\ c = <<c[1], c[2]>>
      /\ n \in Nat
  <2>1. c \in seen /\ c \in Contents
    BY <1>a
  <2> QED
    BY <2>1, ConstantFacts DEF Contents
<1>3. /\ IsContext(own, Ranked) /\ \A i \in 1..Len(own) : own[i].tier = 1
      /\ \A x \in ToSet(own) : x.tier = 1 /\ ContentOf(x.passage) \in seen
  <2> DEFINE Item(i) == [passage |-> <<c[1], c[2], i>>, tier |-> 1]
  <2>1. \A i \in 1..n : /\ Item(i) \in Ranked /\ Item(i).passage = <<c[1], c[2], i>>
                        /\ Item(i).tier = 1 /\ ContentOf(Item(i).passage) = c
    BY <1>2 DEF Ranked, Passages, ContentOf
  <2>2. own = [i \in 1..n |-> Item(i)]
    OBVIOUS
  <2> HIDE DEF own, n, Item
  <2>3. own \in [1..n -> Ranked] /\ \A i \in 1..n : own[i] = Item(i)
    BY <2>1, <2>2
  <2>4. own \in Seq(Ranked) /\ Len(own) = n /\ DOMAIN own = 1..n
    BY <1>2, <2>3, FunctionsAreSequences
  <2>5. \A i, j \in 1..n : i # j => <<c[1], c[2], i>> # <<c[1], c[2], j>>
    OBVIOUS
  <2>6. IsContext(own, Ranked) /\ \A i \in 1..Len(own) : own[i].tier = 1
    BY <2>1, <2>3, <2>4, <2>5 DEF IsContext
  <2>7. ASSUME NEW x \in ToSet(own)
        PROVE  x.tier = 1 /\ ContentOf(x.passage) \in seen
    <3>1. PICK i \in 1..n : x = Item(i)
      BY <2>3, <2>4 DEF ToSet
    <3> QED
      BY <1>2, <2>1, <3>1
  <2> QED
    BY <2>6, <2>7
<1> HIDE DEF own
<1>4. /\ IsContext(t, Ranked) /\ ToSet(t) = T
      /\ \A i, j \in 1..Len(t) : i < j => t[i].tier <= t[j].tier
  <2>1. T \in SUBSET ToSet(context)
    OBVIOUS
  <2> HIDE DEF T
  <2> QED
    BY <1>0, <2>1, KeptTiers
<1>5. \A x \in ToSet(own) : \E j \in DOMAIN own : own[j] = x
  BY DEF ToSet
<1>6. \A x \in ToSet(own), y \in T : x.passage # y.passage
  BY <1>5
<1>7. /\ T \subseteq ToSet(context)
      /\ \A x \in ToSet(context) : x \in T \/ \E y \in ToSet(own) : y.passage = x.passage
  BY DEF ToSet
<1> HIDE DEF T, t
<1>8. /\ IsContext(context', Ranked) /\ ToSet(context') = ToSet(own) \cup T
      /\ Len(context') = Len(own) + Len(t)
      /\ \A i \in 1..Len(context') :
           context'[i] = IF i <= Len(own) THEN own[i] ELSE t[i - Len(own)]
  BY <1>1, <1>3, <1>4, <1>6, JoinedContexts
<1>9. \A x \in ToSet(context') : ContentOf(x.passage) \in seen
  BY <1>0, <1>3, <1>7, <1>8
<1>10. \A p \in ToSet(hits) : \E x \in ToSet(context') : x.passage = p
  BY <1>0, <1>7, <1>8
<1>11. Arranged'
  BY <1>0, <1>10 DEF Arranged
<1>12. ASSUME NEW x \in ToSet(context')
       PROVE  /\ x.tier = 5 => Guess(x.passage[1])'
              /\ x.tier = 4 => x.passage[2] < head'[x.passage[1]]
  <2>1. head' = head
    BY <1>0 DEF store
  <2>2. x \in ToSet(own) \/ x \in ToSet(context)
    BY <1>7, <1>8
  <2> QED
    BY <1>0, <1>3, <2>1, <2>2, SameGuess DEF Tiered
<1>13. ASSUME NEW i \in 1..Len(context'), NEW j \in 1..Len(context'), i < j
       PROVE  context'[i].tier <= context'[j].tier
  <2>1. /\ Len(own) \in Nat /\ Len(t) \in Nat
        /\ \A k \in 1..Len(t) : t[k] \in Ranked
    BY <1>3, <1>4, ContextFacts, ListFacts
  <2>2. \A k \in 1..Len(t) : t[k].tier \in 1..5
    BY <2>1 DEF Ranked
  <2>3. CASE j <= Len(own)
    <3>1. i \in 1..Len(own) /\ j \in 1..Len(own) /\ i <= Len(own)
      BY <1>8, <1>13, <2>1, <2>3
    <3> QED
      BY <1>3, <1>8, <2>3, <3>1
  <2>4. CASE ~(j <= Len(own)) /\ i <= Len(own)
    <3>1. i \in 1..Len(own) /\ j - Len(own) \in 1..Len(t)
      BY <1>8, <2>1, <2>4
    <3>2. context'[i].tier = 1 /\ context'[j].tier \in 1..5
      BY <1>3, <1>8, <2>2, <2>4, <3>1
    <3> QED
      BY <3>2
  <2>5. CASE ~(j <= Len(own)) /\ ~(i <= Len(own))
    <3>1. /\ i - Len(own) \in 1..Len(t) /\ j - Len(own) \in 1..Len(t)
          /\ i - Len(own) < j - Len(own)
      BY <1>8, <1>13, <2>1, <2>5
    <3> QED
      BY <1>4, <1>8, <2>5, <3>1
  <2> QED
    BY <2>3, <2>4, <2>5
<1>14. Tiered'
  BY <1>12, <1>13 DEF Tiered
<1> QED
  BY <1>0, <1>8, <1>9, <1>11, <1>14, ContextStageKeeps DEF Stages

LEMMA CollapseKeeps ==
  ASSUME RetrievalInv, NEW edited, Collapse(edited)
  PROVE  RetrievalInv'
<1> DEFINE T == {x \in ToSet(context) : /\ x.passage[1] \in Notes \ edited
                                        /\ FirstOfNote(context, x)}
           t == Kept(context, T)
           c == Cut(t, Limit)
<1>0. /\ step = "collapse" /\ step' = "done" /\ mode = "related" /\ context' = c
      /\ UNCHANGED <<mode, hits, graph, reached>> /\ UNCHANGED store /\ UNCHANGED legs
      /\ (Hops = 0 => reached = {}) /\ IsContext(context, Ranked) /\ Tiered
      /\ \A x \in ToSet(context) : ContentOf(x.passage) \in seen
  BY DEF Collapse, RetrievalInv, RetrievalTypeOK, Arranged, Sourced
<1>1. /\ T \subseteq ToSet(context) /\ \A x \in T : FirstOfNote(context, x)
  OBVIOUS
<1> HIDE DEF T
<1>2. /\ IsContext(t, Ranked) /\ ToSet(t) = T
      /\ \A i, j \in 1..Len(t) : i < j => t[i].tier <= t[j].tier
  BY <1>0, <1>1, KeptTiers
<1> HIDE DEF t
<1>3. IsList(t, Ranked)
  BY <1>2, ContextFacts
<1>4. /\ IsList(c, Ranked) /\ ToSet(c) \subseteq T
      /\ \A i \in 1..Len(c) : i \in 1..Len(t) /\ c[i] = t[i]
  BY <1>2, <1>3, CutFacts, ConstantFacts
<1> HIDE DEF c
<1>5. IsContext(c, Ranked) /\ \A i \in 1..Len(c) : c[i] \in T
  BY <1>0, <1>1, <1>4, PartOfContext, ListFacts
<1>6. ASSUME NEW i \in 1..Len(c), NEW j \in 1..Len(c), i # j
      PROVE  c[i].passage[1] # c[j].passage[1]
  <2> SUFFICES ASSUME c[i].passage[1] = c[j].passage[1] PROVE FALSE
    OBVIOUS
  <2>1. c[i] \in T /\ c[j] \in T /\ c[i] # c[j]
    BY <1>4, <1>5, <1>6 DEF IsList
  <2>2. /\ Rank(context, c[i]) <= Rank(context, c[j])
        /\ Rank(context, c[j]) <= Rank(context, c[i])
    BY <1>1, <2>1 DEF FirstOfNote
  <2>3. /\ Rank(context, c[i]) \in Nat /\ context[Rank(context, c[i])] = c[i]
        /\ Rank(context, c[j]) \in Nat /\ context[Rank(context, c[j])] = c[j]
    <3>1. IsList(context, Ranked) /\ Len(context) \in Nat
      BY <1>0, ContextFacts, ListFacts
    <3>2. /\ Rank(context, c[i]) \in 1..Len(context) /\ context[Rank(context, c[i])] = c[i]
          /\ Rank(context, c[j]) \in 1..Len(context) /\ context[Rank(context, c[j])] = c[j]
      BY <1>1, <2>1, <3>1, RankFacts
    <3> QED
      BY <3>1, <3>2
  <2>4. Rank(context, c[i]) = Rank(context, c[j])
    BY <2>2, <2>3
  <2> QED
    BY <2>1, <2>3, <2>4
<1>7. Arranged'
  BY <1>0, <1>6 DEF Arranged
<1>8. \A x \in ToSet(context') : ContentOf(x.passage) \in seen
  BY <1>0, <1>1, <1>4
<1>9. Tiered'
  <2>1. head' = head
    BY <1>0 DEF store
  <2>2. \A x \in ToSet(context') : /\ x.tier = 5 => Guess(x.passage[1])'
                                   /\ x.tier = 4 => x.passage[2] < head'[x.passage[1]]
    BY <1>0, <1>1, <1>4, <2>1, SameGuess DEF Tiered
  <2>3. \A i, j \in 1..Len(context') : i < j => context'[i].tier <= context'[j].tier
    BY <1>0, <1>2, <1>4
  <2> QED
    BY <2>2, <2>3 DEF Tiered
<1> QED
  BY <1>0, <1>5, <1>7, <1>8, <1>9, ContextStageKeeps DEF Stages

-----------------------------------------------------------------------------
(* The theorems *)

LEMMA InitRetrievalInv == RetrievalInit => RetrievalInv
<1> SUFFICES ASSUME RetrievalInit PROVE RetrievalInv
  OBVIOUS
<1>1. /\ head = [n \in Nodes |-> 1] /\ alive = [n \in Nodes |-> TRUE]
      /\ indexed = LiveHeads /\ embedded = LiveHeads /\ edges = Edges /\ changes = 0
      /\ step = "idle" /\ mode = "ask" /\ scope = {} /\ lexical = <<>> /\ dense = <<>>
      /\ hits = <<>> /\ graph = {} /\ reached = {} /\ context = <<>> /\ seen = {}
  BY DEF RetrievalInit
<1>2. 1 \in 1..MaxVersions /\ 0 \in 0..MaxChanges
  BY ConstantFacts
<1>3. LiveHeads \subseteq Contents
  BY <1>1, <1>2 DEF LiveHeads, Contents
<1>4. /\ IsList(lexical, Passages) /\ IsList(dense, Passages) /\ IsList(hits, Passages)
      /\ IsContext(context, Finds)
      /\ ToSet(lexical) = {} /\ ToSet(dense) = {} /\ ToSet(hits) = {} /\ ToSet(context) = {}
  BY <1>1, EmptyContext
<1>5. RetrievalTypeOK
  BY <1>1, <1>2, <1>3, <1>4 DEF RetrievalTypeOK, Stages
<1>6. Sourced /\ Grown /\ Arranged /\ Tiered
  BY <1>1, <1>4 DEF Sourced, Grown, Arranged, Tiered
<1> QED
  BY <1>5, <1>6 DEF RetrievalInv

LEMMA NextRetrievalInv == RetrievalInv /\ [RetrievalNext]_retrievalVars => RetrievalInv'
<1> SUFFICES ASSUME RetrievalInv, [RetrievalNext]_retrievalVars PROVE RetrievalInv'
  OBVIOUS
<1>1. CASE UNCHANGED retrievalVars
  <2>1. /\ UNCHANGED <<step, mode>> /\ UNCHANGED legs /\ UNCHANGED tail
        /\ UNCHANGED <<head, alive, indexed, embedded, edges, changes, seen>>
    BY <1>1 DEF retrievalVars, legs, tail
  <2>2. /\ RetrievalTypeOK /\ \A n \in Nodes : head[n] <= head[n]
    BY ConstantFacts DEF RetrievalInv, RetrievalTypeOK
  <2> QED
    BY <2>1, <2>2, WriteKeeps DEF RetrievalTypeOK
<1>2. CASE Change
  BY <1>2, ChangeKeepsRetrieval
<1>3. CASE Question
  BY <1>3, LegsKeep, HitsKeep, FetchKeeps, TrustRankKeeps, PinNoteKeeps, PinPassagesKeeps,
     CollapseKeeps
  DEF Question
<1> QED
  BY <1>1, <1>2, <1>3 DEF RetrievalNext

LEMMA RetrievalInvariant == RetrievalSpec => []RetrievalInv
  BY InitRetrievalInv, NextRetrievalInv, PTL DEF RetrievalSpec

\* Whatever is written to the store meanwhile, a question on its way is well
\* formed: its legs, hits and context hold no passage twice.
THEOREM RetrievalTypeCorrect == RetrievalSpec => []RetrievalTypeOK
<1>1. RetrievalInv => RetrievalTypeOK
  BY DEF RetrievalInv
<1> QED
  BY <1>1, RetrievalInvariant, PTL

\* retrieval.py, _retrieve: all that a question is answered from was a live
\* head at some moment since it was asked, for any notes, externals, legs and
\* limits and any writes between any two stages.
THEOREM AnsweredFromLive == RetrievalSpec => []OnlyLiveSinceAsked
  BY InvSourced, RetrievalInvariant, PTL

\* retrieval.py, pinned_note_context, and related.py, _to_related_notes: every
\* passage that was kept is in the answer's context, once, and the related
\* notes list no note twice.
THEOREM ContextHoldsHitsOnce == RetrievalSpec => []KeptOnce
  BY InvKept, RetrievalInvariant, PTL

\* retrieval.py, trust_rank: a note ranks as an AI's guess only if no edge of
\* the user leads to it from what was hit, an external as stale only if a newer
\* snapshot landed, and the tiers come in their order.
THEOREM TiersAreEarned == RetrievalSpec => []TierIsEarned
  BY InvEarned, RetrievalInvariant, PTL

\* retrieval.py, reciprocal_rank_fusion: of two passages the one that stands
\* higher in every leg the other is in stands higher in the fused list.
THEOREM FusionFollowsTheLegs == RetrievalSpec => []FusionRespectsTheLegs
<1>1. RetrievalInv => FusionRespectsTheLegs
  BY FusedByBoth DEF RetrievalInv, RetrievalTypeOK, FusionRespectsTheLegs
<1> QED
  BY <1>1, RetrievalInvariant, PTL
=============================================================================
