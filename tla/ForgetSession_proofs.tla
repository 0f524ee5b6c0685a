------------------------- MODULE ForgetSession_proofs --------------------------
(***************************************************************************)
(* Theorems of ForgetSession for every set of relays and every bound. A    *)
(* step of one relay changes one directory, its own cleanup or its own     *)
(* launch (OnlyPlace, OnlyCleaner, OnlyStarter); every action has a lemma  *)
(* that it keeps the inductive invariant and is a step of the ledger, with *)
(* one step for each part of the invariant.                                *)
(***************************************************************************)
EXTENDS ForgetSession, FiniteSetTheorems, TLAPS

\* what the ledger makes of a step
LedgerStep == [Ledger!Next]_(Ledger!vars)

\* no directory but p changes
OnlyPlace(p) == fs' \in [Place -> Dirs] /\ \A o \in Place : o # p => fs'[o] = fs[o]

\* no cleanup but that of r changes
OnlyCleaner(r) ==
    cleaner' \in [Relay -> Cleaners] /\ \A q \in Relay : q # r => cleaner'[q] = cleaner[q]

\* no launch but that of r changes, to s
OnlyStarter(r, s) ==
    /\ starter' \in [Relay -> Launches] /\ starter'[r] = s
    /\ \A q \in Relay : q # r => starter'[q] = starter[q]

\* The session's directory is a place; the bounds are numbers.
LEMMA StableIsPlace == Stable \in Place /\ Stable = 0 /\ MaxRemovals \in Nat /\ MaxFaults \in Nat
  BY BoundsAssumption DEF Stable, Place

\* A directory that is written: what it is after, and the others.
LEMMA PutIs ==
    ASSUME TypeOK, NEW p \in Place, NEW d \in Dirs, Put(p, d)
    PROVE  OnlyPlace(p) /\ fs'[p] = d
  BY DEF TypeOK, Put, OnlyPlace

\* A cleanup that goes on: where it is after, and the others.
LEMMA CleanIs ==
    ASSUME TypeOK, NEW r \in Relay, NEW c \in Cleaners, CleanTo(r, c)
    PROVE  OnlyCleaner(r) /\ cleaner'[r] = c
  BY DEF TypeOK, CleanTo, OnlyCleaner

\* The fields of a directory.
LEMMA DirFields ==
    ASSUME TypeOK, NEW p \in Place
    PROVE  /\ fs[p] \in Dirs /\ fs[p].made \in BOOLEAN /\ fs[p].marked \in BOOLEAN
           /\ fs[p].fenced \in BOOLEAN
           /\ fs[p].leases \in SUBSET (Relay \cup {"lost"}) /\ fs[p].payload \in BOOLEAN
  BY DEF TypeOK, Dirs

\* The fields of a cleanup.
LEMMA CleanerFields ==
    ASSUME TypeOK, NEW r \in Relay
    PROVE  /\ cleaner[r] \in Cleaners /\ At(r) \in Place /\ cleaner[r].forget \in BOOLEAN
           /\ cleaner[r].todo \in SUBSET Place /\ cleaner[r].bad \in BOOLEAN
           /\ cleaner[r].pc \in {"idle", "list", "next", "claimed", "checked", "moved",
                                 "purge", "remove", "done"}
  BY DEF TypeOK, Cleaners, At

\* What the cleanups have checked holds while leases only go.
LEMMA CleanersKept ==
    ASSUME TypeOK, \A q \in Relay : CleanerOK(q), UNCHANGED cleaner,
           \A o \in Place : fs'[o].leases \subseteq fs[o].leases
    PROVE  \A q \in Relay : CleanerOK(q)'
  BY CleanerFields DEF CleanerOK, At

\* One cleanup goes on, and the others keep what they have checked.
LEMMA OtherCleanersKept ==
    ASSUME TypeOK, \A q \in Relay : CleanerOK(q), NEW r \in Relay, CleanerOK(r)',
           \A q \in Relay : q # r => cleaner'[q] = cleaner[q],
           \A o \in Place : fs'[o].leases \subseteq fs[o].leases
    PROVE  \A q \in Relay : CleanerOK(q)'
  BY CleanerFields DEF CleanerOK, At

\* A step that leaves the operation, the processes and the files alone is a
\* stutter of the ledger.
LEMMA LedgerSame ==
    ASSUME UNCHANGED <<row, op, proc, orphan>>, fs'[Stable].payload = fs[Stable].payload
    PROVE  LedgerStep
  BY DEF LedgerStep, Ledger!vars, Used, Owner

-----------------------------------------------------------------------------
(* ---------------------------- launching -------------------------------- *)
\* A launch begins while the session may be launched.
LEMMA AskKeeps == ASSUME IInv, NEW r \in Relay, Ask(r) PROVE IInv' /\ LedgerStep
<1>1. /\ TypeOK /\ ScratchOutlivesProcess /\ DirectoryOK /\ ExclusiveOK /\ HeldOK /\ UnheldOK
      /\ ForgetOK /\ \A q \in Relay : CleanerOK(q)
  BY DEF IInv
<1>2. TypeOK'
  BY <1>1 DEF Ask, database, TypeOK, Launches
<1>3. ScratchOutlivesProcess'
  BY <1>1 DEF Ask, Owner, ScratchOutlivesProcess
<1>4. MadeOK'
  BY <1>1 DEF Ask, DirectoryOK, MadeOK
<1>5. \A q \in Relay : LaunchOK(q)'
  BY <1>1 DEF Ask, Owner, DirectoryOK, LaunchOK
<1>6. ExclusiveOK'
  BY <1>1 DEF Ask, At, ExclusiveOK, StarterHolds, CleanerHolds
<1>7. HeldOK'
  BY <1>1 DEF Ask, At, HeldOK, Holds, StarterHolds, CleanerHolds
<1>8. UnheldOK'
  BY <1>1 DEF Ask, At, HeldOK, UnheldOK, Holds, StarterHolds, CleanerHolds
<1>9. \A q \in Relay : CleanerOK(q)'
  BY <1>1 DEF Ask, At, CleanerOK
<1>10. ForgetOK'
  BY <1>1 DEF Ask, Owner, database, At, ForgetOK, Settled, Used, Outstanding
<1>11. LedgerStep
  BY DEF Ask, Owner, database, ForgetOK, Used, LedgerStep, Ledger!Next, Ledger!vars
<1>12. QED
  BY <1>2, <1>3, <1>4, <1>5, <1>6, <1>7, <1>8, <1>9, <1>10, <1>11 DEF IInv, DirectoryOK

\* The row is saved while no Forget holds it.
LEMMA SaveKeeps == ASSUME IInv, Save PROVE IInv' /\ LedgerStep
<1>1. /\ TypeOK /\ ScratchOutlivesProcess /\ DirectoryOK /\ ExclusiveOK /\ HeldOK /\ UnheldOK
      /\ ForgetOK /\ \A q \in Relay : CleanerOK(q)
  BY DEF IInv
<1>2. TypeOK'
  BY <1>1 DEF Save, Saved, TypeOK
<1>3. ScratchOutlivesProcess'
  BY <1>1 DEF Save, Owner, Saved, ScratchOutlivesProcess
<1>4. MadeOK'
  BY <1>1 DEF Save, Saved, DirectoryOK, MadeOK
<1>5. \A q \in Relay : LaunchOK(q)'
  BY <1>1 DEF Save, Owner, Saved, DirectoryOK, LaunchOK
<1>6. ExclusiveOK'
  BY <1>1 DEF Save, At, Saved, ExclusiveOK, StarterHolds, CleanerHolds
<1>7. HeldOK'
  BY <1>1 DEF Save, At, Saved, HeldOK, Holds, StarterHolds, CleanerHolds
<1>8. UnheldOK'
  BY <1>1 DEF Save, At, Saved, HeldOK, UnheldOK, Holds, StarterHolds, CleanerHolds
<1>9. \A q \in Relay : CleanerOK(q)'
  BY <1>1 DEF Save, At, Saved, CleanerOK
<1>10. ForgetOK'
  BY <1>1 DEF Save, Owner, At, Saved, ForgetOK, Settled, Used, Outstanding
<1>11. LedgerStep
  BY DEF Save, Owner, Saved, ForgetOK, Used, LedgerStep, Ledger!Next, Ledger!vars
<1>12. QED
  BY <1>2, <1>3, <1>4, <1>5, <1>6, <1>7, <1>8, <1>9, <1>10, <1>11 DEF IInv, DirectoryOK

\* The directory is made, or found.
LEMMA MakeOwnerKeeps == ASSUME IInv, NEW r \in Relay, MakeOwner(r) PROVE IInv' /\ LedgerStep
<1>1. /\ TypeOK /\ ScratchOutlivesProcess /\ DirectoryOK /\ ExclusiveOK /\ HeldOK /\ UnheldOK
      /\ ForgetOK /\ \A q \in Relay : CleanerOK(q)
  BY DEF IInv
<1>2. CASE Owner.made
  <2>1. /\ starter[r] = "asked" /\ OnlyStarter(r, "found")
        /\ UNCHANGED <<row, op, held, proc, orphan, fs, run, cleaner, left>>
    BY <1>1, <1>2 DEF MakeOwner, database, OnlyStarter, TypeOK, Launches
  <2>2. TypeOK'
    BY <1>1, <2>1 DEF OnlyStarter, TypeOK
  <2>3. ScratchOutlivesProcess'
    BY <1>1, <2>1 DEF Owner, ScratchOutlivesProcess
  <2>4. MadeOK'
    BY <1>1, <2>1 DEF DirectoryOK, MadeOK
  <2>5. \A q \in Relay : LaunchOK(q)'
    BY <1>1, <2>1 DEF Owner, OnlyStarter, DirectoryOK, LaunchOK
  <2>6. ExclusiveOK'
    BY <1>1, <2>1 DEF At, OnlyStarter, ExclusiveOK, StarterHolds, CleanerHolds
  <2>7. HeldOK'
    BY <1>1, <2>1 DEF At, OnlyStarter, HeldOK, Holds, StarterHolds, CleanerHolds
  <2>8. UnheldOK'
    BY <1>1, <2>1 DEF At, OnlyStarter, HeldOK, UnheldOK, Holds, StarterHolds, CleanerHolds
  <2>9. \A q \in Relay : CleanerOK(q)'
    BY <1>1, <2>1 DEF At, CleanerOK
  <2>10. ForgetOK'
    BY <1>1, <2>1 DEF Owner, At, ForgetOK, Settled, Used, Outstanding
  <2>11. LedgerStep
    BY <2>1 DEF Owner, ForgetOK, Used, LedgerStep, Ledger!Next, Ledger!vars
  <2>12. QED
    BY <2>2, <2>3, <2>4, <2>5, <2>6, <2>7, <2>8, <2>9, <2>10, <2>11 DEF IInv, DirectoryOK
<1>3. CASE ~Owner.made
  <2>1. /\ starter[r] = "asked" /\ OnlyStarter(r, "made")
        /\ UNCHANGED <<row, op, held, proc, orphan, run, cleaner, left>>
    BY <1>1, <1>3 DEF MakeOwner, database, OnlyStarter, TypeOK, Launches
  <2>2. /\ [NoDir EXCEPT !.made = TRUE] \in Dirs
    BY <2>1 DEF Dirs, NoDir
  <2>3. /\ OnlyPlace(Stable) /\ fs'[Stable] = [NoDir EXCEPT !.made = TRUE]
    BY <1>1, <1>3, <2>2, PutIs, StableIsPlace DEF MakeOwner
  <2>4. /\ OnlyPlace(Stable) /\ fs'[Stable].made = TRUE /\ fs'[Stable].marked = FALSE
        /\ fs'[Stable].fenced = FALSE /\ fs'[Stable].leases = {} /\ fs'[Stable].payload = FALSE
    BY <2>3, <2>2 DEF NoDir
  <2>5. TypeOK'
    BY <1>1, <2>1, <2>4 DEF OnlyPlace, OnlyStarter, TypeOK
  <2>6. ScratchOutlivesProcess'
    BY <1>1, <1>3, <2>1, <2>4
       DEF Owner, OnlyPlace, TypeOK, ScratchOutlivesProcess, DirectoryOK, MadeOK
  <2>7. MadeOK'
    BY <1>1, <2>1, <2>4 DEF OnlyPlace, DirectoryOK, MadeOK
  <2>8. \A q \in Relay : LaunchOK(q)'
    BY <1>1, <1>3, <2>1, <2>4
       DEF Owner, OnlyPlace, OnlyStarter, TypeOK, DirectoryOK, LaunchOK, MadeOK
  <2>9. ExclusiveOK'
    BY <1>1, <2>1, <2>4 DEF At, OnlyStarter, ExclusiveOK, StarterHolds, CleanerHolds
  <2>10. HeldOK'
    BY <1>1, <1>3, <2>1, <2>4
       DEF Owner, At, OnlyPlace, OnlyStarter, HeldOK, Holds, StarterHolds, CleanerHolds
  <2>11. UnheldOK'
    BY <1>1, <2>1, <2>4 DEF At, OnlyPlace, HeldOK, UnheldOK, Holds, CleanerHolds
  <2>12. \A q \in Relay : CleanerOK(q)'
    BY <1>1, <2>1, <2>4 DEF At, OnlyPlace, TypeOK, CleanerOK, Cleaners
  <2>13. ForgetOK'
    BY <1>1, <2>1, <2>4 DEF Owner, At, ForgetOK, Settled, Used, Outstanding
  <2>14. LedgerStep
    BY <1>1, <1>3, <2>1, <2>4, LedgerSame, DirFields, StableIsPlace
       DEF Owner, DirectoryOK, MadeOK
  <2>15. QED
    BY <2>5, <2>6, <2>7, <2>8, <2>9, <2>10, <2>11, <2>12, <2>13, <2>14 DEF IInv, DirectoryOK
<1>4. QED
  BY <1>2, <1>3

\* A launch takes the fence of the directory, or gives up.
LEMMA ClaimOwnerKeeps ==
    ASSUME IInv, NEW r \in Relay, ClaimOwner(r)
    PROVE  IInv' /\ LedgerStep
<1>1. /\ TypeOK /\ ScratchOutlivesProcess /\ DirectoryOK /\ ExclusiveOK /\ HeldOK /\ UnheldOK
      /\ ForgetOK /\ \A q \in Relay : CleanerOK(q)
  BY DEF IInv
<1>2. CASE Owner.made /\ ~Owner.fenced
  <2>1. /\ starter[r] \in {"made", "found"}
        /\ OnlyStarter(r, IF starter[r] = "made" THEN "mark" ELSE "validate")
        /\ UNCHANGED <<row, op, held, proc, orphan, run, cleaner, left>>
    BY <1>1, <1>2 DEF ClaimOwner, database, OnlyStarter, TypeOK, Launches
  <2>2. /\ [Owner EXCEPT !.fenced = TRUE] \in Dirs
    BY <1>1, <2>1, StableIsPlace, DirFields, ZenonT(60) DEF Dirs, Owner
  <2>3. /\ OnlyPlace(Stable) /\ fs'[Stable] = [Owner EXCEPT !.fenced = TRUE]
    BY <1>1, <1>2, <2>2, PutIs, StableIsPlace DEF ClaimOwner
  <2>4. /\ OnlyPlace(Stable) /\ fs'[Stable].made = fs[Stable].made
        /\ fs'[Stable].marked = fs[Stable].marked /\ fs'[Stable].fenced = TRUE
        /\ fs'[Stable].leases = fs[Stable].leases /\ fs'[Stable].payload = fs[Stable].payload
    BY <2>3, <2>2 DEF Owner
  <2>5. TypeOK'
    BY <1>1, <2>1, <2>4 DEF OnlyPlace, OnlyStarter, TypeOK
  <2>6. ScratchOutlivesProcess'
    BY <1>1, <2>1, <2>4 DEF Owner, ScratchOutlivesProcess
  <2>7. MadeOK'
    BY <1>1, <2>1, <2>4 DEF OnlyPlace, DirectoryOK, MadeOK
  <2>8. \A q \in Relay : LaunchOK(q)'
    BY <1>1, <2>1, <2>4 DEF Owner, OnlyStarter, DirectoryOK, LaunchOK
  <2>9. ExclusiveOK'
    BY <1>1, <1>2, <2>1, <2>4
       DEF Owner, At, OnlyPlace, OnlyStarter, TypeOK, ExclusiveOK, HeldOK, Holds,
           StarterHolds, CleanerHolds
  <2>10. HeldOK'
    BY <1>1, <1>2, <2>1, <2>4 DEF Owner, At, OnlyPlace, HeldOK, Holds, CleanerHolds
  <2>11. UnheldOK'
    BY <1>1, <2>1, <2>4
       DEF At, OnlyPlace, OnlyStarter, HeldOK, UnheldOK, Holds, StarterHolds, CleanerHolds
  <2>12. \A q \in Relay : CleanerOK(q)'
    BY <1>1, <2>1, <2>4 DEF At, OnlyPlace, TypeOK, CleanerOK, Cleaners
  <2>13. ForgetOK'
    BY <1>1, <2>1, <2>4 DEF Owner, At, ForgetOK, Settled, Used, Outstanding
  <2>14. LedgerStep
    BY <2>1, <2>4 DEF Owner, ForgetOK, Used, LedgerStep, Ledger!Next, Ledger!vars
  <2>15. QED
    BY <2>5, <2>6, <2>7, <2>8, <2>9, <2>10, <2>11, <2>12, <2>13, <2>14 DEF IInv, DirectoryOK
<1>3. CASE ~(Owner.made /\ ~Owner.fenced)
  <2>1. /\ starter[r] \in {"made", "found"} /\ OnlyStarter(r, "idle")
        /\ UNCHANGED <<row, op, held, proc, orphan, fs, run, cleaner, left>>
    BY <1>1, <1>3 DEF ClaimOwner, database, OnlyStarter, TypeOK, Launches
  <2>2. TypeOK'
    BY <1>1, <2>1 DEF OnlyStarter, TypeOK
  <2>3. ScratchOutlivesProcess'
    BY <1>1, <2>1 DEF Owner, ScratchOutlivesProcess
  <2>4. MadeOK'
    BY <1>1, <2>1 DEF DirectoryOK, MadeOK
  <2>5. \A q \in Relay : LaunchOK(q)'
    BY <1>1, <2>1 DEF Owner, OnlyStarter, DirectoryOK, LaunchOK
  <2>6. ExclusiveOK'
    BY <1>1, <2>1 DEF At, OnlyStarter, ExclusiveOK, StarterHolds, CleanerHolds
  <2>7. HeldOK'
    BY <1>1, <2>1 DEF At, OnlyStarter, HeldOK, Holds, StarterHolds, CleanerHolds
  <2>8. UnheldOK'
    BY <1>1, <2>1 DEF At, OnlyStarter, HeldOK, UnheldOK, Holds, StarterHolds, CleanerHolds
  <2>9. \A q \in Relay : CleanerOK(q)'
    BY <1>1, <2>1 DEF At, CleanerOK
  <2>10. ForgetOK'
    BY <1>1, <2>1 DEF Owner, At, ForgetOK, Settled, Used, Outstanding
  <2>11. LedgerStep
    BY <2>1 DEF Owner, ForgetOK, Used, LedgerStep, Ledger!Next, Ledger!vars
  <2>12. QED
    BY <2>2, <2>3, <2>4, <2>5, <2>6, <2>7, <2>8, <2>9, <2>10, <2>11 DEF IInv, DirectoryOK
<1>4. QED
  BY <1>2, <1>3

\* A launch that holds the fence marks the directory.
LEMMA MarkKeeps == ASSUME IInv, NEW r \in Relay, Mark(r) PROVE IInv' /\ LedgerStep
<1>1. /\ TypeOK /\ ScratchOutlivesProcess /\ DirectoryOK /\ ExclusiveOK /\ HeldOK /\ UnheldOK
      /\ ForgetOK /\ \A q \in Relay : CleanerOK(q)
  BY DEF IInv
<1>2. CASE starter[r] = "mark" \/ Owner.marked
  <2>1. /\ starter[r] \in {"mark", "validate"} /\ OnlyStarter(r, "marked")
        /\ UNCHANGED <<row, op, held, proc, orphan, run, cleaner, left>>
    BY <1>1, <1>2 DEF Mark, database, OnlyStarter, Unfenced, TypeOK, Launches
  <2>2. /\ [Owner EXCEPT !.marked = TRUE] \in Dirs
    BY <1>1, <2>1, StableIsPlace, DirFields, ZenonT(60) DEF Dirs, Owner
  <2>3. /\ OnlyPlace(Stable) /\ fs'[Stable] = [Owner EXCEPT !.marked = TRUE]
    BY <1>1, <1>2, <2>2, PutIs, StableIsPlace DEF Mark, Unfenced
  <2>4. /\ OnlyPlace(Stable) /\ fs'[Stable].made = fs[Stable].made /\ fs'[Stable].marked = TRUE
        /\ fs'[Stable].fenced = fs[Stable].fenced /\ fs'[Stable].leases = fs[Stable].leases
        /\ fs'[Stable].payload = fs[Stable].payload
    BY <2>3, <2>2 DEF Owner
  <2>5. TypeOK'
    BY <1>1, <2>1, <2>4 DEF OnlyPlace, OnlyStarter, TypeOK
  <2>6. ScratchOutlivesProcess'
    BY <1>1, <2>1, <2>4 DEF Owner, ScratchOutlivesProcess
  <2>7. MadeOK'
    BY <1>1, <2>1, <2>4 DEF OnlyPlace, DirectoryOK, MadeOK, HeldOK, Holds, StarterHolds
  <2>8. \A q \in Relay : LaunchOK(q)'
    BY <1>1, <2>1, <2>4 DEF Owner, OnlyStarter, DirectoryOK, LaunchOK
  <2>9. ExclusiveOK'
    BY <1>1, <2>1, <2>4 DEF At, OnlyStarter, ExclusiveOK, StarterHolds, CleanerHolds
  <2>10. HeldOK'
    BY <1>1, <2>1, <2>4 DEF At, OnlyPlace, HeldOK, Holds, StarterHolds, CleanerHolds
  <2>11. UnheldOK'
    BY <1>1, <2>1, <2>4
       DEF At, OnlyPlace, OnlyStarter, HeldOK, UnheldOK, Holds, StarterHolds, CleanerHolds
  <2>12. \A q \in Relay : CleanerOK(q)'
    BY <1>1, <2>1, <2>4, CleanersKept DEF OnlyPlace
  <2>13. ForgetOK'
    BY <1>1, <2>1, <2>4 DEF Owner, At, ForgetOK, Settled, Used, Outstanding
  <2>14. LedgerStep
    BY <2>1, <2>4 DEF Owner, ForgetOK, Used, LedgerStep, Ledger!Next, Ledger!vars
  <2>15. QED
    BY <2>5, <2>6, <2>7, <2>8, <2>9, <2>10, <2>11, <2>12, <2>13, <2>14 DEF IInv, DirectoryOK
<1>3. CASE ~(starter[r] = "mark" \/ Owner.marked)
  <2>1. /\ starter[r] = "validate" /\ OnlyStarter(r, "idle")
        /\ UNCHANGED <<row, op, held, proc, orphan, run, cleaner, left>>
    BY <1>1, <1>3 DEF Mark, database, OnlyStarter, Unfenced, TypeOK, Launches
  <2>2. /\ [fs[Stable] EXCEPT !.fenced = FALSE] \in Dirs
    BY <1>1, <2>1, StableIsPlace, DirFields, ZenonT(60) DEF Dirs
  <2>3. /\ OnlyPlace(Stable) /\ fs'[Stable] = [fs[Stable] EXCEPT !.fenced = FALSE]
    BY <1>1, <1>3, <2>2, PutIs, StableIsPlace DEF Mark, Unfenced
  <2>4. /\ OnlyPlace(Stable) /\ fs'[Stable].made = fs[Stable].made
        /\ fs'[Stable].marked = fs[Stable].marked /\ fs'[Stable].fenced = FALSE
        /\ fs'[Stable].leases = fs[Stable].leases /\ fs'[Stable].payload = fs[Stable].payload
    BY <2>3, <2>2
  <2>5. TypeOK'
    BY <1>1, <2>1, <2>4 DEF OnlyPlace, OnlyStarter, TypeOK
  <2>6. ScratchOutlivesProcess'
    BY <1>1, <1>3, <2>1, <2>4 DEF ScratchOutlivesProcess
  <2>7. MadeOK'
    BY <1>1, <2>1, <2>4 DEF OnlyPlace, DirectoryOK, MadeOK
  <2>8. \A q \in Relay : LaunchOK(q)'
    BY <1>1, <1>3, <2>1, <2>4 DEF OnlyStarter, DirectoryOK, LaunchOK
  <2>9. ExclusiveOK'
    BY <1>1, <2>1, <2>4 DEF At, OnlyStarter, ExclusiveOK, StarterHolds, CleanerHolds
  <2>10. HeldOK'
    BY <1>1, <2>1, <2>4
       DEF At, OnlyPlace, OnlyStarter, ExclusiveOK, HeldOK, Holds, StarterHolds,
           CleanerHolds
  <2>11. UnheldOK'
    BY <1>1, <2>1, <2>4 DEF At, OnlyPlace, HeldOK, UnheldOK, Holds, CleanerHolds
  <2>12. \A q \in Relay : CleanerOK(q)'
    BY <1>1, <2>1, <2>4, CleanersKept DEF OnlyPlace
  <2>13. ForgetOK'
    BY <1>1, <2>1, <2>4 DEF Owner, At, ForgetOK, Settled, Used, Outstanding
  <2>14. LedgerStep
    BY <2>1, <2>4 DEF Owner, ForgetOK, Used, LedgerStep, Ledger!Next, Ledger!vars
  <2>15. QED
    BY <2>5, <2>6, <2>7, <2>8, <2>9, <2>10, <2>11, <2>12, <2>13, <2>14 DEF IInv, DirectoryOK
<1>4. QED
  BY <1>2, <1>3

\* A launch that holds the fence is admitted, or lets go of it.
LEMMA AdmitKeeps == ASSUME IInv, NEW r \in Relay, Admit(r) PROVE IInv' /\ LedgerStep
<1>1. /\ TypeOK /\ ScratchOutlivesProcess /\ DirectoryOK /\ ExclusiveOK /\ HeldOK /\ UnheldOK
      /\ ForgetOK /\ \A q \in Relay : CleanerOK(q)
  BY DEF IInv
<1>2. CASE Available
  <2>1. /\ starter[r] = "marked" /\ OnlyStarter(r, "admitted")
        /\ UNCHANGED <<row, op, held, proc, orphan, fs, run, cleaner, left>>
    BY <1>1, <1>2 DEF Admit, database, OnlyStarter, Unfenced, TypeOK, Launches
  <2>2. TypeOK'
    BY <1>1, <2>1 DEF OnlyStarter, TypeOK
  <2>3. ScratchOutlivesProcess'
    BY <1>1, <2>1 DEF Owner, ScratchOutlivesProcess
  <2>4. MadeOK'
    BY <1>1, <2>1 DEF DirectoryOK, MadeOK
  <2>5. \A q \in Relay : LaunchOK(q)'
    BY <1>1, <2>1 DEF Owner, OnlyStarter, DirectoryOK, LaunchOK
  <2>6. ExclusiveOK'
    BY <1>1, <2>1 DEF At, OnlyStarter, ExclusiveOK, StarterHolds, CleanerHolds
  <2>7. HeldOK'
    BY <1>1, <2>1 DEF At, HeldOK, Holds, StarterHolds, CleanerHolds
  <2>8. UnheldOK'
    BY <1>1, <2>1 DEF At, OnlyStarter, HeldOK, UnheldOK, Holds, StarterHolds, CleanerHolds
  <2>9. \A q \in Relay : CleanerOK(q)'
    BY <1>1, <2>1 DEF At, CleanerOK
  <2>10. ForgetOK'
    BY <1>1, <2>1 DEF Owner, At, ForgetOK, Settled, Used, Outstanding
  <2>11. LedgerStep
    BY <2>1 DEF Owner, ForgetOK, Used, LedgerStep, Ledger!Next, Ledger!vars
  <2>12. QED
    BY <2>2, <2>3, <2>4, <2>5, <2>6, <2>7, <2>8, <2>9, <2>10, <2>11 DEF IInv, DirectoryOK
<1>3. CASE ~Available
  <2>1. /\ starter[r] = "marked" /\ OnlyStarter(r, "idle")
        /\ UNCHANGED <<row, op, held, proc, orphan, run, cleaner, left>>
    BY <1>1, <1>3 DEF Admit, database, OnlyStarter, Unfenced, TypeOK, Launches
  <2>2. /\ [fs[Stable] EXCEPT !.fenced = FALSE] \in Dirs
    BY <1>1, <2>1, StableIsPlace, DirFields, ZenonT(60) DEF Dirs
  <2>3. /\ OnlyPlace(Stable) /\ fs'[Stable] = [fs[Stable] EXCEPT !.fenced = FALSE]
    BY <1>1, <1>3, <2>2, PutIs, StableIsPlace DEF Admit, Unfenced
  <2>4. /\ OnlyPlace(Stable) /\ fs'[Stable].made = fs[Stable].made
        /\ fs'[Stable].marked = fs[Stable].marked /\ fs'[Stable].fenced = FALSE
        /\ fs'[Stable].leases = fs[Stable].leases /\ fs'[Stable].payload = fs[Stable].payload
    BY <2>3, <2>2
  <2>5. TypeOK'
    BY <1>1, <2>1, <2>4 DEF OnlyPlace, OnlyStarter, TypeOK
  <2>6. ScratchOutlivesProcess'
    BY <1>1, <2>1, <2>4 DEF Owner, ScratchOutlivesProcess
  <2>7. MadeOK'
    BY <1>1, <2>1, <2>4 DEF OnlyPlace, DirectoryOK, MadeOK
  <2>8. \A q \in Relay : LaunchOK(q)'
    BY <1>1, <2>1, <2>4 DEF Owner, OnlyStarter, DirectoryOK, LaunchOK
  <2>9. ExclusiveOK'
    BY <1>1, <2>1, <2>4 DEF At, OnlyStarter, ExclusiveOK, StarterHolds, CleanerHolds
  <2>10. HeldOK'
    BY <1>1, <2>1, <2>4
       DEF At, OnlyPlace, OnlyStarter, ExclusiveOK, HeldOK, Holds, StarterHolds,
           CleanerHolds
  <2>11. UnheldOK'
    BY <1>1, <2>1, <2>4 DEF At, OnlyPlace, HeldOK, UnheldOK, Holds, CleanerHolds
  <2>12. \A q \in Relay : CleanerOK(q)'
    BY <1>1, <2>1, <2>4, RelayAssumption DEF At, OnlyPlace, TypeOK, CleanerOK, Cleaners
  <2>13. ForgetOK'
    BY <1>1, <2>1, <2>4 DEF Owner, At, ForgetOK, Settled, Used, Outstanding
  <2>14. LedgerStep
    BY <2>1, <2>4 DEF Owner, ForgetOK, Used, LedgerStep, Ledger!Next, Ledger!vars
  <2>15. QED
    BY <2>5, <2>6, <2>7, <2>8, <2>9, <2>10, <2>11, <2>12, <2>13, <2>14 DEF IInv, DirectoryOK
<1>4. QED
  BY <1>2, <1>3

\* A lease replaces the fence: no cleanup has checked the directory meanwhile, it
\* needed the fence.
LEMMA LeaseKeeps == ASSUME IInv, NEW r \in Relay, Lease(r) PROVE IInv' /\ LedgerStep
<1>1. /\ TypeOK /\ ScratchOutlivesProcess /\ DirectoryOK /\ ExclusiveOK /\ HeldOK /\ UnheldOK
      /\ ForgetOK /\ \A q \in Relay : CleanerOK(q)
  BY DEF IInv
<1>2. /\ starter[r] = "admitted" /\ OnlyStarter(r, "leased")
      /\ UNCHANGED <<row, op, held, proc, orphan, run, cleaner, left>>
  BY <1>1 DEF Lease, database, OnlyStarter, TypeOK, Launches
<1>3. /\ [Owner EXCEPT !.leases = @ \cup {r}, !.fenced = FALSE] \in Dirs
  BY <1>1, StableIsPlace, DirFields DEF Dirs, Owner
<1>4. /\ OnlyPlace(Stable) /\ fs'[Stable] = [Owner EXCEPT !.leases = @ \cup {r}, !.fenced = FALSE]
  BY <1>1, <1>3, PutIs, StableIsPlace DEF Lease
<1>5. /\ OnlyPlace(Stable) /\ fs'[Stable].made = fs[Stable].made
      /\ fs'[Stable].marked = fs[Stable].marked /\ fs'[Stable].fenced = FALSE
      /\ fs'[Stable].leases = fs[Stable].leases \cup {r}
      /\ fs'[Stable].payload = fs[Stable].payload
  BY <1>4 DEF Owner
<1>6. TypeOK'
  BY <1>1, <1>2, <1>5 DEF OnlyPlace, OnlyStarter, TypeOK
<1>7. ScratchOutlivesProcess'
  BY <1>1, <1>2, <1>5 DEF Owner, ScratchOutlivesProcess
<1>8. MadeOK'
  BY <1>1, <1>5 DEF OnlyPlace, DirectoryOK, MadeOK
<1>9. \A q \in Relay : LaunchOK(q)'
  BY <1>1, <1>2, <1>5 DEF Owner, OnlyStarter, DirectoryOK, LaunchOK
<1>10. ExclusiveOK'
  BY <1>1, <1>2, <1>5 DEF At, OnlyStarter, ExclusiveOK, StarterHolds, CleanerHolds
<1>11. HeldOK'
  BY <1>1, <1>2, <1>5
     DEF At, OnlyPlace, OnlyStarter, ExclusiveOK, HeldOK, Holds, StarterHolds, CleanerHolds
<1>12. UnheldOK'
  BY <1>1, <1>2, <1>5 DEF At, OnlyPlace, HeldOK, UnheldOK, Holds, CleanerHolds
<1>13. \A q \in Relay : CleanerOK(q)'
  BY <1>1, <1>2, <1>5, RelayAssumption
     DEF At, OnlyPlace, TypeOK, ExclusiveOK, StarterHolds, CleanerHolds, CleanerOK, Cleaners
<1>14. ForgetOK'
  BY <1>1, <1>2, <1>5 DEF Owner, At, ForgetOK, Settled, Used, Outstanding
<1>15. LedgerStep
  BY <1>2, <1>5 DEF Owner, ForgetOK, Used, LedgerStep, Ledger!Next, Ledger!vars
<1>16. QED
  BY <1>6, <1>7, <1>8, <1>9, <1>10, <1>11, <1>12, <1>13, <1>14, <1>15 DEF IInv, DirectoryOK

\* A process starts with a lease, or the lease is released.
LEMMA LaunchKeeps == ASSUME IInv, NEW r \in Relay, Launch(r) PROVE IInv' /\ LedgerStep
<1>1. /\ TypeOK /\ ScratchOutlivesProcess /\ DirectoryOK /\ ExclusiveOK /\ HeldOK /\ UnheldOK
      /\ ForgetOK /\ \A q \in Relay : CleanerOK(q)
  BY DEF IInv
<1>2. CASE Available
  <2>1. /\ starter[r] = "leased" /\ op = "none" /\ OnlyStarter(r, "idle")
        /\ proc' = [proc EXCEPT ![r] = "running"]
        /\ UNCHANGED <<row, op, held, orphan, run, cleaner, left>>
    BY <1>1, <1>2 DEF Launch, database, OnlyStarter, Available, TypeOK, Launches
  <2>2. /\ [Owner EXCEPT !.payload = TRUE] \in Dirs
    BY <1>1, <2>1, StableIsPlace, DirFields DEF Dirs, Owner
  <2>3. /\ OnlyPlace(Stable) /\ fs'[Stable] = [Owner EXCEPT !.payload = TRUE]
    BY <1>1, <1>2, <2>2, PutIs, StableIsPlace DEF Launch
  <2>4. /\ OnlyPlace(Stable) /\ fs'[Stable].made = fs[Stable].made
        /\ fs'[Stable].marked = fs[Stable].marked /\ fs'[Stable].fenced = fs[Stable].fenced
        /\ fs'[Stable].leases = fs[Stable].leases /\ fs'[Stable].payload = TRUE
    BY <2>3, <2>2 DEF Owner
  <2>5. TypeOK'
    BY <1>1, <2>1, <2>4 DEF OnlyPlace, OnlyStarter, TypeOK
  <2>6. ScratchOutlivesProcess'
    BY <1>1, <2>1, <2>4 DEF Owner, ScratchOutlivesProcess, DirectoryOK, LaunchOK
  <2>7. MadeOK'
    BY <1>1, <2>1, <2>4 DEF Owner, OnlyPlace, DirectoryOK, MadeOK, LaunchOK
  <2>8. \A q \in Relay : LaunchOK(q)'
    BY <1>1, <2>1, <2>4 DEF Owner, OnlyStarter, DirectoryOK, LaunchOK
  <2>9. ExclusiveOK'
    BY <1>1, <2>1, <2>4 DEF At, OnlyStarter, ExclusiveOK, StarterHolds, CleanerHolds
  <2>10. HeldOK'
    BY <1>1, <2>1, <2>4
       DEF At, OnlyPlace, OnlyStarter, HeldOK, Holds, StarterHolds, CleanerHolds
  <2>11. UnheldOK'
    BY <1>1, <2>1, <2>4
       DEF At, OnlyPlace, OnlyStarter, HeldOK, UnheldOK, Holds, StarterHolds, CleanerHolds
  <2>12. \A q \in Relay : CleanerOK(q)'
    BY <1>1, <2>1, <2>4, CleanersKept DEF OnlyPlace
  <2>13. ForgetOK'
    BY <1>1, <2>1, <2>4 DEF ForgetOK
  <2>14. LedgerStep
    BY <2>1, <2>4
       DEF Owner, ForgetOK, Used, LedgerStep, Ledger!Next, Ledger!vars, Ledger!Live
  <2>15. QED
    BY <2>5, <2>6, <2>7, <2>8, <2>9, <2>10, <2>11, <2>12, <2>13, <2>14 DEF IInv, DirectoryOK
<1>3. CASE ~Available
  <2>1. /\ starter[r] = "leased" /\ op # "none" /\ OnlyStarter(r, "idle")
        /\ UNCHANGED <<row, op, held, proc, orphan, run, cleaner, left>>
    BY <1>1, <1>3 DEF Launch, database, OnlyStarter, Available, TypeOK, Launches
  <2>2. /\ [Owner EXCEPT !.leases = @ \ {r}] \in Dirs
    BY <1>1, <2>1, StableIsPlace, DirFields DEF Dirs, Owner
  <2>3. /\ OnlyPlace(Stable) /\ fs'[Stable] = [Owner EXCEPT !.leases = @ \ {r}]
    BY <1>1, <1>3, <2>2, PutIs, StableIsPlace DEF Launch
  <2>4. /\ OnlyPlace(Stable) /\ fs'[Stable].made = fs[Stable].made
        /\ fs'[Stable].marked = fs[Stable].marked /\ fs'[Stable].fenced = fs[Stable].fenced
        /\ fs'[Stable].leases = fs[Stable].leases \ {r}
        /\ fs'[Stable].payload = fs[Stable].payload
    BY <2>3, <2>2 DEF Owner
  <2>5. TypeOK'
    BY <1>1, <2>1, <2>4 DEF OnlyPlace, OnlyStarter, TypeOK
  <2>6. ScratchOutlivesProcess'
    BY <1>1, <2>1, <2>4, RelayAssumption
       DEF Owner, ScratchOutlivesProcess, DirectoryOK, LaunchOK
  <2>7. MadeOK'
    BY <1>1, <2>1, <2>4 DEF OnlyPlace, DirectoryOK, MadeOK
  <2>8. \A q \in Relay : LaunchOK(q)'
    BY <1>1, <2>1, <2>4 DEF Owner, OnlyStarter, DirectoryOK, LaunchOK
  <2>9. ExclusiveOK'
    BY <1>1, <2>1, <2>4 DEF At, OnlyStarter, ExclusiveOK, StarterHolds, CleanerHolds
  <2>10. HeldOK'
    BY <1>1, <2>1, <2>4
       DEF At, OnlyPlace, OnlyStarter, HeldOK, Holds, StarterHolds, CleanerHolds
  <2>11. UnheldOK'
    BY <1>1, <2>1, <2>4
       DEF At, OnlyPlace, OnlyStarter, HeldOK, UnheldOK, Holds, StarterHolds, CleanerHolds
  <2>12. \A q \in Relay : CleanerOK(q)'
    BY <1>1, <2>1, <2>4, CleanersKept DEF OnlyPlace
  <2>13. ForgetOK'
    BY <1>1, <2>1, <2>4 DEF Owner, At, ForgetOK, Settled, Used, Outstanding
  <2>14. LedgerStep
    BY <2>1, <2>4 DEF Owner, ForgetOK, Used, LedgerStep, Ledger!Next, Ledger!vars
  <2>15. QED
    BY <2>5, <2>6, <2>7, <2>8, <2>9, <2>10, <2>11, <2>12, <2>13, <2>14 DEF IInv, DirectoryOK
<1>4. QED
  BY <1>2, <1>3

\* A process that is told to stop keeps its lease.
LEMMA DisposeKeeps == ASSUME IInv, NEW r \in Relay, Dispose(r) PROVE IInv' /\ LedgerStep
<1>1. /\ TypeOK /\ ScratchOutlivesProcess /\ DirectoryOK /\ ExclusiveOK /\ HeldOK /\ UnheldOK
      /\ ForgetOK /\ \A q \in Relay : CleanerOK(q)
  BY DEF IInv
<1>2. TypeOK'
  BY <1>1 DEF Dispose, database, TypeOK
<1>3. ScratchOutlivesProcess'
  BY <1>1 DEF Dispose, Owner, ScratchOutlivesProcess
<1>4. MadeOK'
  BY <1>1 DEF Dispose, DirectoryOK, MadeOK
<1>5. \A q \in Relay : LaunchOK(q)'
  BY <1>1 DEF Dispose, Owner, DirectoryOK, LaunchOK
<1>6. ExclusiveOK'
  BY <1>1 DEF Dispose, At, ExclusiveOK, StarterHolds, CleanerHolds
<1>7. HeldOK'
  BY <1>1 DEF Dispose, At, HeldOK, Holds, StarterHolds, CleanerHolds
<1>8. UnheldOK'
  BY <1>1 DEF Dispose, At, HeldOK, UnheldOK, Holds, StarterHolds, CleanerHolds
<1>9. \A q \in Relay : CleanerOK(q)'
  BY <1>1 DEF Dispose, At, CleanerOK
<1>10. ForgetOK'
  BY <1>1 DEF Dispose, database, At, ForgetOK, Settled, Used, Outstanding
<1>11. LedgerStep
  BY DEF Dispose, Owner, database, ForgetOK, Used, LedgerStep, Ledger!Next, Ledger!vars
<1>12. QED
  BY <1>2, <1>3, <1>4, <1>5, <1>6, <1>7, <1>8, <1>9, <1>10, <1>11 DEF IInv, DirectoryOK

\* A lease goes with the process it was for.
LEMMA ClosedKeeps == ASSUME IInv, NEW r \in Relay, Closed(r) PROVE IInv' /\ LedgerStep
<1>1. /\ TypeOK /\ ScratchOutlivesProcess /\ DirectoryOK /\ ExclusiveOK /\ HeldOK /\ UnheldOK
      /\ ForgetOK /\ \A q \in Relay : CleanerOK(q)
  BY DEF IInv
<1>2. /\ proc[r] = "closing" /\ proc' = [proc EXCEPT ![r] = "none"]
      /\ UNCHANGED <<row, op, held, starter, orphan, run, cleaner, left>>
  BY DEF Closed, database
<1>3. /\ [Owner EXCEPT !.leases = @ \ {r}] \in Dirs
  BY <1>1, StableIsPlace, DirFields DEF Dirs, Owner
<1>4. /\ OnlyPlace(Stable) /\ fs'[Stable] = [Owner EXCEPT !.leases = @ \ {r}]
  BY <1>1, <1>3, PutIs, StableIsPlace DEF Closed
<1>5. /\ OnlyPlace(Stable) /\ fs'[Stable].made = fs[Stable].made
      /\ fs'[Stable].marked = fs[Stable].marked /\ fs'[Stable].fenced = fs[Stable].fenced
      /\ fs'[Stable].leases = fs[Stable].leases \ {r} /\ fs'[Stable].payload = fs[Stable].payload
  BY <1>4 DEF Owner
<1>6. TypeOK'
  BY <1>1, <1>2, <1>5 DEF OnlyPlace, TypeOK
<1>7. ScratchOutlivesProcess'
  BY <1>1, <1>2, <1>5, RelayAssumption DEF Owner, TypeOK, ScratchOutlivesProcess
<1>8. MadeOK'
  BY <1>1, <1>5 DEF OnlyPlace, DirectoryOK, MadeOK
<1>9. \A q \in Relay : LaunchOK(q)'
  BY <1>1, <1>2, <1>5 DEF Owner, DirectoryOK, LaunchOK
<1>10. ExclusiveOK'
  BY <1>1, <1>2, <1>5, RelayAssumption DEF At, ExclusiveOK, StarterHolds, CleanerHolds
<1>11. HeldOK'
  BY <1>1, <1>2, <1>5 DEF At, OnlyPlace, HeldOK, Holds, StarterHolds, CleanerHolds
<1>12. UnheldOK'
  BY <1>1, <1>2, <1>5 DEF At, OnlyPlace, HeldOK, UnheldOK, Holds, StarterHolds, CleanerHolds
<1>13. \A q \in Relay : CleanerOK(q)'
  BY <1>1, <1>2, <1>5, CleanersKept DEF OnlyPlace
<1>14. ForgetOK'
  BY <1>1, <1>2, <1>5 DEF At, ForgetOK, Settled, Used, Outstanding
<1>15. LedgerStep
  BY <1>1, <1>2, <1>5
     DEF Owner, ScratchOutlivesProcess, ForgetOK, Settled, Used, LedgerStep, Ledger!Next,
         Ledger!vars, Ledger!Live, Ledger!StopWork
<1>16. QED
  BY <1>6, <1>7, <1>8, <1>9, <1>10, <1>11, <1>12, <1>13, <1>14, <1>15 DEF IInv, DirectoryOK

-----------------------------------------------------------------------------
(* ------------------------------ Forget --------------------------------- *)
\* A Forget begins, or joins the one that was begun.
LEMMA ForgetKeeps == ASSUME IInv, NEW r \in Relay, Forget(r) PROVE IInv' /\ LedgerStep
<1>1. /\ TypeOK /\ ScratchOutlivesProcess /\ DirectoryOK /\ ExclusiveOK /\ HeldOK /\ UnheldOK
      /\ ForgetOK /\ \A q \in Relay : CleanerOK(q)
  BY DEF IInv
<1>2. TypeOK'
  BY <1>1 DEF Forget, Advanced, TypeOK
<1>3. ScratchOutlivesProcess'
  BY <1>1 DEF Forget, Owner, Advanced, ScratchOutlivesProcess
<1>4. MadeOK'
  BY <1>1 DEF Forget, Advanced, DirectoryOK, MadeOK
<1>5. \A q \in Relay : LaunchOK(q)'
  BY <1>1 DEF Forget, Owner, Advanced, DirectoryOK, LaunchOK
<1>6. ExclusiveOK'
  BY <1>1 DEF Forget, At, Advanced, ExclusiveOK, StarterHolds, CleanerHolds
<1>7. HeldOK'
  BY <1>1 DEF Forget, At, Advanced, HeldOK, Holds, StarterHolds, CleanerHolds
<1>8. UnheldOK'
  BY <1>1 DEF Forget, At, Advanced, HeldOK, UnheldOK, Holds, StarterHolds, CleanerHolds
<1>9. \A q \in Relay : CleanerOK(q)'
  BY <1>1 DEF Forget, At, Advanced, CleanerOK
<1>10. ForgetOK'
  BY <1>1 DEF Forget, Owner, At, Advanced, ForgetOK, Settled, Used, Outstanding
<1>11. LedgerStep
  BY DEF Forget, Owner, Advanced, ForgetOK, Used, LedgerStep, Ledger!Next, Ledger!vars,
         Ledger!Begin
<1>12. QED
  BY <1>2, <1>3, <1>4, <1>5, <1>6, <1>7, <1>8, <1>9, <1>10, <1>11 DEF IInv, DirectoryOK

\* The cleanup of a Forget has the directory before it.
LEMMA ReleasedKeeps == ASSUME IInv, NEW r \in Relay, Released(r) PROVE IInv' /\ LedgerStep
<1>1. /\ TypeOK /\ ScratchOutlivesProcess /\ DirectoryOK /\ ExclusiveOK /\ HeldOK /\ UnheldOK
      /\ ForgetOK /\ \A q \in Relay : CleanerOK(q)
  BY DEF IInv
<1>2. CASE op = "completed"
  <2>1. /\ run[r] = "releasing" /\ run' = [run EXCEPT ![r] = "none"]
        /\ UNCHANGED <<row, op, held, starter, proc, orphan, fs, cleaner, left>>
    BY <1>2 DEF Released, Advanced
  <2>2. TypeOK'
    BY <1>1, <2>1 DEF TypeOK
  <2>3. ScratchOutlivesProcess'
    BY <1>1, <2>1 DEF Owner, ScratchOutlivesProcess
  <2>4. MadeOK'
    BY <1>1, <2>1 DEF DirectoryOK, MadeOK
  <2>5. \A q \in Relay : LaunchOK(q)'
    BY <1>1, <2>1 DEF Owner, DirectoryOK, LaunchOK
  <2>6. ExclusiveOK'
    BY <1>1, <2>1 DEF At, ExclusiveOK, StarterHolds, CleanerHolds
  <2>7. HeldOK'
    BY <1>1, <2>1 DEF At, HeldOK, Holds, StarterHolds, CleanerHolds
  <2>8. UnheldOK'
    BY <1>1, <2>1 DEF At, HeldOK, UnheldOK, Holds, StarterHolds, CleanerHolds
  <2>9. \A q \in Relay : CleanerOK(q)'
    BY <1>1, <2>1 DEF At, CleanerOK
  <2>10. ForgetOK'
    BY <1>1, <1>2, <2>1 DEF Owner, ForgetOK, Settled, Used
  <2>11. LedgerStep
    BY <2>1 DEF Owner, ForgetOK, Used, LedgerStep, Ledger!Next, Ledger!vars
  <2>12. QED
    BY <2>2, <2>3, <2>4, <2>5, <2>6, <2>7, <2>8, <2>9, <2>10, <2>11 DEF IInv, DirectoryOK
<1>3. CASE op # "completed"
  <2>1. /\ run[r] = "releasing" /\ cleaner[r].pc = "idle" /\ run' = [run EXCEPT ![r] = "cleaning"]
        /\ op' = "cleaning" /\ UNCHANGED <<row, held, starter, proc, orphan, fs, left>>
    BY <1>3 DEF Released, Advanced
  <2>2. /\ [Idle EXCEPT !.pc = "list", !.forget = TRUE] \in Cleaners
    BY <2>1, StableIsPlace DEF Cleaners, Idle
  <2>3. /\ OnlyCleaner(r) /\ cleaner'[r] = [Idle EXCEPT !.pc = "list", !.forget = TRUE]
    BY <1>1, <1>3, <2>2, CleanIs DEF Released, Advanced, CleanTo
  <2>4. /\ OnlyCleaner(r) /\ cleaner'[r].pc = "list" /\ cleaner'[r].forget = TRUE
        /\ cleaner'[r].at = Stable /\ cleaner'[r].todo = {} /\ cleaner'[r].bad = FALSE
    BY <2>3, <2>2 DEF Idle
  <2>5. TypeOK'
    BY <1>1, <2>1, <2>4 DEF OnlyCleaner, TypeOK
  <2>6. ScratchOutlivesProcess'
    BY <1>1, <2>1, <2>4 DEF Owner, ScratchOutlivesProcess
  <2>7. MadeOK'
    BY <1>1, <2>1, <2>4 DEF DirectoryOK, MadeOK
  <2>8. \A q \in Relay : LaunchOK(q)'
    BY <1>1, <2>1, <2>4 DEF Owner, DirectoryOK, LaunchOK
  <2>9. ExclusiveOK'
    BY <1>1, <2>1, <2>4 DEF At, OnlyCleaner, ExclusiveOK, StarterHolds, CleanerHolds
  <2>10. HeldOK'
    BY <1>1, <2>1, <2>4 DEF At, OnlyCleaner, HeldOK, Holds, StarterHolds, CleanerHolds
  <2>11. UnheldOK'
    BY <1>1, <2>1, <2>4
       DEF At, OnlyCleaner, HeldOK, UnheldOK, Holds, StarterHolds, CleanerHolds
  <2>12. \A q \in Relay : CleanerOK(q)'
    BY <1>1, <2>1, <2>4, ZenonT(60) DEF At, OnlyCleaner, CleanerOK, Cleaners
  <2>13. ForgetOK'
    BY <1>1, <1>3, <2>1, <2>4
       DEF Owner, At, OnlyCleaner, TypeOK, ForgetOK, Settled, Used, Outstanding
  <2>14. LedgerStep
    BY <1>1, <2>1, <2>4 DEF Owner, ForgetOK, Used, LedgerStep, Ledger!Next, Ledger!vars
  <2>15. QED
    BY <2>5, <2>6, <2>7, <2>8, <2>9, <2>10, <2>11, <2>12, <2>13, <2>14 DEF IInv, DirectoryOK
<1>4. QED
  BY <1>2, <1>3

\* A Forget that could not release fails.
LEMMA ReleaseFailsKeeps ==
    ASSUME IInv, NEW r \in Relay, ReleaseFails(r)
    PROVE  IInv' /\ LedgerStep
<1>1. /\ TypeOK /\ ScratchOutlivesProcess /\ DirectoryOK /\ ExclusiveOK /\ HeldOK /\ UnheldOK
      /\ ForgetOK /\ \A q \in Relay : CleanerOK(q)
  BY DEF IInv
<1>2. TypeOK'
  BY <1>1 DEF ReleaseFails, Advanced, Fails, TypeOK
<1>3. ScratchOutlivesProcess'
  BY <1>1 DEF ReleaseFails, Owner, Advanced, Fails, ScratchOutlivesProcess
<1>4. MadeOK'
  BY <1>1 DEF ReleaseFails, Advanced, Fails, DirectoryOK, MadeOK
<1>5. \A q \in Relay : LaunchOK(q)'
  BY <1>1 DEF ReleaseFails, Owner, Advanced, Fails, DirectoryOK, LaunchOK
<1>6. ExclusiveOK'
  BY <1>1 DEF ReleaseFails, At, Advanced, Fails, ExclusiveOK, StarterHolds, CleanerHolds
<1>7. HeldOK'
  BY <1>1 DEF ReleaseFails, At, Advanced, Fails, HeldOK, Holds, StarterHolds, CleanerHolds
<1>8. UnheldOK'
  BY <1>1
     DEF ReleaseFails, At, Advanced, Fails, HeldOK, UnheldOK, Holds, StarterHolds,
         CleanerHolds
<1>9. \A q \in Relay : CleanerOK(q)'
  BY <1>1 DEF ReleaseFails, At, Advanced, Fails, CleanerOK
<1>10. ForgetOK'
  BY <1>1 DEF ReleaseFails, Owner, At, Advanced, Fails, ForgetOK, Settled, Used, Outstanding
<1>11. LedgerStep
  BY <1>1
     DEF ReleaseFails, Owner, Advanced, Fails, ForgetOK, Used, LedgerStep, Ledger!Next,
         Ledger!vars
<1>12. QED
  BY <1>2, <1>3, <1>4, <1>5, <1>6, <1>7, <1>8, <1>9, <1>10, <1>11 DEF IInv, DirectoryOK

\* A Forget whose cleanup is whole leaves nothing that runs and nothing in the
\* directory.
LEMMA CleanedKeeps == ASSUME IInv, NEW r \in Relay, Cleaned(r) PROVE IInv' /\ LedgerStep
<1>1. /\ TypeOK /\ ScratchOutlivesProcess /\ DirectoryOK /\ ExclusiveOK /\ HeldOK /\ UnheldOK
      /\ ForgetOK /\ \A q \in Relay : CleanerOK(q)
  BY DEF IInv
<1>2. CASE cleaner[r].bad
  <2>1. /\ run[r] = "cleaning" /\ cleaner[r].pc = "done" /\ run' = [run EXCEPT ![r] = "none"]
        /\ op' = (IF op = "completed" THEN op ELSE "failed")
        /\ UNCHANGED <<row, held, starter, proc, orphan, fs, left>>
    BY <1>2 DEF Cleaned, Advanced, Fails
  <2>2. /\ Idle \in Cleaners
    BY <2>1, StableIsPlace DEF Cleaners, Idle
  <2>3. /\ OnlyCleaner(r) /\ cleaner'[r] = Idle
    BY <1>1, <2>2, CleanIs DEF Cleaned, Advanced, Fails, CleanTo
  <2>4. /\ OnlyCleaner(r) /\ cleaner'[r].pc = "idle" /\ cleaner'[r].forget = FALSE
        /\ cleaner'[r].at = Stable /\ cleaner'[r].todo = {} /\ cleaner'[r].bad = FALSE
    BY <2>3, <2>2 DEF Idle
  <2>5. TypeOK'
    BY <1>1, <2>1, <2>4 DEF OnlyCleaner, TypeOK
  <2>6. ScratchOutlivesProcess'
    BY <1>1, <2>1, <2>4 DEF Owner, ScratchOutlivesProcess
  <2>7. MadeOK'
    BY <1>1, <2>1, <2>4 DEF DirectoryOK, MadeOK
  <2>8. \A q \in Relay : LaunchOK(q)'
    BY <1>1, <2>1, <2>4 DEF Owner, DirectoryOK, LaunchOK
  <2>9. ExclusiveOK'
    BY <1>1, <2>1, <2>4 DEF At, OnlyCleaner, ExclusiveOK, StarterHolds, CleanerHolds
  <2>10. HeldOK'
    BY <1>1, <2>1, <2>4 DEF At, OnlyCleaner, HeldOK, Holds, StarterHolds, CleanerHolds
  <2>11. UnheldOK'
    BY <1>1, <2>1, <2>4
       DEF At, OnlyCleaner, HeldOK, UnheldOK, Holds, StarterHolds, CleanerHolds
  <2>12. \A q \in Relay : CleanerOK(q)'
    BY <1>1, <2>1, <2>4, SMTT(40) DEF At, OnlyCleaner, CleanerOK, Cleaners
  <2>13. ForgetOK'
    BY <1>1, <2>1, <2>4
       DEF Owner, At, OnlyCleaner, TypeOK, ForgetOK, Settled, Used, Outstanding
  <2>14. LedgerStep
    BY <1>1, <2>1, <2>4 DEF Owner, ForgetOK, Used, LedgerStep, Ledger!Next, Ledger!vars
  <2>15. QED
    BY <2>5, <2>6, <2>7, <2>8, <2>9, <2>10, <2>11, <2>12, <2>13, <2>14 DEF IInv, DirectoryOK
<1>3. CASE ~cleaner[r].bad
  <2>1. /\ run[r] = "cleaning" /\ cleaner[r].pc = "done"
        /\ run' = [run EXCEPT ![r] = IF op = "completed" THEN "none" ELSE "finalizing"]
        /\ op' = (IF op = "completed" THEN op ELSE "finalizing")
        /\ UNCHANGED <<row, held, starter, proc, orphan, fs, left>>
    BY <1>3 DEF Cleaned, Advanced, Fails
  <2>2. /\ Idle \in Cleaners
    BY <2>1, StableIsPlace DEF Cleaners, Idle
  <2>3. /\ OnlyCleaner(r) /\ cleaner'[r] = Idle
    BY <1>1, <2>2, CleanIs DEF Cleaned, Advanced, Fails, CleanTo
  <2>4. /\ OnlyCleaner(r) /\ cleaner'[r].pc = "idle" /\ cleaner'[r].forget = FALSE
        /\ cleaner'[r].at = Stable /\ cleaner'[r].todo = {} /\ cleaner'[r].bad = FALSE
    BY <2>3, <2>2 DEF Idle
  <2>5. TypeOK'
    BY <1>1, <2>1, <2>4 DEF OnlyCleaner, TypeOK
  <2>6. ScratchOutlivesProcess'
    BY <1>1, <2>1, <2>4 DEF Owner, ScratchOutlivesProcess
  <2>7. MadeOK'
    BY <1>1, <2>1, <2>4 DEF DirectoryOK, MadeOK
  <2>8. \A q \in Relay : LaunchOK(q)'
    BY <1>1, <2>1, <2>4 DEF Owner, DirectoryOK, LaunchOK
  <2>9. ExclusiveOK'
    BY <1>1, <2>1, <2>4 DEF At, OnlyCleaner, ExclusiveOK, StarterHolds, CleanerHolds
  <2>10. HeldOK'
    BY <1>1, <2>1, <2>4 DEF At, OnlyCleaner, HeldOK, Holds, StarterHolds, CleanerHolds
  <2>11. UnheldOK'
    BY <1>1, <2>1, <2>4
       DEF At, OnlyCleaner, HeldOK, UnheldOK, Holds, StarterHolds, CleanerHolds
  <2>12. \A q \in Relay : CleanerOK(q)'
    BY <1>1, <2>1, <2>4, ZenonT(60) DEF At, OnlyCleaner, Launches, CleanerOK, Cleaners
  <2>13. ForgetOK'
    BY <1>1, <1>3, <2>1, <2>4
       DEF Owner, OnlyCleaner, TypeOK, CleanerOK, ForgetOK, Settled, Used, Outstanding
  <2>14. LedgerStep
    BY <1>1, <2>1, <2>4 DEF Owner, ForgetOK, Used, LedgerStep, Ledger!Next, Ledger!vars
  <2>15. QED
    BY <2>5, <2>6, <2>7, <2>8, <2>9, <2>10, <2>11, <2>12, <2>13, <2>14 DEF IInv, DirectoryOK
<1>4. QED
  BY <1>2, <1>3

\* The entry goes after the files and the processes.
LEMMA FinalizeKeeps == ASSUME IInv, NEW r \in Relay, Finalize(r) PROVE IInv' /\ LedgerStep
<1>1. /\ TypeOK /\ ScratchOutlivesProcess /\ DirectoryOK /\ ExclusiveOK /\ HeldOK /\ UnheldOK
      /\ ForgetOK /\ \A q \in Relay : CleanerOK(q)
  BY DEF IInv
<1>2. TypeOK'
  BY <1>1 DEF Finalize, Advanced, Fails, TypeOK
<1>3. ScratchOutlivesProcess'
  BY <1>1 DEF Finalize, Owner, Advanced, Fails, ScratchOutlivesProcess
<1>4. MadeOK'
  BY <1>1 DEF Finalize, Advanced, Fails, DirectoryOK, MadeOK
<1>5. \A q \in Relay : LaunchOK(q)'
  BY <1>1 DEF Finalize, Owner, Advanced, Fails, DirectoryOK, LaunchOK
<1>6. ExclusiveOK'
  BY <1>1 DEF Finalize, At, Advanced, Fails, ExclusiveOK, StarterHolds, CleanerHolds
<1>7. HeldOK'
  BY <1>1 DEF Finalize, At, Advanced, Fails, HeldOK, Holds, StarterHolds, CleanerHolds
<1>8. UnheldOK'
  BY <1>1
     DEF Finalize, At, Advanced, Fails, HeldOK, UnheldOK, Holds, StarterHolds, CleanerHolds
<1>9. \A q \in Relay : CleanerOK(q)'
  BY <1>1 DEF Finalize, At, Advanced, Fails, CleanerOK
<1>10. ForgetOK'
  BY <1>1 DEF Finalize, Owner, Advanced, Fails, TypeOK, ForgetOK, Settled, Used
<1>11. LedgerStep
  BY <1>1
     DEF Finalize, Owner, Advanced, Fails, ForgetOK, Settled, Used, LedgerStep, Ledger!Next,
         Ledger!vars, Ledger!Retire
<1>12. QED
  BY <1>2, <1>3, <1>4, <1>5, <1>6, <1>7, <1>8, <1>9, <1>10, <1>11 DEF IInv, DirectoryOK

-----------------------------------------------------------------------------
(* ------------------------------ cleanup -------------------------------- *)
\* Clean TMP begins a cleanup that no Forget authorises.
LEMMA CleanTmpKeeps == ASSUME IInv, NEW r \in Relay, CleanTmp(r) PROVE IInv' /\ LedgerStep
<1>1. /\ TypeOK /\ ScratchOutlivesProcess /\ DirectoryOK /\ ExclusiveOK /\ HeldOK /\ UnheldOK
      /\ ForgetOK /\ \A q \in Relay : CleanerOK(q)
  BY DEF IInv
<1>2. TypeOK'
  BY <1>1, StableIsPlace, ZenonT(60) DEF CleanTmp, database, Idle, CleanTo, TypeOK, Cleaners
<1>3. ScratchOutlivesProcess'
  BY <1>1 DEF CleanTmp, Owner, ScratchOutlivesProcess
<1>4. MadeOK'
  BY <1>1 DEF CleanTmp, DirectoryOK, MadeOK
<1>5. \A q \in Relay : LaunchOK(q)'
  BY <1>1 DEF CleanTmp, Owner, DirectoryOK, LaunchOK
<1>6. ExclusiveOK'
  BY <1>1 DEF CleanTmp, At, CleanTo, ExclusiveOK, StarterHolds, CleanerHolds
<1>7. HeldOK'
  BY <1>1 DEF CleanTmp, At, CleanTo, HeldOK, Holds, StarterHolds, CleanerHolds
<1>8. UnheldOK'
  BY <1>1 DEF CleanTmp, At, CleanTo, HeldOK, UnheldOK, Holds, StarterHolds, CleanerHolds
<1>9. \A q \in Relay : CleanerOK(q)'
  BY <1>1 DEF CleanTmp, At, CleanTo, CleanerOK
<1>10. ForgetOK'
  BY <1>1
     DEF CleanTmp, Owner, database, Idle, At, CleanTo, ForgetOK, Settled, Used, Outstanding
<1>11. LedgerStep
  BY DEF CleanTmp, Owner, database, ForgetOK, Used, LedgerStep, Ledger!Next, Ledger!vars
<1>12. QED
  BY <1>2, <1>3, <1>4, <1>5, <1>6, <1>7, <1>8, <1>9, <1>10, <1>11 DEF IInv, DirectoryOK

\* A cleanup that lists the directories has the one of the session before it, or
\* there is none.
LEMMA ListKeeps == ASSUME IInv, NEW r \in Relay, List(r) PROVE IInv' /\ LedgerStep
<1>1. /\ TypeOK /\ ScratchOutlivesProcess /\ DirectoryOK /\ ExclusiveOK /\ HeldOK /\ UnheldOK
      /\ ForgetOK /\ \A q \in Relay : CleanerOK(q)
  BY DEF IInv
<1>2. TypeOK'
  BY <1>1, ZenonT(60) DEF List, database, CleanTo, TypeOK, Cleaners
<1>3. ScratchOutlivesProcess'
  BY <1>1 DEF List, Owner, ScratchOutlivesProcess
<1>4. MadeOK'
  BY <1>1 DEF List, DirectoryOK, MadeOK
<1>5. \A q \in Relay : LaunchOK(q)'
  BY <1>1 DEF List, Owner, DirectoryOK, LaunchOK
<1>6. ExclusiveOK'
  BY <1>1 DEF List, At, CleanTo, ExclusiveOK, StarterHolds, CleanerHolds
<1>7. HeldOK'
  BY <1>1 DEF List, At, CleanTo, HeldOK, Holds, StarterHolds, CleanerHolds
<1>8. UnheldOK'
  BY <1>1 DEF List, At, CleanTo, HeldOK, UnheldOK, Holds, StarterHolds, CleanerHolds
<1>9. \A q \in Relay : CleanerOK(q)'
  BY <1>1 DEF List, At, CleanTo, CleanerOK, Cleaners
<1>10. ForgetOK'
  BY <1>1, StableIsPlace
     DEF List, Owner, database, At, CleanTo, ScratchOutlivesProcess, DirectoryOK, MadeOK,
         ForgetOK, Settled, Used, Outstanding
<1>11. LedgerStep
  BY DEF List, Owner, database, ForgetOK, Used, LedgerStep, Ledger!Next, Ledger!vars
<1>12. QED
  BY <1>2, <1>3, <1>4, <1>5, <1>6, <1>7, <1>8, <1>9, <1>10, <1>11 DEF IInv, DirectoryOK

\* A cleanup claims one directory, by its fence, or skips it.
LEMMA ClaimKeeps == ASSUME IInv, NEW r \in Relay, Claim(r) PROVE IInv' /\ LedgerStep
<1>1. /\ TypeOK /\ ScratchOutlivesProcess /\ DirectoryOK /\ ExclusiveOK /\ HeldOK /\ UnheldOK
      /\ ForgetOK /\ \A q \in Relay : CleanerOK(q)
  BY DEF IInv
<1>2. cleaner[r].pc = "next" /\ UNCHANGED <<row, op, held, starter, proc, orphan, run, left>>
  BY DEF Claim, database
<1>3. PICK p \in cleaner[r].todo :
        IF fs[p].made /\ fs[p].marked /\ ~fs[p].fenced
        THEN /\ Put(p, [fs[p] EXCEPT !.fenced = TRUE])
             /\ CleanTo(r, [cleaner[r] EXCEPT !.pc = "claimed", !.at = p, !.todo = @ \ {p}])
        ELSE CleanTo(r, [cleaner[r] EXCEPT !.todo = @ \ {p}, !.bad = TRUE]) /\ UNCHANGED fs
  BY DEF Claim
<1>4. p \in Place
  BY <1>1, CleanerFields
<1>5. CASE fs[p].made /\ fs[p].marked /\ ~fs[p].fenced
  <2>1. /\ p \in cleaner[r].todo
    BY <1>4, <1>5 DEF Claim
  <2>2. /\ [fs[p] EXCEPT !.fenced = TRUE] \in Dirs
    BY <1>1, <1>4, <1>5, <2>1, DirFields DEF Dirs
  <2>3. /\ OnlyPlace(p) /\ fs'[p] = [fs[p] EXCEPT !.fenced = TRUE]
    BY <1>1, <1>3, <1>4, <1>5, <2>2, PutIs DEF Claim
  <2>4. /\ OnlyPlace(p) /\ fs'[p].made = fs[p].made /\ fs'[p].marked = fs[p].marked
        /\ fs'[p].fenced = TRUE /\ fs'[p].leases = fs[p].leases /\ fs'[p].payload = fs[p].payload
    BY <1>4, <1>5, <2>3, <2>2 DEF Dirs
  <2>5. /\ [cleaner[r] EXCEPT !.pc = "claimed", !.at = p, !.todo = @ \ {p}] \in Cleaners
    BY <1>1, <1>4, <1>5, <2>1, CleanerFields DEF Cleaners
  <2>6. /\ OnlyCleaner(r)
        /\ cleaner'[r] = [cleaner[r] EXCEPT !.pc = "claimed", !.at = p, !.todo = @ \ {p}]
    BY <1>1, <1>3, <1>4, <1>5, <2>5, CleanIs DEF Claim
  <2>7. /\ OnlyCleaner(r) /\ cleaner'[r].pc = "claimed" /\ cleaner'[r].forget = cleaner[r].forget
        /\ cleaner'[r].at = p /\ cleaner'[r].todo = cleaner[r].todo \ {p}
        /\ cleaner'[r].bad = cleaner[r].bad
    BY <1>4, <1>5, <2>6, <2>5
  <2>8. TypeOK'
    BY <1>1, <1>2, <1>4, <1>5, <2>1, <2>4, <2>7 DEF OnlyPlace, OnlyCleaner, TypeOK
  <2>9. ScratchOutlivesProcess'
    BY <1>1, <1>2, <1>4, <1>5, <2>1, <2>4, <2>7, StableIsPlace, RelayAssumption, ZenonT(60)
       DEF Owner, OnlyPlace, Cleaners, ScratchOutlivesProcess, CleanerOK
  <2>10. MadeOK'
    BY <1>1, <1>4, <1>5, <2>1, <2>4, <2>7 DEF OnlyPlace, DirectoryOK, MadeOK
  <2>11. \A q \in Relay : LaunchOK(q)'
    BY <1>1, <1>2, <1>4, <1>5, <2>1, <2>4, <2>7, StableIsPlace, RelayAssumption, ZenonT(60)
       DEF Owner, OnlyPlace, OnlyCleaner, DirectoryOK, LaunchOK, CleanerOK, Cleaners
  <2>12. ExclusiveOK'
    BY <1>1, <1>2, <1>4, <1>5, <2>1, <2>4, <2>7
       DEF At, OnlyCleaner, ExclusiveOK, HeldOK, Holds, StarterHolds, CleanerHolds
  <2>13. HeldOK'
    <3>1. SUFFICES ASSUME NEW o \in Place, NEW q \in Relay, Holds(q, o)'
                   PROVE  fs'[o].made /\ fs'[o].fenced
      BY DEF HeldOK
    <3>2. CASE o = p
      BY <1>4, <1>5, <2>1, <2>4, <2>7, <3>2
    <3>3. CASE o # p
      <4>1. Holds(q, o)
        BY <1>2, <1>4, <1>5, <2>1, <2>4, <2>7, <3>1, <3>3
           DEF OnlyCleaner, At, Holds, StarterHolds, CleanerHolds
      <4>2. QED
        BY <1>1, <1>4, <1>5, <2>1, <2>4, <2>7, <3>3, <4>1 DEF OnlyPlace, HeldOK
    <3>4. QED
      BY <3>2, <3>3
  <2>14. UnheldOK'
    BY <1>1, <1>2, <1>4, <1>5, <2>1, <2>4, <2>7
       DEF At, OnlyPlace, OnlyCleaner, HeldOK, UnheldOK, Holds, StarterHolds, CleanerHolds
  <2>15. \A q \in Relay : CleanerOK(q)'
    <3>1. CleanerOK(r)'
      BY <1>4, <1>5, <2>1, <2>4, <2>7 DEF CleanerOK
    <3>2. \A o \in Place : fs'[o].leases \subseteq fs[o].leases
      BY <1>4, <1>5, <2>1, <2>4, <2>7 DEF OnlyPlace
    <3>3. QED
      BY <1>1, <1>4, <1>5, <2>1, <2>4, <2>7, <3>1, <3>2, OtherCleanersKept DEF OnlyCleaner
  <2>16. ForgetOK'
    BY <1>1, <1>2, <1>4, <1>5, <2>1, <2>4, <2>7, StableIsPlace
       DEF Owner, At, OnlyPlace, OnlyCleaner, ForgetOK, Settled, Used, Outstanding
  <2>17. LedgerStep
    BY <1>2, <1>4, <1>5, <2>1, <2>4, <2>7, StableIsPlace
       DEF Owner, OnlyPlace, ForgetOK, Used, LedgerStep, Ledger!Next, Ledger!vars
  <2>18. QED
    BY <2>8, <2>9, <2>10, <2>11, <2>12, <2>13, <2>14, <2>15, <2>16, <2>17
       DEF IInv, DirectoryOK
<1>6. CASE ~(fs[p].made /\ fs[p].marked /\ ~fs[p].fenced)
  <2>1. /\ p \in cleaner[r].todo /\ UNCHANGED fs
    BY <1>3, <1>4, <1>6 DEF Claim
  <2>2. /\ [cleaner[r] EXCEPT !.todo = @ \ {p}, !.bad = TRUE] \in Cleaners
    BY <1>1, <1>4, <1>6, <2>1, CleanerFields DEF Cleaners
  <2>3. /\ OnlyCleaner(r) /\ cleaner'[r] = [cleaner[r] EXCEPT !.todo = @ \ {p}, !.bad = TRUE]
    BY <1>1, <1>3, <1>4, <1>6, <2>2, CleanIs DEF Claim
  <2>4. /\ OnlyCleaner(r) /\ cleaner'[r].pc = cleaner[r].pc
        /\ cleaner'[r].forget = cleaner[r].forget /\ cleaner'[r].at = cleaner[r].at
        /\ cleaner'[r].todo = cleaner[r].todo \ {p} /\ cleaner'[r].bad = TRUE
    BY <1>4, <1>6, <2>3, <2>2
  <2>5. TypeOK'
    BY <1>1, <1>2, <1>4, <1>6, <2>1, <2>4 DEF OnlyCleaner, TypeOK
  <2>6. ScratchOutlivesProcess'
    BY <1>1, <1>2, <1>4, <1>6, <2>1, <2>4 DEF Owner, ScratchOutlivesProcess
  <2>7. MadeOK'
    BY <1>1, <1>4, <1>6, <2>1, <2>4 DEF DirectoryOK, MadeOK
  <2>8. \A q \in Relay : LaunchOK(q)'
    BY <1>1, <1>2, <1>4, <1>6, <2>1, <2>4 DEF Owner, DirectoryOK, LaunchOK
  <2>9. ExclusiveOK'
    BY <1>1, <1>2, <1>4, <1>6, <2>1, <2>4
       DEF At, OnlyCleaner, ExclusiveOK, StarterHolds, CleanerHolds
  <2>10. HeldOK'
    BY <1>1, <1>2, <1>4, <1>6, <2>1, <2>4
       DEF At, OnlyCleaner, HeldOK, Holds, StarterHolds, CleanerHolds
  <2>11. UnheldOK'
    BY <1>1, <1>2, <1>4, <1>6, <2>1, <2>4
       DEF At, OnlyCleaner, HeldOK, UnheldOK, Holds, StarterHolds, CleanerHolds
  <2>12. \A q \in Relay : CleanerOK(q)'
    <3>1. CleanerOK(r)'
      BY <1>2, <1>4, <1>6, <2>1, <2>4 DEF CleanerOK
    <3>2. \A o \in Place : fs'[o].leases \subseteq fs[o].leases
      BY <1>4, <1>6, <2>1, <2>4
    <3>3. QED
      BY <1>1, <1>4, <1>6, <2>1, <2>4, <3>1, <3>2, OtherCleanersKept DEF OnlyCleaner
  <2>13. ForgetOK'
    BY <1>1, <1>2, <1>4, <1>6, <2>1, <2>4
       DEF Owner, At, OnlyCleaner, ForgetOK, Settled, Used, Outstanding
  <2>14. LedgerStep
    BY <1>2, <1>4, <1>6, <2>1, <2>4
       DEF Owner, ForgetOK, Used, LedgerStep, Ledger!Next, Ledger!vars
  <2>15. QED
    BY <2>5, <2>6, <2>7, <2>8, <2>9, <2>10, <2>11, <2>12, <2>13, <2>14 DEF IInv, DirectoryOK
<1>7. QED
  BY <1>5, <1>6

\* A directory that is skipped loses the fence, and the pass counts as
\* incomplete.
LEMMA DropKeeps == ASSUME IInv, NEW r \in Relay, Drop(r),
    cleaner[r].pc \in {"claimed", "checked", "moved", "purge"},
    left' \in {left, left - 1}, left' >= 0,
    UNCHANGED <<database, held, starter, proc, orphan, run>> PROVE IInv' /\ LedgerStep
<1>1. /\ TypeOK /\ ScratchOutlivesProcess /\ DirectoryOK /\ ExclusiveOK /\ HeldOK /\ UnheldOK
      /\ ForgetOK /\ \A q \in Relay : CleanerOK(q)
  BY DEF IInv
<1>2. /\ fs[At(r)] \in Dirs /\ At(r) \in Place
      /\ cleaner[r].pc \in {"claimed", "checked", "moved", "purge"} /\ left' \in 0 .. MaxFaults
      /\ left' <= left /\ UNCHANGED <<row, op, held, starter, proc, orphan, run>>
  BY <1>1, StableIsPlace, CleanerFields DEF Drop, database, Unfenced, TypeOK
<1>3. /\ [fs[At(r)] EXCEPT !.fenced = FALSE] \in Dirs
  BY <1>2 DEF Dirs
<1>4. /\ OnlyPlace(At(r)) /\ fs'[At(r)] = [fs[At(r)] EXCEPT !.fenced = FALSE]
  BY <1>1, <1>3, PutIs, CleanerFields DEF Drop, Unfenced
<1>5. /\ OnlyPlace(At(r)) /\ fs'[At(r)].made = fs[At(r)].made
      /\ fs'[At(r)].marked = fs[At(r)].marked /\ fs'[At(r)].fenced = FALSE
      /\ fs'[At(r)].leases = fs[At(r)].leases /\ fs'[At(r)].payload = fs[At(r)].payload
  BY <1>4
<1>6. /\ [cleaner[r] EXCEPT !.pc = "next", !.bad = TRUE] \in Cleaners
  BY <1>1, CleanerFields DEF Cleaners
<1>7. /\ OnlyCleaner(r) /\ cleaner'[r] = [cleaner[r] EXCEPT !.pc = "next", !.bad = TRUE]
  BY <1>1, <1>6, CleanIs DEF Drop, Unfenced
<1>8. /\ OnlyCleaner(r) /\ cleaner'[r].pc = "next" /\ cleaner'[r].forget = cleaner[r].forget
      /\ cleaner'[r].at = cleaner[r].at /\ cleaner'[r].todo = cleaner[r].todo
      /\ cleaner'[r].bad = TRUE
  BY <1>7, <1>6
<1>9. TypeOK'
  BY <1>1, <1>2, <1>5, <1>8 DEF OnlyPlace, OnlyCleaner, TypeOK
<1>10. ScratchOutlivesProcess'
  BY <1>1, <1>5, <1>8, StableIsPlace DEF Owner, OnlyPlace, ScratchOutlivesProcess
<1>11. MadeOK'
  BY <1>1, <1>5, <1>8 DEF OnlyPlace, DirectoryOK, MadeOK
<1>12. \A q \in Relay : LaunchOK(q)'
  BY <1>1, <1>5, <1>8, StableIsPlace DEF Owner, OnlyPlace, DirectoryOK, LaunchOK
<1>13. ExclusiveOK'
  BY <1>1, <1>5, <1>8 DEF At, OnlyCleaner, ExclusiveOK, StarterHolds, CleanerHolds
<1>14. HeldOK'
  BY <1>1, <1>5, <1>8
     DEF At, OnlyPlace, OnlyCleaner, ExclusiveOK, HeldOK, Holds, StarterHolds, CleanerHolds
<1>15. UnheldOK'
  BY <1>1, <1>5, <1>8, StableIsPlace
     DEF At, OnlyPlace, OnlyCleaner, TypeOK, HeldOK, UnheldOK, Holds, StarterHolds,
         CleanerHolds
<1>16. \A q \in Relay : CleanerOK(q)'
  <2>1. CleanerOK(r)'
    BY <1>5, <1>8 DEF CleanerOK
  <2>2. \A o \in Place : fs'[o].leases \subseteq fs[o].leases
    BY <1>5, <1>8 DEF OnlyPlace
  <2>3. QED
    BY <1>1, <1>5, <1>8, <2>1, <2>2, OtherCleanersKept DEF OnlyCleaner
<1>17. ForgetOK'
  BY <1>1, <1>2, <1>5, <1>8, StableIsPlace
     DEF Owner, At, OnlyPlace, OnlyCleaner, ForgetOK, Settled, Used, Outstanding
<1>18. LedgerStep
  BY <1>2, <1>5, <1>8, StableIsPlace
     DEF Owner, OnlyPlace, ForgetOK, Used, LedgerStep, Ledger!Next, Ledger!vars
<1>19. QED
  BY <1>9, <1>10, <1>11, <1>12, <1>13, <1>14, <1>15, <1>16, <1>17, <1>18
     DEF IInv, DirectoryOK

\* A cleanup that checks under the fence has no lease and keeps none out.
LEMMA CheckKeeps == ASSUME IInv, NEW r \in Relay, Check(r) PROVE IInv' /\ LedgerStep
<1>1. /\ TypeOK /\ ScratchOutlivesProcess /\ DirectoryOK /\ ExclusiveOK /\ HeldOK /\ UnheldOK
      /\ ForgetOK /\ \A q \in Relay : CleanerOK(q)
  BY DEF IInv
<1>2. CASE fs[At(r)].leases = {} /\ Authorized(r)
  <2>1. /\ cleaner[r].pc = "claimed"
        /\ UNCHANGED <<row, op, held, starter, proc, orphan, fs, run, left>>
    BY <1>2 DEF Check, database, Authorized
  <2>2. /\ [cleaner[r] EXCEPT !.pc = "checked"] \in Cleaners
    BY <1>1, <2>1, CleanerFields DEF Cleaners
  <2>3. /\ OnlyCleaner(r) /\ cleaner'[r] = [cleaner[r] EXCEPT !.pc = "checked"]
    BY <1>1, <1>2, <2>2, CleanIs DEF Check, Authorized
  <2>4. /\ OnlyCleaner(r) /\ cleaner'[r].pc = "checked" /\ cleaner'[r].forget = cleaner[r].forget
        /\ cleaner'[r].at = cleaner[r].at /\ cleaner'[r].todo = cleaner[r].todo
        /\ cleaner'[r].bad = cleaner[r].bad
    BY <2>3, <2>2
  <2>5. TypeOK'
    BY <1>1, <2>1, <2>4 DEF OnlyCleaner, TypeOK
  <2>6. ScratchOutlivesProcess'
    BY <1>1, <2>1, <2>4 DEF Owner, ScratchOutlivesProcess
  <2>7. MadeOK'
    BY <1>1, <2>1, <2>4 DEF DirectoryOK, MadeOK
  <2>8. \A q \in Relay : LaunchOK(q)'
    BY <1>1, <2>1, <2>4 DEF Owner, DirectoryOK, LaunchOK
  <2>9. ExclusiveOK'
    BY <1>1, <2>1, <2>4 DEF At, OnlyCleaner, ExclusiveOK, StarterHolds, CleanerHolds
  <2>10. HeldOK'
    BY <1>1, <2>1, <2>4 DEF At, OnlyCleaner, HeldOK, Holds, StarterHolds, CleanerHolds
  <2>11. UnheldOK'
    BY <1>1, <2>1, <2>4
       DEF At, OnlyCleaner, HeldOK, UnheldOK, Holds, StarterHolds, CleanerHolds
  <2>12. \A q \in Relay : CleanerOK(q)'
    BY <1>1, <1>2, <2>1, <2>4, StableIsPlace DEF At, OnlyCleaner, CleanerOK, Cleaners
  <2>13. ForgetOK'
    BY <1>1, <2>1, <2>4 DEF Owner, At, OnlyCleaner, ForgetOK, Settled, Used, Outstanding
  <2>14. LedgerStep
    BY <2>1, <2>4 DEF Owner, ForgetOK, Used, LedgerStep, Ledger!Next, Ledger!vars
  <2>15. QED
    BY <2>5, <2>6, <2>7, <2>8, <2>9, <2>10, <2>11, <2>12, <2>13, <2>14 DEF IInv, DirectoryOK
<1>3. CASE ~(fs[At(r)].leases = {} /\ Authorized(r))
  BY <1>3, DropKeeps DEF Check, TypeOK, IInv
<1>4. QED
  BY <1>2, <1>3

\* A directory that is moved away is not the session's any more, and no process
\* uses it.
LEMMA RetireKeeps == ASSUME IInv, NEW r \in Relay, Retire(r) PROVE IInv' /\ LedgerStep
<1>1. /\ TypeOK /\ ScratchOutlivesProcess /\ DirectoryOK /\ ExclusiveOK /\ HeldOK /\ UnheldOK
      /\ ForgetOK /\ \A q \in Relay : CleanerOK(q)
  BY DEF IInv
<1>2. /\ cleaner[r].pc = "checked" /\ UNCHANGED <<row, op, held, starter, proc, orphan, run,
                                                  left>>
      /\ At(r) # Stable => /\ CleanTo(r, [cleaner[r] EXCEPT !.pc = "moved"])
                           /\ UNCHANGED fs
  BY DEF Retire, database
<1>3. CASE At(r) # Stable
  <2>1. /\ CleanTo(r, [cleaner[r] EXCEPT !.pc = "moved"]) /\ At(r) # Stable
        /\ cleaner[r].pc = "checked"
        /\ UNCHANGED <<row, op, held, starter, proc, orphan, fs, run, left>>
    BY <1>2, <1>3 DEF Retire
  <2>2. /\ [cleaner[r] EXCEPT !.pc = "moved"] \in Cleaners
    BY <1>1, <2>1, CleanerFields DEF Cleaners
  <2>3. /\ OnlyCleaner(r) /\ cleaner'[r] = [cleaner[r] EXCEPT !.pc = "moved"]
    BY <1>1, <1>3, <2>2, CleanIs DEF Retire
  <2>4. /\ OnlyCleaner(r) /\ cleaner'[r].pc = "moved" /\ cleaner'[r].forget = cleaner[r].forget
        /\ cleaner'[r].at = cleaner[r].at /\ cleaner'[r].todo = cleaner[r].todo
        /\ cleaner'[r].bad = cleaner[r].bad
    BY <2>3, <2>2
  <2>5. TypeOK'
    BY <1>1, <2>1, <2>4 DEF OnlyCleaner, TypeOK
  <2>6. ScratchOutlivesProcess'
    BY <1>1, <2>1, <2>4 DEF Owner, ScratchOutlivesProcess
  <2>7. MadeOK'
    BY <1>1, <2>1, <2>4 DEF DirectoryOK, MadeOK
  <2>8. \A q \in Relay : LaunchOK(q)'
    BY <1>1, <2>1, <2>4 DEF Owner, DirectoryOK, LaunchOK
  <2>9. ExclusiveOK'
    BY <1>1, <2>1, <2>4 DEF At, OnlyCleaner, ExclusiveOK, StarterHolds, CleanerHolds
  <2>10. HeldOK'
    BY <1>1, <2>1, <2>4 DEF At, OnlyCleaner, HeldOK, Holds, StarterHolds, CleanerHolds
  <2>11. UnheldOK'
    BY <1>1, <2>1, <2>4
       DEF At, OnlyCleaner, HeldOK, UnheldOK, Holds, StarterHolds, CleanerHolds
  <2>12. \A q \in Relay : CleanerOK(q)'
    BY <1>1, <2>1, <2>4 DEF At, OnlyCleaner, CleanerOK, Cleaners
  <2>13. ForgetOK'
    BY <1>1, <2>1, <2>4 DEF Owner, At, OnlyCleaner, ForgetOK, Settled, Used, Outstanding
  <2>14. LedgerStep
    BY <2>1, <2>4 DEF Owner, ForgetOK, Used, LedgerStep, Ledger!Next, Ledger!vars
  <2>15. QED
    BY <2>5, <2>6, <2>7, <2>8, <2>9, <2>10, <2>11, <2>12, <2>13, <2>14 DEF IInv, DirectoryOK
<1>4. CASE At(r) = Stable /\ ~Authorized(r)
  BY <1>4, DropKeeps DEF Retire, TypeOK, IInv
<1>5. CASE At(r) = Stable /\ Authorized(r)
  <2> DEFINE d == CHOOSE p \in Free : TRUE
             c == [cleaner[r] EXCEPT !.pc = "moved", !.at = d]
  <2>1. /\ cleaner[r].pc = "checked" /\ At(r) = Stable /\ Free # {}
        /\ fs' = [fs EXCEPT ![d] = Owner, ![Stable] = NoDir] /\ CleanTo(r, c)
        /\ UNCHANGED <<row, op, held, starter, proc, orphan, run, left>>
    BY <1>5 DEF Retire, database
  <2>2. d \in Place /\ d # Stable /\ ~fs[d].made
    BY <2>1 DEF Free
  <2> HIDE DEF d
  <2>3. NoDir \in Dirs /\ Owner \in Dirs
    BY <1>1, StableIsPlace, DirFields DEF NoDir, Dirs, Owner
  <2>4. /\ fs' \in [Place -> Dirs] /\ fs'[d] = fs[Stable] /\ fs'[Stable] = NoDir
        /\ \A o \in Place : o # d /\ o # Stable => fs'[o] = fs[o]
    BY <1>1, <2>1, <2>2, <2>3, StableIsPlace DEF TypeOK, Owner
  <2>5. /\ fs'[Stable].made = FALSE /\ fs'[Stable].marked = FALSE /\ fs'[Stable].fenced = FALSE
        /\ fs'[Stable].leases = {} /\ fs'[Stable].payload = FALSE
    BY <2>4 DEF NoDir
  <2>6. /\ fs' \in [Place -> Dirs] /\ fs'[d] = fs[Stable]
        /\ \A o \in Place : o # d /\ o # Stable => fs'[o] = fs[o]
    BY <2>4
  <2>7. c \in Cleaners
    BY <1>1, <2>2, CleanerFields DEF Cleaners
  <2>8. OnlyCleaner(r) /\ cleaner'[r] = c
    BY <1>1, <2>1, <2>7, CleanIs
  <2>9. /\ OnlyCleaner(r) /\ cleaner'[r].pc = "moved" /\ cleaner'[r].forget = cleaner[r].forget
        /\ cleaner'[r].at = d /\ cleaner'[r].todo = cleaner[r].todo
        /\ cleaner'[r].bad = cleaner[r].bad
    BY <2>8
  <2>10. /\ cleaner[r].pc = "checked" /\ At(r) = Stable /\ fs[Stable].leases = {}
         /\ UNCHANGED <<row, op, held, starter, proc, orphan, run, left>>
    BY <1>1, <2>1 DEF CleanerOK
  <2>11. Authorized(r)
    BY <1>5
  <2> HIDE DEF c
  <2>12. TypeOK'
    BY <1>1, <2>2, <2>5, <2>6, <2>9, <2>10, <2>11 DEF OnlyCleaner, Authorized, TypeOK
  <2>13. ScratchOutlivesProcess'
    BY <1>1, <2>2, <2>5, <2>6, <2>9, <2>10, <2>11
       DEF Owner, Authorized, ScratchOutlivesProcess
  <2>14. MadeOK'
    BY <1>1, <2>2, <2>5, <2>6, <2>9, <2>10, <2>11, CleanerFields
       DEF Authorized, DirectoryOK, MadeOK
  <2>15. \A q \in Relay : LaunchOK(q)'
    BY <1>1, <2>2, <2>5, <2>6, <2>9, <2>10, <2>11
       DEF Owner, Authorized, DirectoryOK, LaunchOK, ExclusiveOK, StarterHolds, CleanerHolds
  <2>16. ExclusiveOK'
    BY <1>1, <2>2, <2>5, <2>6, <2>9, <2>10, <2>11
       DEF At, OnlyCleaner, Authorized, ExclusiveOK, HeldOK, Holds, StarterHolds,
           CleanerHolds
  <2>17. HeldOK'
    BY <1>1, <2>2, <2>5, <2>6, <2>9, <2>10, <2>11, CleanerFields
       DEF At, OnlyCleaner, Authorized, ExclusiveOK, HeldOK, Holds, StarterHolds,
           CleanerHolds
  <2>18. UnheldOK'
    BY <1>1, <2>2, <2>5, <2>6, <2>9, <2>10, <2>11
       DEF At, OnlyCleaner, Authorized, HeldOK, UnheldOK, Holds, CleanerHolds
  <2>19. \A q \in Relay : CleanerOK(q)'
    <3>1. SUFFICES ASSUME NEW q \in Relay PROVE CleanerOK(q)'
      OBVIOUS
    <3>2. CASE q = r
      BY <2>2, <2>9, <3>2 DEF CleanerOK, At
    <3>3. CASE q # r
      <4>1. cleaner'[q] = cleaner[q] /\ CleanerOK(q) /\ At(q) \in Place
        BY <1>1, <2>9, <3>3, CleanerFields DEF OnlyCleaner
      <4>2. CleanerHolds(q, At(q)) => At(q) # d
        BY <1>1, <2>2, <4>1 DEF HeldOK, Holds
      <4>3. CleanerHolds(q, At(q)) => (fs[At(q)].leases = {} => fs'[At(q)].leases = {})
        BY <2>5, <2>6, <4>1, <4>2
      <4>4. QED
        BY <4>1, <4>3 DEF CleanerOK, At, CleanerHolds
    <3>4. QED
      BY <3>2, <3>3
  <2>20. ForgetOK'
    BY <1>1, <2>2, <2>5, <2>6, <2>9, <2>10, <2>11
       DEF Owner, OnlyCleaner, Authorized, ScratchOutlivesProcess, ForgetOK, Settled, Used
  <2>21. LedgerStep
    BY <1>1, <2>2, <2>5, <2>6, <2>9, <2>10, <2>11, DirFields, CleanerFields, RelayAssumption, ZenonT(60)
       DEF Owner, Authorized, TypeOK, ScratchOutlivesProcess, MadeOK, ForgetOK, Settled,
           Used, LedgerStep, Ledger!Next, Ledger!vars, Ledger!Clean
  <2>22. QED
    BY <2>12, <2>13, <2>14, <2>15, <2>16, <2>17, <2>18, <2>19, <2>20, <2>21
       DEF IInv, DirectoryOK
<1>6. QED
  BY <1>3, <1>4, <1>5

\* The last check before anything is deleted.
LEMMA RecheckKeeps == ASSUME IInv, NEW r \in Relay, Recheck(r) PROVE IInv' /\ LedgerStep
<1>1. /\ TypeOK /\ ScratchOutlivesProcess /\ DirectoryOK /\ ExclusiveOK /\ HeldOK /\ UnheldOK
      /\ ForgetOK /\ \A q \in Relay : CleanerOK(q)
  BY DEF IInv
<1>2. CASE Authorized(r)
  <2>1. /\ cleaner[r].pc = "moved"
        /\ UNCHANGED <<row, op, held, starter, proc, orphan, fs, run, left>>
    BY <1>2 DEF Recheck, database, Authorized
  <2>2. /\ [cleaner[r] EXCEPT !.pc = "purge"] \in Cleaners
    BY <1>1, <2>1, CleanerFields DEF Cleaners
  <2>3. /\ OnlyCleaner(r) /\ cleaner'[r] = [cleaner[r] EXCEPT !.pc = "purge"]
    BY <1>1, <1>2, <2>2, CleanIs DEF Recheck, Authorized
  <2>4. /\ OnlyCleaner(r) /\ cleaner'[r].pc = "purge" /\ cleaner'[r].forget = cleaner[r].forget
        /\ cleaner'[r].at = cleaner[r].at /\ cleaner'[r].todo = cleaner[r].todo
        /\ cleaner'[r].bad = cleaner[r].bad
    BY <2>3, <2>2
  <2>5. TypeOK'
    BY <1>1, <2>1, <2>4 DEF OnlyCleaner, TypeOK
  <2>6. ScratchOutlivesProcess'
    BY <1>1, <2>1, <2>4 DEF Owner, ScratchOutlivesProcess
  <2>7. MadeOK'
    BY <1>1, <2>1, <2>4 DEF DirectoryOK, MadeOK
  <2>8. \A q \in Relay : LaunchOK(q)'
    BY <1>1, <2>1, <2>4 DEF Owner, DirectoryOK, LaunchOK
  <2>9. ExclusiveOK'
    BY <1>1, <2>1, <2>4 DEF At, OnlyCleaner, ExclusiveOK, StarterHolds, CleanerHolds
  <2>10. HeldOK'
    BY <1>1, <2>1, <2>4 DEF At, OnlyCleaner, HeldOK, Holds, StarterHolds, CleanerHolds
  <2>11. UnheldOK'
    BY <1>1, <2>1, <2>4
       DEF At, OnlyCleaner, HeldOK, UnheldOK, Holds, StarterHolds, CleanerHolds
  <2>12. \A q \in Relay : CleanerOK(q)'
    BY <1>1, <2>1, <2>4, StableIsPlace DEF At, OnlyCleaner, Launches, CleanerOK
  <2>13. ForgetOK'
    BY <1>1, <2>1, <2>4 DEF Owner, At, OnlyCleaner, ForgetOK, Settled, Used, Outstanding
  <2>14. LedgerStep
    BY <2>1, <2>4 DEF Owner, ForgetOK, Used, LedgerStep, Ledger!Next, Ledger!vars
  <2>15. QED
    BY <2>5, <2>6, <2>7, <2>8, <2>9, <2>10, <2>11, <2>12, <2>13, <2>14 DEF IInv, DirectoryOK
<1>3. CASE ~Authorized(r)
  BY <1>3, DropKeeps DEF Recheck, TypeOK, IInv
<1>4. QED
  BY <1>2, <1>3

\* Files are deleted in a removal namespace only.
LEMMA PurgeKeeps == ASSUME IInv, NEW r \in Relay, Purge(r) PROVE IInv' /\ LedgerStep
<1>1. /\ TypeOK /\ ScratchOutlivesProcess /\ DirectoryOK /\ ExclusiveOK /\ HeldOK /\ UnheldOK
      /\ ForgetOK /\ \A q \in Relay : CleanerOK(q)
  BY DEF IInv
<1>2. CASE /\ Put(At(r), [fs[At(r)] EXCEPT !.payload = FALSE])
           /\ CleanTo(r, [cleaner[r] EXCEPT !.pc = "remove"]) /\ UNCHANGED left
  <2>1. /\ fs[At(r)] \in Dirs /\ At(r) \in Place /\ cleaner[r].pc = "purge"
        /\ UNCHANGED <<row, op, held, starter, proc, orphan, run, left>>
    BY <1>1, <1>2, DirFields, CleanerFields DEF Purge, database
  <2>2. /\ [fs[At(r)] EXCEPT !.payload = FALSE] \in Dirs
    BY <2>1 DEF Dirs
  <2>3. /\ OnlyPlace(At(r)) /\ fs'[At(r)] = [fs[At(r)] EXCEPT !.payload = FALSE]
    BY <1>1, <1>2, <2>2, PutIs, CleanerFields DEF Purge
  <2>4. /\ OnlyPlace(At(r)) /\ fs'[At(r)].made = fs[At(r)].made
        /\ fs'[At(r)].marked = fs[At(r)].marked /\ fs'[At(r)].fenced = fs[At(r)].fenced
        /\ fs'[At(r)].leases = fs[At(r)].leases /\ fs'[At(r)].payload = FALSE
    BY <2>3, <2>2
  <2>5. /\ [cleaner[r] EXCEPT !.pc = "remove"] \in Cleaners
    BY <1>1, <2>1, CleanerFields DEF Cleaners
  <2>6. /\ OnlyCleaner(r) /\ cleaner'[r] = [cleaner[r] EXCEPT !.pc = "remove"]
    BY <1>1, <1>2, <2>5, CleanIs DEF Purge
  <2>7. /\ OnlyCleaner(r) /\ cleaner'[r].pc = "remove" /\ cleaner'[r].forget = cleaner[r].forget
        /\ cleaner'[r].at = cleaner[r].at /\ cleaner'[r].todo = cleaner[r].todo
        /\ cleaner'[r].bad = cleaner[r].bad
    BY <2>6, <2>5
  <2>8. TypeOK'
    BY <1>1, <2>1, <2>4, <2>7 DEF OnlyPlace, OnlyCleaner, TypeOK
  <2>9. ScratchOutlivesProcess'
    BY <1>1, <2>1, <2>4, <2>7, StableIsPlace
       DEF Owner, OnlyPlace, ScratchOutlivesProcess, CleanerOK
  <2>10. MadeOK'
    BY <1>1, <2>1, <2>4, <2>7 DEF OnlyPlace, DirectoryOK, MadeOK
  <2>11. \A q \in Relay : LaunchOK(q)'
    BY <1>1, <2>1, <2>4, <2>7, StableIsPlace DEF Owner, OnlyPlace, DirectoryOK, LaunchOK
  <2>12. ExclusiveOK'
    BY <1>1, <2>1, <2>4, <2>7, StableIsPlace, RelayAssumption
       DEF At, OnlyCleaner, ExclusiveOK, StarterHolds, CleanerHolds
  <2>13. HeldOK'
    BY <1>1, <2>1, <2>4, <2>7
       DEF At, OnlyPlace, OnlyCleaner, HeldOK, Holds, StarterHolds, CleanerHolds
  <2>14. UnheldOK'
    BY <1>1, <2>1, <2>4, <2>7, StableIsPlace
       DEF At, OnlyPlace, OnlyCleaner, Launches, HeldOK, UnheldOK, Holds, StarterHolds,
           CleanerHolds
  <2>15. \A q \in Relay : CleanerOK(q)'
    <3>1. CleanerOK(r)'
      BY <1>1, <2>1, <2>4, <2>7 DEF At, CleanerOK
    <3>2. \A o \in Place : fs'[o].leases \subseteq fs[o].leases
      BY <2>1, <2>4, <2>7 DEF OnlyPlace
    <3>3. QED
      BY <1>1, <2>1, <2>4, <2>7, <3>1, <3>2, OtherCleanersKept DEF OnlyCleaner
  <2>16. ForgetOK'
    BY <1>1, <2>1, <2>4, <2>7, StableIsPlace
       DEF Owner, At, OnlyPlace, OnlyCleaner, ForgetOK, Settled, Used, Outstanding
  <2>17. LedgerStep
    BY <1>1, <2>1, <2>4, <2>7, StableIsPlace
       DEF Owner, OnlyPlace, CleanerOK, ForgetOK, Used, LedgerStep, Ledger!Next, Ledger!vars
  <2>18. QED
    BY <2>8, <2>9, <2>10, <2>11, <2>12, <2>13, <2>14, <2>15, <2>16, <2>17
       DEF IInv, DirectoryOK
<1>3. CASE left > 0 /\ left' = left - 1 /\ Drop(r)
  BY <1>3, DropKeeps DEF Purge, TypeOK, IInv
<1>4. QED
  BY <1>2, <1>3 DEF Purge

\* A removal namespace is deleted.
LEMMA RemoveKeeps == ASSUME IInv, NEW r \in Relay, Remove(r) PROVE IInv' /\ LedgerStep
<1>1. /\ TypeOK /\ ScratchOutlivesProcess /\ DirectoryOK /\ ExclusiveOK /\ HeldOK /\ UnheldOK
      /\ ForgetOK /\ \A q \in Relay : CleanerOK(q)
  BY DEF IInv
<1>2. /\ cleaner[r].pc = "remove" /\ UNCHANGED <<row, op, held, starter, proc, orphan, run, left>>
  BY DEF Remove, database
<1>3. /\ NoDir \in Dirs
  BY DEF Dirs, NoDir
<1>4. /\ OnlyPlace(At(r)) /\ fs'[At(r)] = NoDir
  BY <1>1, <1>3, PutIs, CleanerFields DEF Remove
<1>5. /\ OnlyPlace(At(r)) /\ fs'[At(r)].made = FALSE /\ fs'[At(r)].marked = FALSE
      /\ fs'[At(r)].fenced = FALSE /\ fs'[At(r)].leases = {} /\ fs'[At(r)].payload = FALSE
  BY <1>4 DEF NoDir
<1>6. /\ [cleaner[r] EXCEPT !.pc = "next"] \in Cleaners
  BY <1>1, CleanerFields DEF Cleaners
<1>7. /\ OnlyCleaner(r) /\ cleaner'[r] = [cleaner[r] EXCEPT !.pc = "next"]
  BY <1>1, <1>6, CleanIs DEF Remove
<1>8. /\ OnlyCleaner(r) /\ cleaner'[r].pc = "next" /\ cleaner'[r].forget = cleaner[r].forget
      /\ cleaner'[r].at = cleaner[r].at /\ cleaner'[r].todo = cleaner[r].todo
      /\ cleaner'[r].bad = cleaner[r].bad
  BY <1>7, <1>6
<1>9. TypeOK'
  BY <1>1, <1>2, <1>5, <1>8 DEF OnlyPlace, OnlyCleaner, TypeOK
<1>10. ScratchOutlivesProcess'
  BY <1>1, <1>2, <1>5, <1>8, StableIsPlace
     DEF Owner, OnlyPlace, ScratchOutlivesProcess, CleanerOK
<1>11. MadeOK'
  BY <1>1, <1>5, <1>8 DEF OnlyPlace, DirectoryOK, MadeOK
<1>12. \A q \in Relay : LaunchOK(q)'
  BY <1>1, <1>2, <1>5, <1>8, StableIsPlace
     DEF Owner, OnlyPlace, DirectoryOK, LaunchOK, CleanerOK
<1>13. ExclusiveOK'
  BY <1>1, <1>2, <1>5, <1>8, RelayAssumption
     DEF At, OnlyCleaner, ExclusiveOK, StarterHolds, CleanerHolds
<1>14. HeldOK'
  BY <1>1, <1>2, <1>5, <1>8
     DEF At, OnlyPlace, OnlyCleaner, ExclusiveOK, HeldOK, Holds, StarterHolds, CleanerHolds
<1>15. UnheldOK'
  BY <1>1, <1>2, <1>5, <1>8, StableIsPlace
     DEF At, OnlyPlace, OnlyCleaner, HeldOK, UnheldOK, Holds, StarterHolds, CleanerHolds
<1>16. \A q \in Relay : CleanerOK(q)'
  <2>1. CleanerOK(r)'
    BY <1>5, <1>8 DEF CleanerOK
  <2>2. \A o \in Place : fs'[o].leases \subseteq fs[o].leases
    BY <1>5, <1>8 DEF OnlyPlace
  <2>3. QED
    BY <1>1, <1>5, <1>8, <2>1, <2>2, OtherCleanersKept DEF OnlyCleaner
<1>17. ForgetOK'
  BY <1>1, <1>2, <1>5, <1>8, StableIsPlace
     DEF Owner, At, OnlyPlace, OnlyCleaner, ForgetOK, Settled, Used, Outstanding
<1>18. LedgerStep
  BY <1>1, <1>2, <1>5, <1>8, StableIsPlace
     DEF Owner, OnlyPlace, CleanerOK, ForgetOK, Used, LedgerStep, Ledger!Next, Ledger!vars
<1>19. QED
  BY <1>9, <1>10, <1>11, <1>12, <1>13, <1>14, <1>15, <1>16, <1>17, <1>18
     DEF IInv, DirectoryOK

\* A pass ends when every directory was handled.
LEMMA CleanEndsKeeps == ASSUME IInv, NEW r \in Relay, CleanEnds(r) PROVE IInv' /\ LedgerStep
<1>1. /\ TypeOK /\ ScratchOutlivesProcess /\ DirectoryOK /\ ExclusiveOK /\ HeldOK /\ UnheldOK
      /\ ForgetOK /\ \A q \in Relay : CleanerOK(q)
  BY DEF IInv
<1>2. TypeOK'
  BY <1>1, StableIsPlace DEF CleanEnds, database, Idle, CleanTo, TypeOK, Cleaners
<1>3. ScratchOutlivesProcess'
  BY <1>1 DEF CleanEnds, Owner, ScratchOutlivesProcess
<1>4. MadeOK'
  BY <1>1 DEF CleanEnds, DirectoryOK, MadeOK
<1>5. \A q \in Relay : LaunchOK(q)'
  BY <1>1 DEF CleanEnds, Owner, DirectoryOK, LaunchOK
<1>6. ExclusiveOK'
  BY <1>1 DEF CleanEnds, Idle, At, CleanTo, ExclusiveOK, StarterHolds, CleanerHolds
<1>7. HeldOK'
  BY <1>1 DEF CleanEnds, Idle, At, CleanTo, HeldOK, Holds, StarterHolds, CleanerHolds
<1>8. UnheldOK'
  BY <1>1 DEF CleanEnds, At, CleanTo, HeldOK, UnheldOK, Holds, StarterHolds, CleanerHolds
<1>9. \A q \in Relay : CleanerOK(q)'
  BY <1>1 DEF CleanEnds, Idle, At, CleanTo, CleanerOK, Cleaners
<1>10. ForgetOK'
  BY <1>1
     DEF CleanEnds, Owner, database, Idle, At, CleanTo, ForgetOK, Settled, Used, Outstanding
<1>11. LedgerStep
  BY DEF CleanEnds, Owner, database, ForgetOK, Used, LedgerStep, Ledger!Next, Ledger!vars
<1>12. QED
  BY <1>2, <1>3, <1>4, <1>5, <1>6, <1>7, <1>8, <1>9, <1>10, <1>11 DEF IInv, DirectoryOK

-----------------------------------------------------------------------------
(* ------------------------------ crashes -------------------------------- *)
\* A relay that dies leaves fences and leases, and the lease of a process that
\* outlives it.
LEMMA CrashKeeps == ASSUME IInv, NEW r \in Relay, Crash(r) PROVE IInv' /\ LedgerStep
<1>1. /\ TypeOK /\ ScratchOutlivesProcess /\ DirectoryOK /\ ExclusiveOK /\ HeldOK /\ UnheldOK
      /\ ForgetOK /\ \A q \in Relay : CleanerOK(q)
  BY DEF IInv
<1>2. /\ left > 0 /\ left' = left - 1 /\ UNCHANGED <<row, op>> /\ held' \in {FALSE, held}
      /\ starter' = [starter EXCEPT ![r] = "idle"] /\ proc' = [proc EXCEPT ![r] = "none"]
      /\ run' = [run EXCEPT ![r] = "none"] /\ CleanTo(r, Idle)
      /\ orphan' \in IF proc[r] = "none" THEN {orphan} ELSE {orphan, TRUE}
  BY DEF Crash, database, CleanTo
<1>3. \A p \in Place :
        fs'[p] = [fs[p] EXCEPT !.leases = (@ \ {r}) \cup (IF r \in @ THEN {"lost"} ELSE {})]
  BY DEF Crash
<1>4. \A p \in Place :
        /\ fs'[p].made = fs[p].made /\ fs'[p].marked = fs[p].marked
        /\ fs'[p].fenced = fs[p].fenced /\ fs'[p].payload = fs[p].payload
        /\ fs'[p].leases = (fs[p].leases \ {r}) \cup (IF r \in fs[p].leases THEN {"lost"} ELSE {})
  BY <1>1, <1>3, DirFields, ZenonT(60) DEF Dirs
<1>5. fs' \in [Place -> Dirs]
  <2>1. ASSUME NEW p \in Place PROVE fs'[p] \in Dirs
    <3>1. (fs[p].leases \ {r}) \cup (IF r \in fs[p].leases THEN {"lost"} ELSE {})
            \in SUBSET (Relay \cup {"lost"})
      BY <1>1, DirFields
    <3>2. fs[p] \in Dirs
      BY <1>1, DirFields
    <3>3. fs'[p] = [fs[p] EXCEPT !.leases = (fs[p].leases \ {r})
                                            \cup (IF r \in fs[p].leases THEN {"lost"} ELSE {})]
      BY <1>3
    <3>4. QED
      BY <3>1, <3>2, <3>3 DEF Dirs
  <2>2. QED
    BY <2>1 DEF Crash
<1>6. Idle \in Cleaners /\ OnlyCleaner(r) /\ cleaner'[r] = Idle
  <2>1. Idle \in Cleaners
    BY StableIsPlace DEF Idle, Cleaners
  <2>2. QED
    BY <1>1, <1>2, <2>1, CleanIs
<1>7. OnlyCleaner(r) /\ cleaner'[r].pc = "idle" /\ ~cleaner'[r].forget
  BY <1>6 DEF Idle
<1>8. /\ starter'[r] = "idle" /\ proc'[r] = "none" /\ run'[r] = "none"
      /\ \A q \in Relay : q # r => /\ starter'[q] = starter[q] /\ proc'[q] = proc[q]
                                /\ run'[q] = run[q]
      /\ starter' \in [Relay -> Launches] /\ proc' \in [Relay -> {"none", "running", "closing"}]
      /\ run' \in [Relay -> {"none", "releasing", "cleaning", "finalizing"}]
  BY <1>1, <1>2 DEF TypeOK, Launches
<1>9. /\ UNCHANGED <<row, op>> /\ held' \in BOOLEAN /\ orphan' \in BOOLEAN
      /\ (orphan => Used) /\ (orphan' => orphan \/ proc[r] # "none")
      /\ left' \in 0 .. MaxFaults /\ left' # MaxFaults
  <2>1. UNCHANGED <<row, op>> /\ held' \in BOOLEAN
    BY <1>1, <1>2 DEF TypeOK
  <2>2. orphan' \in BOOLEAN /\ (orphan => Used) /\ (orphan' => orphan \/ proc[r] # "none")
    BY <1>1, <1>2 DEF TypeOK, Used
  <2>3. left' \in 0 .. MaxFaults /\ left' # MaxFaults
    BY <1>1, <1>2, StableIsPlace DEF TypeOK
  <2>4. QED
    BY <2>1, <2>2, <2>3
<1>10. /\ \A q \in Relay : q # "lost"
       /\ \A p \in Place : /\ fs[p].leases = {} => fs'[p].leases = {}
                           /\ \A q \in Relay : q # r /\ q \in fs[p].leases => q \in fs'[p].leases
                           /\ "lost" \in fs[p].leases => "lost" \in fs'[p].leases
                           /\ r \in fs[p].leases => "lost" \in fs'[p].leases
  BY <1>4, RelayAssumption
<1>11. \A p \in Place :
        /\ fs'[p].made = fs[p].made /\ fs'[p].marked = fs[p].marked
        /\ fs'[p].fenced = fs[p].fenced /\ fs'[p].payload = fs[p].payload
  BY <1>4
<1>12. TypeOK'
  BY <1>1, <1>8, <1>9, <1>10, <1>11, <1>5, <1>7 DEF OnlyCleaner, TypeOK
<1>13. ScratchOutlivesProcess'
  <2>1. /\ fs'[Stable].marked = Owner.marked /\ fs'[Stable].payload = Owner.payload
        /\ \A q \in Relay : q # r /\ q \in Owner.leases => q \in fs'[Stable].leases
        /\ "lost" \in Owner.leases \/ r \in Owner.leases => "lost" \in fs'[Stable].leases
    BY <1>10, <1>11, StableIsPlace DEF Owner
  <2>2. ASSUME NEW q \in Relay, proc'[q] # "none"
        PROVE  fs'[Stable].marked /\ fs'[Stable].payload /\ q \in fs'[Stable].leases
    BY <1>1, <1>8, <2>1, <2>2 DEF ScratchOutlivesProcess
  <2>3. ASSUME orphan'
        PROVE  fs'[Stable].marked /\ fs'[Stable].payload /\ "lost" \in fs'[Stable].leases
    BY <1>1, <1>9, <2>1, <2>3 DEF ScratchOutlivesProcess
  <2>4. QED
    BY <2>2, <2>3 DEF ScratchOutlivesProcess, Owner
<1>14. MadeOK'
  BY <1>1, <1>8, <1>9, <1>10, <1>11, <1>5, <1>7 DEF DirectoryOK, MadeOK
<1>15. \A q \in Relay : LaunchOK(q)'
  <2>1. SUFFICES ASSUME NEW q \in Relay PROVE LaunchOK(q)'
    OBVIOUS
  <2>2. CASE q = r
    BY <1>8, <2>2 DEF LaunchOK
  <2>3. CASE q # r
    <3>1. starter'[q] = starter[q] /\ proc'[q] = proc[q] /\ LaunchOK(q)
      BY <1>1, <1>8, <2>3 DEF DirectoryOK
    <3>2. fs'[Stable].marked = Owner.marked /\ (q \in Owner.leases => q \in fs'[Stable].leases)
      BY <1>10, <1>11, <2>3, StableIsPlace DEF Owner
    <3>3. QED
      BY <3>1, <3>2 DEF LaunchOK, Owner
  <2>4. QED
    BY <2>2, <2>3
<1>16. ExclusiveOK'
  BY <1>1, <1>8, <1>9, <1>10, <1>11, <1>5, <1>7, StableIsPlace, SMTT(40)
     DEF At, OnlyCleaner, ExclusiveOK, StarterHolds, CleanerHolds
<1>17. HeldOK'
  BY <1>1, <1>8, <1>9, <1>10, <1>11, <1>5, <1>7
     DEF At, OnlyCleaner, HeldOK, Holds, StarterHolds, CleanerHolds
<1>18. UnheldOK'
  BY <1>8, <1>9, <1>10, <1>11, <1>5, <1>7 DEF UnheldOK
<1>19. \A q \in Relay : CleanerOK(q)'
  <2>1. SUFFICES ASSUME NEW q \in Relay PROVE CleanerOK(q)'
    OBVIOUS
  <2>2. CASE q = r
    BY <1>7, <2>2 DEF CleanerOK
  <2>3. CASE q # r
    <3>1. cleaner'[q] = cleaner[q] /\ CleanerOK(q) /\ At(q) \in Place
      BY <1>1, <1>7, <2>3, CleanerFields DEF OnlyCleaner
    <3>2. QED
      BY <1>10, <3>1 DEF CleanerOK, At
  <2>4. QED
    BY <2>2, <2>3
<1>20. ForgetOK'
  BY <1>1, <1>8, <1>9, <1>10, <1>11, <1>5, <1>7, StableIsPlace
     DEF Owner, At, OnlyCleaner, ForgetOK, Settled, Used, Outstanding
<1>21. LedgerStep
  BY <1>1, <1>8, <1>9, <1>10, <1>11, <1>5, <1>7, StableIsPlace, ZenonT(60)
     DEF Owner, ScratchOutlivesProcess, ForgetOK, Settled, Used, LedgerStep, Ledger!Next,
         Ledger!vars, Ledger!Live, Ledger!StopWork
<1>22. QED
  BY <1>12, <1>13, <1>14, <1>15, <1>16, <1>17, <1>18, <1>19, <1>20, <1>21
     DEF IInv, DirectoryOK

\* A process that outlived its relay ends.
LEMMA OrphanEndsKeeps == ASSUME IInv, OrphanEnds PROVE IInv' /\ LedgerStep
<1>1. /\ TypeOK /\ ScratchOutlivesProcess /\ DirectoryOK /\ ExclusiveOK /\ HeldOK /\ UnheldOK
      /\ ForgetOK /\ \A q \in Relay : CleanerOK(q)
  BY DEF IInv
<1>2. TypeOK'
  BY <1>1 DEF OrphanEnds, database, TypeOK
<1>3. ScratchOutlivesProcess'
  BY <1>1 DEF OrphanEnds, Owner, ScratchOutlivesProcess
<1>4. MadeOK'
  BY <1>1 DEF OrphanEnds, DirectoryOK, MadeOK
<1>5. \A q \in Relay : LaunchOK(q)'
  BY <1>1 DEF OrphanEnds, Owner, DirectoryOK, LaunchOK
<1>6. ExclusiveOK'
  BY <1>1 DEF OrphanEnds, At, ExclusiveOK, StarterHolds, CleanerHolds
<1>7. HeldOK'
  BY <1>1 DEF OrphanEnds, At, HeldOK, Holds, StarterHolds, CleanerHolds
<1>8. UnheldOK'
  BY <1>1 DEF OrphanEnds, At, HeldOK, UnheldOK, Holds, StarterHolds, CleanerHolds
<1>9. \A q \in Relay : CleanerOK(q)'
  BY <1>1 DEF OrphanEnds, At, CleanerOK
<1>10. ForgetOK'
  BY <1>1 DEF OrphanEnds, database, At, ForgetOK, Settled, Used, Outstanding
<1>11. LedgerStep
  BY <1>1
     DEF OrphanEnds, Owner, database, ScratchOutlivesProcess, ForgetOK, Settled, Used,
         LedgerStep, Ledger!Next, Ledger!vars, Ledger!Live, Ledger!StopWork
<1>12. QED
  BY <1>2, <1>3, <1>4, <1>5, <1>6, <1>7, <1>8, <1>9, <1>10, <1>11 DEF IInv, DirectoryOK

-----------------------------------------------------------------------------
(* ------------------------------ the theorems --------------------------- *)
\* The initial states satisfy the inductive invariant, and map to one of the
\* ledger.
LEMMA InitIInv == Init => IInv /\ Ledger!Init
<1>1. SUFFICES ASSUME Init PROVE IInv /\ Ledger!Init
  OBVIOUS
<1>2. /\ NoDir \in Dirs /\ ~NoDir.made /\ ~NoDir.marked /\ ~NoDir.fenced
      /\ NoDir.leases = {} /\ ~NoDir.payload
  BY DEF NoDir, Dirs
<1>3. Idle \in Cleaners /\ Idle.pc = "idle" /\ ~Idle.forget /\ Idle.at = Stable
  BY StableIsPlace DEF Idle, Cleaners
<1>4. /\ \A r \in Relay :
            /\ starter[r] = "idle" /\ proc[r] = "none"
            /\ run[r] = "none" /\ cleaner[r] = Idle
      /\ \A p \in Place : fs[p] = NoDir
  BY <1>1 DEF Init
<1>5. TypeOK
  <2>1. fs \in [Place -> Dirs] /\ cleaner \in [Relay -> Cleaners]
    BY <1>1, <1>2, <1>3 DEF Init
  <2>2. /\ starter \in [Relay -> Launches] /\ proc \in [Relay -> {"none", "running", "closing"}]
        /\ run \in [Relay -> {"none", "releasing", "cleaning", "finalizing"}]
    BY <1>1 DEF Init, Launches
  <2>3. left \in 0 .. MaxFaults
    BY <1>1, StableIsPlace DEF Init
  <2>4. row \in BOOLEAN /\ held \in BOOLEAN /\ orphan \in BOOLEAN
    BY <1>1, Zenon DEF Init
  <2>5. op \in {"none", "stopping", "cleaning", "finalizing", "failed", "completed"}
    BY <1>1, Zenon DEF Init
  <2>6. QED
    BY <2>1, <2>2, <2>3, <2>4, <2>5 DEF TypeOK
<1>6. ScratchOutlivesProcess /\ DirectoryOK
  BY <1>1, <1>2, <1>4 DEF Init, ScratchOutlivesProcess, DirectoryOK, MadeOK, LaunchOK
<1>7. ExclusiveOK /\ HeldOK /\ UnheldOK
  BY <1>2, <1>3, <1>4 DEF ExclusiveOK, HeldOK, UnheldOK, Holds, StarterHolds, CleanerHolds
<1>8. \A r \in Relay : CleanerOK(r)
  BY <1>3, <1>4 DEF CleanerOK
<1>9. ForgetOK
  BY <1>1, <1>3, <1>4 DEF Init, ForgetOK
<1>10. Ledger!Init
  BY <1>1, <1>2, <1>4, StableIsPlace DEF Init, Ledger!Init, Used, Owner
<1>11. QED
  BY <1>5, <1>6, <1>7, <1>8, <1>9, <1>10 DEF IInv

\* Every step keeps the inductive invariant, and maps to a step of the ledger or
\* a stutter.
LEMMA NextKeeps == IInv /\ [Next]_vars => IInv' /\ LedgerStep
<1>1. SUFFICES ASSUME IInv, [Next]_vars PROVE IInv' /\ LedgerStep
  OBVIOUS
<1>2. ASSUME NEW r \in Relay, Ask(r) \/ Dispose(r) \/ Closed(r) \/ Launching(r)
      PROVE  IInv' /\ LedgerStep
  BY <1>1, <1>2, AskKeeps, DisposeKeeps, ClosedKeeps, MakeOwnerKeeps, ClaimOwnerKeeps,
     MarkKeeps, AdmitKeeps, LeaseKeeps, LaunchKeeps
     DEF Launching
<1>3. ASSUME NEW r \in Relay, Forget(r) \/ Forgetting(r) \/ ReleaseFails(r)
      PROVE  IInv' /\ LedgerStep
  BY <1>1, <1>3, ForgetKeeps, ReleasedKeeps, CleanedKeeps, FinalizeKeeps, ReleaseFailsKeeps
     DEF Forgetting
<1>4. ASSUME NEW r \in Relay, CleanTmp(r) \/ Cleaning(r) \/ Crash(r)
      PROVE  IInv' /\ LedgerStep
  BY <1>1, <1>4, CleanTmpKeeps, ListKeeps, ClaimKeeps, CheckKeeps, RetireKeeps, RecheckKeeps,
     PurgeKeeps, RemoveKeeps, CleanEndsKeeps, CrashKeeps
     DEF Cleaning
<1>5. CASE UNCHANGED vars
  <2>1. IInv'
    BY <1>1, <1>5
       DEF vars, database, IInv, TypeOK, ScratchOutlivesProcess, DirectoryOK, MadeOK,
           LaunchOK, ExclusiveOK, HeldOK, UnheldOK, Holds, StarterHolds, CleanerHolds, At,
           CleanerOK, ForgetOK, Settled, Outstanding, Used, Owner
  <2>2. LedgerStep
    BY <1>5 DEF vars, LedgerStep, Ledger!vars, Used, Owner
  <2>3. QED
    BY <2>1, <2>2
<1>6. QED
  BY <1>1, <1>2, <1>3, <1>4, <1>5, SaveKeeps, OrphanEndsKeeps DEF Next

\* The inductive invariant holds.
LEMMA Inductive == Spec => []IInv
<1>1. Init => IInv
  BY InitIInv
<1>2. IInv /\ [Next]_vars => IInv'
  BY NextKeeps
<1>3. QED
  BY <1>1, <1>2, PTL DEF Spec

\* Every variable holds a value of its kind (ForgetSession!TypeOK).
THEOREM TypeCorrect == Spec => []TypeOK
<1>1. IInv => TypeOK
  BY DEF IInv
<1>2. QED
  BY <1>1, Inductive, PTL

\* The scratch of a live process stays in place, with its files and a lease,
\* whichever relays forget the session, clean the workspace or die.
THEOREM ScratchSafe == Spec => []ScratchOutlivesProcess
<1>1. IInv => ScratchOutlivesProcess
  BY DEF IInv
<1>2. QED
  BY <1>1, Inductive, PTL

\* No two relays hold the fence of one directory.
LEMMA OneHolder ==
    ASSUME ExclusiveOK, NEW p \in Place
    PROVE  Cardinality({r \in Relay : Holds(r, p)}) <= 1
<1>1. \A r, q \in Relay : Holds(r, p) /\ Holds(q, p) => r = q
  BY DEF ExclusiveOK, Holds
<1>2. CASE {r \in Relay : Holds(r, p)} = {}
  BY <1>2, FS_EmptySet
<1>3. CASE {r \in Relay : Holds(r, p)} # {}
  <2>1. PICK q \in Relay : {r \in Relay : Holds(r, p)} = {q}
    BY <1>1, <1>3
  <2>2. QED
    BY <2>1, FS_Singleton
<1>4. QED
  BY <1>2, <1>3

\* A fence is held by one launch or cleanup that will release it, as long as no
\* relay has died and no deletion has failed.
THEOREM FencesHeld == Spec => []FencesHaveHolders
<1>1. IInv => FencesHaveHolders
  BY OneHolder DEF IInv, FencesHaveHolders
<1>2. QED
  BY <1>1, Inductive, PTL

\* Launches, Forgets, cleanups and crashes of any number of relays implement
\* ForgetLedger: nothing starts once a Forget was asked for, the files go when no
\* process uses them, the entry goes after both.
THEOREM ImplementsLedger == Spec => LedgerSpec
<1>1. Init => Ledger!Init
  BY InitIInv
<1>2. IInv /\ [Next]_vars => [Ledger!Next]_(Ledger!vars)
  BY NextKeeps DEF LedgerStep
<1>3. QED
  BY <1>1, <1>2, Inductive, PTL DEF Spec, LedgerSpec, Ledger!Spec
================================================================================
