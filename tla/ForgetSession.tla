----------------------------- MODULE ForgetSession ------------------------------
(***************************************************************************)
(* Forgetting one session by relays that share its database and workspace: *)
(* ForgetSession.run over the durable operation row, the fences that keep  *)
(* late saves and new scratch away from a forgotten session, the launch of *)
(* an app-server over its scratch (allocate and borrow, then launch), and  *)
(* FilesystemScratchCleanup, for a Forget and for Clean TMP.               *)
(*                                                                         *)
(* The scratch is a directory of the workspace: it has a marker once its   *)
(* maker has written it, a controller fence (a directory made exclusively, *)
(* never stolen), the leases of the processes that use it, and payload.    *)
(* Cleanup moves it to a removal namespace before it deletes it. allocate  *)
(* is borrow without the lease and always precedes it, so that borrow      *)
(* stands for both; the containment fence, which only cleanups of the same *)
(* directory contend for here, is taken with the controller fence.         *)
(*                                                                         *)
(* Bounds: one launch, one process, one cleanup and one run of a Forget at *)
(* a time in each relay, as many removal namespaces as MaxRemovals.        *)
(***************************************************************************)
EXTENDS Naturals, FiniteSets

CONSTANTS Relay,         \* relay instances on one database
          MaxRemovals,   \* bound: removal namespaces at a time
          MaxFaults      \* budget of crashes and of failed deletions

ASSUME RelayAssumption == Relay # {} /\ IsFiniteSet(Relay) /\ "lost" \notin Relay
ASSUME BoundsAssumption == MaxRemovals \in Nat /\ MaxFaults \in Nat

\* the owner's directory, and the removal namespaces beside it
Stable == 0
Place == 0 .. MaxRemovals

VARIABLES
    row,       \* relay_sessions has the session
    op,        \* the phase of session_forget_operations; "none" without a row
    held,      \* a handler of some relay will save the session it read earlier
    starter,   \* createResource of a relay, up to the launch
    proc,      \* the session's app-server of a relay
    orphan,    \* a process that outlived the relay that started it
    fs,        \* the scratch directories, by place
    run,       \* ForgetSession.run of a relay
    cleaner,   \* the cleanup of a relay
    left       \* what remains of MaxFaults

vars == <<row, op, held, starter, proc, orphan, fs, run, cleaner, left>>
database == <<row, op>>

NoDir == [made |-> FALSE, marked |-> FALSE, fenced |-> FALSE, leases |-> {}, payload |-> FALSE]
Idle == [pc |-> "idle", forget |-> FALSE, at |-> Stable, todo |-> {}, bad |-> FALSE]

-----------------------------------------------------------------------------
(* ----------------------------- the database ---------------------------- *)
\* assertAvailable: any operation row, a completed one too, fences the session
Available == op = "none"

\* faulty variant of Saved: the roster row is not fenced
SavedUnfenced == TRUE

\* a save: the triggers drop it once an operation row exists
Saved == row \/ op = "none"

\* faulty variant of Advanced: the failure code lands in the phase
AdvancedByCode(phase) ==
    IF op = "completed" THEN op ELSE IF phase = "failed" THEN "SESSION_FORGET_FAILED" ELSE phase

\* update: a completed operation never changes
Advanced(phase) == IF op = "completed" THEN op ELSE phase

(* ------------------------------ the scratch ---------------------------- *)
Put(p, d) == fs' = [fs EXCEPT ![p] = d]
Owner == fs[Stable]
Unfenced(p) == Put(p, [fs[p] EXCEPT !.fenced = FALSE])

Init ==
    /\ row = TRUE /\ op = "none" /\ held = FALSE
    /\ starter = [r \in Relay |-> "idle"] /\ proc = [r \in Relay |-> "none"] /\ orphan = FALSE
    /\ fs = [p \in Place |-> NoDir]
    /\ run = [r \in Relay |-> "none"] /\ cleaner = [r \in Relay |-> Idle]
    /\ left = MaxFaults

-----------------------------------------------------------------------------
(* ------------------------- launching an app-server --------------------- *)
\* a route or a timer reads the session and asks for a writer
Ask(r) ==
    /\ row /\ Available /\ starter[r] = "idle" /\ proc[r] = "none"
    /\ starter' = [starter EXCEPT ![r] = "asked"] /\ held' = TRUE
    /\ UNCHANGED <<database, proc, orphan, fs, run, cleaner, left>>

\* a handler that awaited something saves the session it had read
Save ==
    /\ held /\ held' = FALSE /\ row' = Saved
    /\ UNCHANGED <<op, starter, proc, orphan, fs, run, cleaner, left>>

\* prepare: mkdir of the owner's directory, or the one that is there
MakeOwner(r) ==
    /\ starter[r] = "asked"
    /\ IF Owner.made
       THEN starter' = [starter EXCEPT ![r] = "found"] /\ UNCHANGED fs
       ELSE starter' = [starter EXCEPT ![r] = "made"] /\ Put(Stable, [NoDir EXCEPT !.made = TRUE])
    /\ UNCHANGED <<database, held, proc, orphan, run, cleaner, left>>

\* prepare: claimOwnerFence; an existing fence is busy whoever left it
ClaimOwner(r) ==
    /\ starter[r] \in {"made", "found"}
    /\ IF Owner.made /\ ~Owner.fenced
       THEN /\ Put(Stable, [Owner EXCEPT !.fenced = TRUE])
            /\ starter' = [starter EXCEPT ![r] = IF @ = "made" THEN "mark" ELSE "validate"]
       ELSE starter' = [starter EXCEPT ![r] = "idle"] /\ UNCHANGED fs
    /\ UNCHANGED <<database, held, proc, orphan, run, cleaner, left>>

\* prepare: write the marker of a directory we made, validate another's
Mark(r) ==
    /\ starter[r] \in {"mark", "validate"}
    /\ IF starter[r] = "mark" \/ Owner.marked
       THEN starter' = [starter EXCEPT ![r] = "marked"] /\ Put(Stable, [Owner EXCEPT !.marked = TRUE])
       ELSE starter' = [starter EXCEPT ![r] = "idle"] /\ Unfenced(Stable)
    /\ UNCHANGED <<database, held, proc, orphan, run, cleaner, left>>

\* borrow: the session is still available under the fence
Admit(r) ==
    /\ starter[r] = "marked"
    /\ IF Available THEN starter' = [starter EXCEPT ![r] = "admitted"] /\ UNCHANGED fs
       ELSE starter' = [starter EXCEPT ![r] = "idle"] /\ Unfenced(Stable)
    /\ UNCHANGED <<database, held, proc, orphan, run, cleaner, left>>

\* borrow: publish the lease, release the fence
Lease(r) ==
    /\ starter[r] = "admitted"
    /\ Put(Stable, [Owner EXCEPT !.leases = @ \cup {r}, !.fenced = FALSE])
    /\ starter' = [starter EXCEPT ![r] = "leased"]
    /\ UNCHANGED <<database, held, proc, orphan, run, cleaner, left>>

\* createResource: available, launch over the leased scratch; else release it
Launch(r) ==
    /\ starter[r] = "leased" /\ starter' = [starter EXCEPT ![r] = "idle"]
    /\ IF Available
       THEN /\ proc' = [proc EXCEPT ![r] = "running"]
            /\ Put(Stable, [Owner EXCEPT !.payload = TRUE])
       ELSE Put(Stable, [Owner EXCEPT !.leases = @ \ {r}]) /\ UNCHANGED proc
    /\ UNCHANGED <<database, held, orphan, run, cleaner, left>>

\* Stop, Release, a failed resume: the resource is disposed
Dispose(r) ==
    /\ proc[r] = "running" /\ proc' = [proc EXCEPT ![r] = "closing"]
    /\ UNCHANGED <<database, held, starter, orphan, fs, run, cleaner, left>>

\* confirmResourceRelease: the process group is absent, release its lease
Closed(r) ==
    /\ proc[r] = "closing" /\ proc' = [proc EXCEPT ![r] = "none"]
    /\ Put(Stable, [Owner EXCEPT !.leases = @ \ {r}])
    /\ UNCHANGED <<database, held, starter, orphan, run, cleaner, left>>

-----------------------------------------------------------------------------
(* ------------------------------- Forget -------------------------------- *)
Fails(r) == op' = Advanced("failed") /\ run' = [run EXCEPT ![r] = "none"]

\* execute, also at boot for pendingIds: begin the operation or join it, enter
\* stopping and dispose of this relay's resource
Forget(r) ==
    /\ run[r] = "none" /\ row
    /\ op' = Advanced("stopping")
    /\ run' = [run EXCEPT ![r] = IF op = "completed" THEN "none" ELSE "releasing"]
    /\ proc' = [proc EXCEPT ![r] = IF @ = "running" THEN "closing" ELSE @]
    /\ UNCHANGED <<row, held, starter, orphan, fs, cleaner, left>>

\* releaseForForget: creations have settled and every process is confirmed gone
Released(r) ==
    /\ run[r] = "releasing" /\ starter[r] = "idle" /\ proc[r] = "none" /\ cleaner[r].pc = "idle"
    /\ op' = Advanced("cleaning")
    /\ IF op = "completed"
       THEN run' = [run EXCEPT ![r] = "none"] /\ UNCHANGED cleaner
       ELSE /\ run' = [run EXCEPT ![r] = "cleaning"]
            /\ cleaner' = [cleaner EXCEPT ![r] = [Idle EXCEPT !.pc = "list", !.forget = TRUE]]
    /\ UNCHANGED <<row, held, starter, proc, orphan, fs, left>>

\* an interrupt or the confirmation of the process fails
ReleaseFails(r) ==
    /\ run[r] = "releasing" /\ Fails(r)
    /\ UNCHANGED <<row, held, starter, proc, orphan, fs, cleaner, left>>

\* faulty variant of Cleaned: only a complete cleanup is answered
CleanedOnlyWhole(r) ==
    /\ run[r] = "cleaning" /\ cleaner[r].pc = "done" /\ ~cleaner[r].bad
    /\ cleaner' = [cleaner EXCEPT ![r] = Idle]
    /\ op' = Advanced("finalizing")
    /\ run' = [run EXCEPT ![r] = IF op = "completed" THEN "none" ELSE "finalizing"]
    /\ UNCHANGED <<row, held, starter, proc, orphan, fs, left>>

\* cleanSession fails when anything was skipped or failed
Cleaned(r) ==
    /\ run[r] = "cleaning" /\ cleaner[r].pc = "done"
    /\ cleaner' = [cleaner EXCEPT ![r] = Idle]
    /\ IF cleaner[r].bad THEN Fails(r)
       ELSE /\ op' = Advanced("finalizing")
            /\ run' = [run EXCEPT ![r] = IF op = "completed" THEN "none" ELSE "finalizing"]
    /\ UNCHANGED <<row, held, starter, proc, orphan, fs, left>>

\* one transaction: the operation is still in its last phase, the row goes
Finalize(r) ==
    /\ run[r] = "finalizing"
    /\ IF op \in {"finalizing", "completed"}
       THEN row' = FALSE /\ op' = "completed" /\ run' = [run EXCEPT ![r] = "none"]
       ELSE Fails(r) /\ UNCHANGED row
    /\ UNCHANGED <<held, starter, proc, orphan, fs, cleaner, left>>

-----------------------------------------------------------------------------
(* ------------------------------- cleanup ------------------------------- *)
At(r) == cleaner[r].at
CleanTo(r, c) == cleaner' = [cleaner EXCEPT ![r] = c]

\* faulty variant of Drop: the fence of a skipped folder is not released
DropFenced(r) ==
    UNCHANGED fs /\ cleaner' = [cleaner EXCEPT ![r] = [@ EXCEPT !.pc = "next", !.bad = TRUE]]

\* a skipped or failed folder: release the fence, go on with the others
Drop(r) == Unfenced(At(r)) /\ CleanTo(r, [cleaner[r] EXCEPT !.pc = "next", !.bad = TRUE])

\* assertProtection: only an authorised Forget may take a session of the roster
Authorized(r) == IF cleaner[r].forget THEN op = "cleaning" ELSE ~row

\* Clean TMP
CleanTmp(r) ==
    /\ cleaner[r].pc = "idle" /\ run[r] # "cleaning"
    /\ CleanTo(r, [Idle EXCEPT !.pc = "list"])
    /\ UNCHANGED <<database, held, starter, proc, orphan, fs, run, left>>

\* readdir of the scratch container
List(r) ==
    /\ cleaner[r].pc = "list"
    /\ CleanTo(r, [cleaner[r] EXCEPT !.pc = "next", !.todo = {p \in Place : fs[p].made}])
    /\ UNCHANGED <<database, held, starter, proc, orphan, fs, run, left>>

\* the next folder: it needs a marker and a free fence
Claim(r) ==
    /\ cleaner[r].pc = "next"
    /\ \E p \in cleaner[r].todo :
        IF fs[p].made /\ fs[p].marked /\ ~fs[p].fenced
        THEN /\ Put(p, [fs[p] EXCEPT !.fenced = TRUE])
             /\ CleanTo(r, [cleaner[r] EXCEPT !.pc = "claimed", !.at = p, !.todo = @ \ {p}])
        ELSE CleanTo(r, [cleaner[r] EXCEPT !.todo = @ \ {p}, !.bad = TRUE]) /\ UNCHANGED fs
    /\ UNCHANGED <<database, held, starter, proc, orphan, run, left>>

\* faulty variant of Check: the leases are not read
CheckNoLeases(r) ==
    /\ cleaner[r].pc = "claimed"
    /\ IF Authorized(r) THEN CleanTo(r, [cleaner[r] EXCEPT !.pc = "checked"]) /\ UNCHANGED fs
       ELSE Drop(r)
    /\ UNCHANGED <<database, held, starter, proc, orphan, run, left>>

\* releasedLeases and assertProtection
Check(r) ==
    /\ cleaner[r].pc = "claimed"
    /\ IF fs[At(r)].leases = {} /\ Authorized(r)
       THEN CleanTo(r, [cleaner[r] EXCEPT !.pc = "checked"]) /\ UNCHANGED fs
       ELSE Drop(r)
    /\ UNCHANGED <<database, held, starter, proc, orphan, run, left>>

Free == {p \in Place \ {Stable} : ~fs[p].made}

\* move the owner to a removal namespace; one that is there stays where it is
Retire(r) ==
    /\ cleaner[r].pc = "checked"
    /\ IF At(r) # Stable
       THEN CleanTo(r, [cleaner[r] EXCEPT !.pc = "moved"]) /\ UNCHANGED fs
       ELSE IF ~Authorized(r) THEN Drop(r)
       ELSE /\ Free # {}
            /\ LET d == CHOOSE p \in Free : TRUE
               IN  /\ fs' = [fs EXCEPT ![d] = Owner, ![Stable] = NoDir]
                   /\ CleanTo(r, [cleaner[r] EXCEPT !.pc = "moved", !.at = d])
    /\ UNCHANGED <<database, held, starter, proc, orphan, run, left>>

\* the last check before anything is deleted
Recheck(r) ==
    /\ cleaner[r].pc = "moved"
    /\ IF Authorized(r) THEN CleanTo(r, [cleaner[r] EXCEPT !.pc = "purge"]) /\ UNCHANGED fs
       ELSE Drop(r)
    /\ UNCHANGED <<database, held, starter, proc, orphan, run, left>>

\* delete the payload; a failure leaves the folder for a later pass
Purge(r) ==
    /\ cleaner[r].pc = "purge"
    /\ \/ /\ Put(At(r), [fs[At(r)] EXCEPT !.payload = FALSE])
          /\ CleanTo(r, [cleaner[r] EXCEPT !.pc = "remove"]) /\ UNCHANGED left
       \/ left > 0 /\ left' = left - 1 /\ Drop(r)
    /\ UNCHANGED <<database, held, starter, proc, orphan, run>>

\* delete the leases, the marker, the fence and the folder
Remove(r) ==
    /\ cleaner[r].pc = "remove"
    /\ Put(At(r), NoDir) /\ CleanTo(r, [cleaner[r] EXCEPT !.pc = "next"])
    /\ UNCHANGED <<database, held, starter, proc, orphan, run, left>>

\* every folder was handled
CleanEnds(r) ==
    /\ cleaner[r].pc = "next" /\ cleaner[r].todo = {}
    /\ CleanTo(r, IF cleaner[r].forget THEN [cleaner[r] EXCEPT !.pc = "done"] ELSE Idle)
    /\ UNCHANGED <<database, held, starter, proc, orphan, fs, run, left>>

-----------------------------------------------------------------------------
\* The relay dies and a new one takes its place: fences and leases stay, and
\* its process may outlive it.
Crash(r) ==
    /\ left > 0 /\ left' = left - 1
    /\ starter' = [starter EXCEPT ![r] = "idle"] /\ held' \in {FALSE, held}
    /\ run' = [run EXCEPT ![r] = "none"] /\ cleaner' = [cleaner EXCEPT ![r] = Idle]
    /\ proc' = [proc EXCEPT ![r] = "none"]
    /\ orphan' \in IF proc[r] = "none" THEN {orphan} ELSE {orphan, TRUE}
    /\ fs' = [p \in Place |->
                [fs[p] EXCEPT !.leases = (@ \ {r}) \cup (IF r \in @ THEN {"lost"} ELSE {})]]
    /\ UNCHANGED database

OrphanEnds ==
    /\ orphan /\ orphan' = FALSE
    /\ UNCHANGED <<database, held, starter, proc, fs, run, cleaner, left>>

Launching(r) ==
    \/ MakeOwner(r) \/ ClaimOwner(r) \/ Mark(r) \/ Admit(r) \/ Lease(r) \/ Launch(r)

Cleaning(r) ==
    \/ List(r) \/ Claim(r) \/ Check(r) \/ Retire(r) \/ Recheck(r) \/ Purge(r) \/ Remove(r)
    \/ CleanEnds(r)

Forgetting(r) == Released(r) \/ Cleaned(r) \/ Finalize(r)

Next ==
    \/ \E r \in Relay :
        \/ Ask(r) \/ Launching(r) \/ Dispose(r) \/ Closed(r)
        \/ Forget(r) \/ Forgetting(r) \/ ReleaseFails(r)
        \/ CleanTmp(r) \/ Cleaning(r) \/ Crash(r)
    \/ Save \/ OrphanEnds

Spec == Init /\ [][Next]_vars

\* What a relay has begun goes on; a process that was told to stop is confirmed
\* absent (SIGTERM, then SIGKILL) or the release fails.
Fairness ==
    \A r \in Relay :
        /\ WF_vars(Launching(r)) /\ WF_vars(Cleaning(r)) /\ WF_vars(Forgetting(r))
        /\ WF_vars(Closed(r) \/ ReleaseFails(r))

FairSpec == Spec /\ Fairness

-----------------------------------------------------------------------------
Launches == {"idle", "asked", "made", "found", "mark", "validate", "marked", "admitted", "leased"}
Dirs == [made : BOOLEAN, marked : BOOLEAN, fenced : BOOLEAN,
         leases : SUBSET (Relay \cup {"lost"}), payload : BOOLEAN]
Cleaners == [pc : {"idle", "list", "next", "claimed", "checked", "moved", "purge", "remove", "done"},
             forget : BOOLEAN, at : Place, todo : SUBSET Place, bad : BOOLEAN]

TypeOK ==
    /\ row \in BOOLEAN
    /\ op \in {"none", "stopping", "cleaning", "finalizing", "failed", "completed"}
    /\ held \in BOOLEAN
    /\ starter \in [Relay -> Launches]
    /\ proc \in [Relay -> {"none", "running", "closing"}] /\ orphan \in BOOLEAN
    /\ fs \in [Place -> Dirs]
    /\ run \in [Relay -> {"none", "releasing", "cleaning", "finalizing"}]
    /\ cleaner \in [Relay -> Cleaners]
    /\ left \in 0 .. MaxFaults

\* The scratch of a live process stays in place, with its files and a lease
\* that protects it, whichever relay forgets the session or cleans the
\* workspace, and after the relay that started the process has died.
ScratchOutlivesProcess ==
    /\ \A r \in Relay : proc[r] # "none" => Owner.marked /\ Owner.payload /\ r \in Owner.leases
    /\ orphan => Owner.marked /\ Owner.payload /\ "lost" \in Owner.leases

\* A fence is held by a launch or a cleanup that will release it: none is left
\* behind while no relay has died, so that a Forget that failed can be retried.
StarterHolds(r) == starter[r] \in {"mark", "validate", "marked", "admitted"}
CleanerHolds(r, p) ==
    p = At(r) /\ cleaner[r].pc \in {"claimed", "checked", "moved", "purge", "remove"}
Holds(r, p) == (p = Stable /\ StarterHolds(r)) \/ CleanerHolds(r, p)

HeldOK == \A p \in Place : \A r \in Relay : Holds(r, p) => fs[p].made /\ fs[p].fenced
UnheldOK == left = MaxFaults => \A p \in Place : fs[p].fenced => \E r \in Relay : Holds(r, p)

FencesHaveHolders ==
    /\ \A p \in Place : Cardinality({r \in Relay : Holds(r, p)}) <= 1
    /\ HeldOK /\ UnheldOK

\* Once a Forget has completed no temporary file of the session is left, neither
\* in its directory nor in a removal namespace: session-scratch-contract.md, "A
\* successful request returns 204 only after deletion". A relay that launches the
\* session while two others clean it breaks it.
CompletedMeansDeleted == op = "completed" => \A p \in Place : ~fs[p].payload

\* Nothing starts, is saved or comes back once a Forget was asked for; the files
\* leave the session's directory when no process uses them, the entry goes after
\* both (refinement of ForgetLedger).
Used == orphan \/ \E r \in Relay : proc[r] # "none"

Ledger == INSTANCE ForgetLedger WITH
    status <- IF op = "none" THEN "kept" ELSE IF row THEN "forgetting" ELSE "gone",
    used <- Used, files <- Owner.payload

LedgerSpec == Ledger!Spec

\* A Forget that was begun comes to an end: it completes, or fails visibly.
ForgetSettles == \A r \in Relay : run[r] # "none" ~> run[r] = "none"

-----------------------------------------------------------------------------
(* ------------------------- the inductive invariant --------------------- *)
\* a directory with a marker or files is there; a launch under the fence knows
\* the marker, one with a lease is protected by it, and none has a process yet
MadeOK == \A p \in Place : fs[p].marked \/ fs[p].payload => fs[p].made

LaunchOK(r) ==
    /\ starter[r] \in {"marked", "admitted", "leased"} => Owner.marked
    /\ starter[r] = "leased" => r \in Owner.leases
    /\ starter[r] # "idle" => proc[r] = "none"

DirectoryOK == MadeOK /\ \A r \in Relay : LaunchOK(r)

\* the fence of the owner's directory is a launch's or a cleanup's, of one relay
ExclusiveOK ==
    /\ \A r, q \in Relay : StarterHolds(r) /\ StarterHolds(q) => r = q
    /\ \A r, q \in Relay : ~(StarterHolds(r) /\ CleanerHolds(q, Stable))
    /\ \A p \in Place : \A r, q \in Relay : CleanerHolds(r, p) /\ CleanerHolds(q, p) => r = q

\* what a cleanup has checked holds until it lets go: no lease, then not the
\* session's directory any more
CleanerOK(r) ==
    /\ cleaner[r].pc = "checked" => fs[At(r)].leases = {}
    /\ cleaner[r].pc \in {"moved", "purge", "remove"} => At(r) # Stable
    /\ cleaner[r].pc = "done" => cleaner[r].todo = {}

\* the session is being forgotten, nothing runs and nothing is in its directory
Settled == op # "none" /\ ~Used /\ ~Owner.payload

\* a Forget's cleanup still has the directory before it, or failed, or is through
Outstanding(r) ==
    \/ cleaner[r].pc = "list" \/ cleaner[r].bad \/ Stable \in cleaner[r].todo
    \/ cleaner[r].pc \in {"claimed", "checked"} /\ At(r) = Stable

ForgetOK ==
    /\ row <=> op # "completed"
    /\ ~row => Settled
    /\ \A r \in Relay :
        /\ run[r] # "none" => op # "none"
        /\ run[r] = "finalizing" => Settled
        /\ run[r] = "cleaning" <=> cleaner[r].pc # "idle" /\ cleaner[r].forget
        /\ run[r] = "cleaning" => Outstanding(r) \/ Settled

IInv ==
    /\ TypeOK /\ ScratchOutlivesProcess /\ DirectoryOK /\ ExclusiveOK /\ HeldOK /\ UnheldOK
    /\ \A r \in Relay : CleanerOK(r)
    /\ ForgetOK
================================================================================
