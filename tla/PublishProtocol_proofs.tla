------------------------ MODULE PublishProtocol_proofs ------------------------
(***************************************************************************)
(* Theorems about PublishProtocol for any sets of processes.               *)
(***************************************************************************)
EXTENDS PublishProtocol, TLAPS

\* Next, one disjunct per action: the shape every step proof below splits on.
LEMMA NextActions ==
  ASSUME Next
  PROVE  \/ \E p \in Proc : WriteDefault(p) \/ Granted(p) \/ Refuses(p) \/ Killed(p)
         \/ \E p \in Shielders :
              \/ Load(p) \/ SkipMigration(p) \/ BeginMigration(p) \/ FinishMigration(p)
              \/ Reload(p) \/ Precheck(p) \/ BeginRecovery(p) \/ FinishRecovery(p)
              \/ CleanupOrphans(p) \/ Acquire(p) \/ EnterPublish(p) \/ PeerRecheck(p)
              \/ CompareFingerprint(p) \/ WriteRuntime(p) \/ Raise(p) \/ Lower(p)
              \/ Unassert(p) \/ Unpublish(p)
         \/ \E p \in Watchers : Press(p)
         \/ \E s \in Setters :
              Prepare(s) \/ Probe(s) \/ Claim(s) \/ Captured(s) \/ SaveUnlockHash(s)
         \/ Age
  BY DEF Next, Startup, Session, Setter, Proc, Shielders

-----------------------------------------------------------------------------
(* Type correctness and the lock discipline *)

\* The initial states are well typed, with the lock free.
LEMMA InitTypeOK == Init => TypeOK
  BY ProcAssumption, SwitchAssumption
  DEF Init, TypeOK, Proc, Shielders, NoPidFiles, Steps, LockedSteps, Missing,
      Configs, Secrets

\* Every step keeps the types and the lock discipline of TypeOK.
LEMMA NextTypeOK == TypeOK /\ [Next]_vars => TypeOK'
<1> SUFFICES ASSUME TypeOK, [Next]_vars PROVE TypeOK'
  OBVIOUS
<1> USE ProcAssumption, SwitchAssumption
    DEF TypeOK, Goto, Take, Drop, Exit, Steps, LockedSteps
<1> Shielders \subseteq Proc /\ Setters \subseteq Proc /\ Watchers \subseteq Shielders
  BY DEF Proc, Shielders
<1> "free" \notin Proc
  BY DEF Proc
<1>1. CASE UNCHANGED vars
  BY <1>1 DEF vars
<1>2. ASSUME NEW p \in Proc, WriteDefault(p)  PROVE TypeOK'
  <2>1. Default \in Configs
    BY DEF Default, Configs, Secrets
  <2>2. QED
    BY <1>2, <2>1 DEF WriteDefault
<1>3. ASSUME NEW p \in Proc, Granted(p)  PROVE TypeOK'
  BY <1>3 DEF Granted
<1>4. ASSUME NEW p \in Proc, Refuses(p) \/ Killed(p)  PROVE TypeOK'
  BY <1>4 DEF Refuses, Killed
<1>5. ASSUME NEW p \in Shielders, Load(p)  PROVE TypeOK'
  BY <1>5 DEF Load
<1>6. ASSUME NEW p \in Shielders, SkipMigration(p)  PROVE TypeOK'
  BY <1>6 DEF SkipMigration
<1>7. ASSUME NEW p \in Shielders, BeginMigration(p)  PROVE TypeOK'
  BY <1>7 DEF BeginMigration
<1>8. ASSUME NEW p \in Shielders, FinishMigration(p)  PROVE TypeOK'
  <2>1. draft[p] \in Configs
    BY <1>8 DEF FinishMigration
  <2>2. [draft[p] EXCEPT !.current = TRUE] \in Configs
    BY <2>1 DEF Configs
  <2>3. QED
    BY <1>8, <2>2 DEF FinishMigration
<1>9. ASSUME NEW p \in Shielders, Reload(p)  PROVE TypeOK'
  BY <1>9 DEF Reload
<1>10. ASSUME NEW p \in Shielders, Precheck(p)  PROVE TypeOK'
  BY <1>10 DEF Precheck
<1>11. ASSUME NEW p \in Shielders, BeginRecovery(p)  PROVE TypeOK'
  BY <1>11 DEF BeginRecovery
<1>12. ASSUME NEW p \in Shielders, FinishRecovery(p)  PROVE TypeOK'
  BY <1>12 DEF FinishRecovery, NoPidFiles
<1>13. ASSUME NEW p \in Shielders, CleanupOrphans(p)  PROVE TypeOK'
  BY <1>13 DEF CleanupOrphans
<1>14. ASSUME NEW p \in Shielders, Acquire(p)  PROVE TypeOK'
  BY <1>14 DEF Acquire, Refuse
<1>15. ASSUME NEW p \in Shielders, EnterPublish(p)  PROVE TypeOK'
  BY <1>15 DEF EnterPublish, Refuse
<1>16. ASSUME NEW p \in Shielders, PeerRecheck(p)  PROVE TypeOK'
  BY <1>16 DEF PeerRecheck, Refuse
<1>17. ASSUME NEW p \in Shielders, CompareFingerprint(p)  PROVE TypeOK'
  BY <1>17 DEF CompareFingerprint, Refuse
<1>18. ASSUME NEW p \in Shielders, WriteRuntime(p)  PROVE TypeOK'
  <2>1. CASE runtime' = p /\ aged' = FALSE /\ latched' = latched \ {p}
               /\ Drop(p) /\ Goto(p, "raise")
    BY <1>18, <2>1 DEF WriteRuntime
  <2>2. CASE Refuse(p) /\ UNCHANGED <<runtime, aged>>
    BY <1>18, <2>2 DEF WriteRuntime, Refuse
  <2>3. QED
    BY <1>18, <2>1, <2>2 DEF WriteRuntime
<1>19. ASSUME NEW p \in Shielders, Raise(p)  PROVE TypeOK'
  BY <1>19 DEF Raise
<1>20. ASSUME NEW p \in Shielders, Lower(p)  PROVE TypeOK'
  BY <1>20 DEF Lower
<1>21. ASSUME NEW p \in Shielders, Unassert(p)  PROVE TypeOK'
  BY <1>21 DEF Unassert
<1>22. ASSUME NEW p \in Shielders, Unpublish(p)  PROVE TypeOK'
  BY <1>22 DEF Unpublish, NoPidFiles
<1>23. ASSUME NEW p \in Watchers, Press(p)  PROVE TypeOK'
  BY <1>23 DEF Press
<1>24. ASSUME NEW s \in Setters, Prepare(s)  PROVE TypeOK'
  BY <1>24 DEF Prepare
<1>25. ASSUME NEW s \in Setters, Probe(s)  PROVE TypeOK'
  BY <1>25 DEF Probe
<1>26. ASSUME NEW s \in Setters, Claim(s)  PROVE TypeOK'
  BY <1>26 DEF Claim
<1>27. ASSUME NEW s \in Setters, Captured(s)  PROVE TypeOK'
  BY <1>27 DEF Captured
<1>28. ASSUME NEW s \in Setters, SaveUnlockHash(s)  PROVE TypeOK'
  <2>1. [config EXCEPT !.secret = s] \in Configs
    <3>1. CASE config = Missing
      BY <3>1 DEF Missing, Configs, Secrets
    <3>2. CASE config \in Configs
      BY <3>2 DEF Configs, Secrets
    <3>3. QED
      BY <3>1, <3>2
  <2>2. QED
    BY <1>28, <2>1 DEF SaveUnlockHash
<1>29. CASE Age
  BY <1>29 DEF Age
<1>30. QED
  BY <1>1, <1>2, <1>3, <1>4, <1>5, <1>6, <1>7, <1>8, <1>9, <1>10, <1>11, <1>12,
     <1>13, <1>14, <1>15, <1>16, <1>17, <1>18, <1>19, <1>20, <1>21, <1>22, <1>23,
     <1>24, <1>25, <1>26, <1>27, <1>28, <1>29, NextActions

\* Every reachable state is well typed, and the publish lock is held by exactly
\* the process that is inside one of the sections it guards.
THEOREM TypeCorrect == Spec => []TypeOK
  BY InitTypeOK, NextTypeOK, PTL DEF Spec

-----------------------------------------------------------------------------
(* One owner of the keyboard *)

\* The inductive invariant behind KeyboardHasOneOwner and
\* LiveShieldIsPublished: a session from its Write to its Release owns
\* runtime.json, and whoever is about to delete or replace that file, or to
\* capture, has seen under the lock that no live instance does.
OwnFile ==
  /\ \A p \in Shielders : pc[p] \in {"raise", "shielded"} => p \notin latched
  /\ \A p \in Shielders :
       /\ pc[p] \in {"raise", "shielded", "unassert", "unpublish"}
       /\ p \notin latched
       => runtime = p

SawNoPeer ==
  \A p \in Proc :
    pc[p] \in {"recovering", "compare", "write", "capture", "captured", "commit"}
      => ~LiveInstance

Exclusion == aged = FALSE /\ OwnFile /\ SawNoPeer

ExclusionInv == TypeOK /\ Exclusion

\* The initial states satisfy the inductive invariant.
LEMMA InitExclusionInv == Init => ExclusionInv
  BY InitTypeOK, ProcAssumption
  DEF Init, ExclusionInv, Exclusion, OwnFile, SawNoPeer, Proc, Shielders

\* Every step keeps it: only the holder of the lock writes or deletes runtime.json,
\* but for a session that takes its own file away.
LEMMA NextExclusionInv ==
  ASSUME ~MayAge, ExclusionInv, [Next]_vars
  PROVE  ExclusionInv'
<1> TypeOK'
  BY NextTypeOK DEF ExclusionInv
<1> SUFFICES Exclusion'
  BY DEF ExclusionInv
<1> USE DEF ExclusionInv, Exclusion, TypeOK, OwnFile, SawNoPeer, LiveInstance, LockedSteps,
            Goto, Take, Drop
<1>0. Shielders \subseteq Proc /\ Setters \subseteq Proc /\ Watchers \subseteq Shielders
      /\ "free" \notin Proc /\ "none" \notin Proc
  BY ProcAssumption DEF Proc, Shielders, NoPidFiles
<1> USE <1>0
<1>1. CASE UNCHANGED vars
  BY <1>1 DEF vars
<1>2. ASSUME NEW p \in Proc, WriteDefault(p)  PROVE Exclusion'
  BY <1>2 DEF WriteDefault
<1>3. ASSUME NEW p \in Proc, Granted(p)  PROVE Exclusion'
  BY <1>3 DEF Granted
<1>4. ASSUME NEW p \in Proc, Refuses(p) \/ Killed(p)  PROVE Exclusion'
  BY <1>4 DEF Refuses, Killed, Exit
<1>5. ASSUME NEW p \in Shielders, Load(p)  PROVE Exclusion'
  BY <1>5 DEF Load
<1>6. ASSUME NEW p \in Shielders, SkipMigration(p)  PROVE Exclusion'
  BY <1>6 DEF SkipMigration
<1>7. ASSUME NEW p \in Shielders, BeginMigration(p)  PROVE Exclusion'
  BY <1>7 DEF BeginMigration
<1>8. ASSUME NEW p \in Shielders, FinishMigration(p)  PROVE Exclusion'
  BY <1>8 DEF FinishMigration
<1>9. ASSUME NEW p \in Shielders, Reload(p)  PROVE Exclusion'
  BY <1>9 DEF Reload
<1>10. ASSUME NEW p \in Shielders, Precheck(p)  PROVE Exclusion'
  BY <1>10 DEF Precheck
<1>11. ASSUME NEW p \in Shielders, BeginRecovery(p)  PROVE Exclusion'
  BY <1>11 DEF BeginRecovery
<1>12. ASSUME NEW p \in Shielders, FinishRecovery(p)  PROVE Exclusion'
  BY <1>12 DEF FinishRecovery
<1>13. ASSUME NEW p \in Shielders, CleanupOrphans(p)  PROVE Exclusion'
  BY <1>13 DEF CleanupOrphans
<1>14. ASSUME NEW p \in Shielders, Acquire(p)  PROVE Exclusion'
  BY <1>14 DEF Acquire, Refuse
<1>15. ASSUME NEW p \in Shielders, EnterPublish(p)  PROVE Exclusion'
  BY <1>15 DEF EnterPublish, Refuse
<1>16. ASSUME NEW p \in Shielders, PeerRecheck(p)  PROVE Exclusion'
  BY <1>16 DEF PeerRecheck, Refuse
<1>17. ASSUME NEW p \in Shielders, CompareFingerprint(p)  PROVE Exclusion'
  BY <1>17 DEF CompareFingerprint, Refuse
<1>18. ASSUME NEW p \in Shielders, WriteRuntime(p)  PROVE Exclusion'
  BY <1>18 DEF WriteRuntime, Refuse
<1>19. ASSUME NEW p \in Shielders, Raise(p)  PROVE Exclusion'
  BY <1>19 DEF Raise
<1>20. ASSUME NEW p \in Shielders, Lower(p)  PROVE Exclusion'
  BY <1>20 DEF Lower
<1>21. ASSUME NEW p \in Shielders, Unassert(p)  PROVE Exclusion'
  BY <1>21 DEF Unassert
<1>22. ASSUME NEW p \in Shielders, Unpublish(p)  PROVE Exclusion'
  BY <1>22 DEF Unpublish
<1>23. ASSUME NEW p \in Watchers, Press(p)  PROVE Exclusion'
  BY <1>23 DEF Press
<1>24. ASSUME NEW s \in Setters, Prepare(s)  PROVE Exclusion'
  BY <1>24 DEF Prepare
<1>25. ASSUME NEW s \in Setters, Probe(s)  PROVE Exclusion'
  BY <1>25 DEF Probe, NoPeer
<1>26. ASSUME NEW s \in Setters, Claim(s)  PROVE Exclusion'
  BY <1>26 DEF Claim
<1>27. ASSUME NEW s \in Setters, Captured(s)  PROVE Exclusion'
  BY <1>27 DEF Captured
<1>28. ASSUME NEW s \in Setters, SaveUnlockHash(s)  PROVE Exclusion'
  BY <1>28 DEF SaveUnlockHash, Exit
<1>29. CASE Age
  BY <1>29 DEF Age
<1>30. QED
  BY <1>1, <1>2, <1>3, <1>4, <1>5, <1>6, <1>7, <1>8, <1>9, <1>10, <1>11,
     <1>12, <1>13, <1>14, <1>15, <1>16, <1>17, <1>18, <1>19, <1>20, <1>21,
     <1>22, <1>23, <1>24, <1>25, <1>26, <1>27, <1>28, <1>29, NextActions

\* The invariant gives the property: a shield is named by runtime.json, and
\* a capture has seen under the lock that nobody is.
LEMMA ExclusionGivesOneOwner == ExclusionInv => KeyboardHasOneOwner
  BY DEF ExclusionInv, Exclusion, TypeOK, OwnFile, SawNoPeer, LiveInstance, LockedSteps,
         KeyboardHasOneOwner, Shielded, Capturing, Proc

\* With snapshots that stay inside recovery's 24 h window, at most one process
\* holds an input tap, whatever the processes, crashes and failures.
THEOREM OneOwner == ASSUME ~MayAge PROVE Spec => []KeyboardHasOneOwner
  BY ExclusionGivesOneOwner, InitExclusionInv, NextExclusionInv, PTL DEF Spec

\* ... and runtime.json names every session that raises or holds a shield.
THEOREM ShieldIsVisible == ASSUME ~MayAge PROVE Spec => []LiveShieldIsPublished
<1>1. ExclusionInv => LiveShieldIsPublished
  BY DEF ExclusionInv, Exclusion, OwnFile, LiveShieldIsPublished
<1>2. QED
  BY <1>1, InitExclusionInv, NextExclusionInv, PTL DEF Spec

-----------------------------------------------------------------------------
(* The secret in force *)

\* No config has the secret that stands for a missing file.
LEMMA MissingIsNoConfig == Missing \notin Configs
  BY ProcAssumption DEF Missing, Configs, Secrets, Proc

\* A rewrite of a config is a config.
LEMMA RewritesAreConfigs ==
  ASSUME NEW c \in Configs
  PROVE  /\ [c EXCEPT !.current = TRUE] \in Configs
         /\ [c EXCEPT !.current = TRUE].secret = c.secret
         /\ \A s \in Setters : [c EXCEPT !.secret = s] \in Configs
  BY DEF Configs, Secrets

\* An existing config.yml is never mistaken for a missing one, and the bytes a
\* migration is about to write back are those of the file.
NoOldBytes ==
  /\ config # Missing
  /\ \A p \in Proc : pc[p] # "create"
  /\ \A p \in Proc : pc[p] = "migrating" => draft[p] = config

\* Initially no migration has read anything and no default is to be written.
LEMMA InitNoOldBytes == ASSUME ~FirstRun PROVE Init => NoOldBytes
  BY ProcAssumption DEF Init, NoOldBytes, Missing

\* What a migration has read is what config.yml says until it has renamed its
\* rewrite, because every other writer needs the lock.
LEMMA NextNoOldBytes ==
  ASSUME TypeOK, NoOldBytes, [Next]_vars
  PROVE  NoOldBytes'
<1> USE DEF TypeOK, NoOldBytes, LockedSteps, Goto, Take, Drop
<1>0. Shielders \subseteq Proc /\ Setters \subseteq Proc /\ Watchers \subseteq Shielders
      /\ "free" \notin Proc /\ "none" \notin Proc
  BY ProcAssumption DEF Proc, Shielders, NoPidFiles
<1> USE <1>0
<1>1. CASE UNCHANGED vars
  BY <1>1 DEF vars
<1>2. ASSUME NEW p \in Proc, WriteDefault(p)  PROVE NoOldBytes'
  BY <1>2 DEF WriteDefault
<1>3. ASSUME NEW p \in Proc, Granted(p)  PROVE NoOldBytes'
  BY <1>3 DEF Granted
<1>4. ASSUME NEW p \in Proc, Refuses(p) \/ Killed(p)  PROVE NoOldBytes'
  BY <1>4 DEF Refuses, Killed, Exit
<1>5. ASSUME NEW p \in Shielders, Load(p)  PROVE NoOldBytes'
  BY <1>5 DEF Load
<1>6. ASSUME NEW p \in Shielders, SkipMigration(p)  PROVE NoOldBytes'
  BY <1>6 DEF SkipMigration
<1>7. ASSUME NEW p \in Shielders, BeginMigration(p)  PROVE NoOldBytes'
  BY <1>7 DEF BeginMigration
<1>8. ASSUME NEW p \in Shielders, FinishMigration(p)  PROVE NoOldBytes'
  <2>1. draft[p] = config /\ config \in Configs
    BY <1>8 DEF FinishMigration
  <2>2. config' \in Configs
    BY <1>8, <2>1, RewritesAreConfigs DEF FinishMigration
  <2>3. QED
    BY <1>8, <2>2, MissingIsNoConfig DEF FinishMigration
<1>9. ASSUME NEW p \in Shielders, Reload(p)  PROVE NoOldBytes'
  BY <1>9 DEF Reload
<1>10. ASSUME NEW p \in Shielders, Precheck(p)  PROVE NoOldBytes'
  BY <1>10 DEF Precheck
<1>11. ASSUME NEW p \in Shielders, BeginRecovery(p)  PROVE NoOldBytes'
  BY <1>11 DEF BeginRecovery
<1>12. ASSUME NEW p \in Shielders, FinishRecovery(p)  PROVE NoOldBytes'
  BY <1>12 DEF FinishRecovery
<1>13. ASSUME NEW p \in Shielders, CleanupOrphans(p)  PROVE NoOldBytes'
  BY <1>13 DEF CleanupOrphans
<1>14. ASSUME NEW p \in Shielders, Acquire(p)  PROVE NoOldBytes'
  BY <1>14 DEF Acquire, Refuse
<1>15. ASSUME NEW p \in Shielders, EnterPublish(p)  PROVE NoOldBytes'
  BY <1>15 DEF EnterPublish, Refuse
<1>16. ASSUME NEW p \in Shielders, PeerRecheck(p)  PROVE NoOldBytes'
  BY <1>16 DEF PeerRecheck, Refuse
<1>17. ASSUME NEW p \in Shielders, CompareFingerprint(p)  PROVE NoOldBytes'
  BY <1>17 DEF CompareFingerprint, Refuse
<1>18. ASSUME NEW p \in Shielders, WriteRuntime(p)  PROVE NoOldBytes'
  BY <1>18 DEF WriteRuntime, Refuse
<1>19. ASSUME NEW p \in Shielders, Raise(p)  PROVE NoOldBytes'
  BY <1>19 DEF Raise
<1>20. ASSUME NEW p \in Shielders, Lower(p)  PROVE NoOldBytes'
  BY <1>20 DEF Lower
<1>21. ASSUME NEW p \in Shielders, Unassert(p)  PROVE NoOldBytes'
  BY <1>21 DEF Unassert
<1>22. ASSUME NEW p \in Shielders, Unpublish(p)  PROVE NoOldBytes'
  BY <1>22 DEF Unpublish
<1>23. ASSUME NEW p \in Watchers, Press(p)  PROVE NoOldBytes'
  BY <1>23 DEF Press
<1>24. ASSUME NEW s \in Setters, Prepare(s)  PROVE NoOldBytes'
  BY <1>24 DEF Prepare
<1>25. ASSUME NEW s \in Setters, Probe(s)  PROVE NoOldBytes'
  BY <1>25 DEF Probe
<1>26. ASSUME NEW s \in Setters, Claim(s)  PROVE NoOldBytes'
  BY <1>26 DEF Claim
<1>27. ASSUME NEW s \in Setters, Captured(s)  PROVE NoOldBytes'
  BY <1>27 DEF Captured
<1>28. ASSUME NEW s \in Setters, SaveUnlockHash(s)  PROVE NoOldBytes'
  <2>1. config' \in Configs
    BY <1>28, RewritesAreConfigs DEF SaveUnlockHash
  <2>2. QED
    BY <1>28, <2>1, MissingIsNoConfig DEF SaveUnlockHash, Exit
<1>29. CASE Age
  BY <1>29 DEF Age
<1>30. QED
  BY <1>1, <1>2, <1>3, <1>4, <1>5, <1>6, <1>7, <1>8, <1>9, <1>10, <1>11,
     <1>12, <1>13, <1>14, <1>15, <1>16, <1>17, <1>18, <1>19, <1>20, <1>21,
     <1>22, <1>23, <1>24, <1>25, <1>26, <1>27, <1>28, <1>29, NextActions

\* On a machine that has a config.yml, only a --set-password run that reached
\* its commit changes the secret in it.
THEOREM SecretChangesOnlyByCommit ==
  ASSUME ~FirstRun PROVE Spec => OnlySetPasswordChangesSecret
<1>1. Init => TypeOK /\ NoOldBytes
  BY InitTypeOK, InitNoOldBytes
<1>2. TypeOK /\ NoOldBytes /\ [Next]_vars => (TypeOK /\ NoOldBytes)'
  BY NextTypeOK, NextNoOldBytes
<1>3. TypeOK /\ NoOldBytes /\ [Next]_vars
        => [config # Missing /\ config'.secret # config.secret =>
              \E s \in Setters : pc[s] = "commit" /\ config'.secret = s]_vars
  <2> SUFFICES ASSUME TypeOK, NoOldBytes, Next,
                      config'.secret # config.secret
               PROVE  \E s \in Setters : pc[s] = "commit" /\ config'.secret = s
    BY DEF vars
  <2> Shielders \subseteq Proc /\ Setters \subseteq Proc
    BY DEF Proc
  <2>1. CASE \E s \in Setters : SaveUnlockHash(s)
    BY <2>1 DEF SaveUnlockHash, TypeOK, Configs, Missing
  <2>2. CASE \E p \in Shielders : FinishMigration(p)
    BY <2>2 DEF FinishMigration, TypeOK, NoOldBytes, Configs
  <2>3. CASE config' = config
    BY <2>3
  <2>4. config' = config \/ (\E s \in Setters : SaveUnlockHash(s))
                         \/ (\E p \in Shielders : FinishMigration(p))
    <3>1. \A p \in Proc : ~WriteDefault(p)
      BY DEF WriteDefault, NoOldBytes
    <3>2. QED
      BY <3>1, NextActions
      DEF Granted, Refuses, Killed, Load, SkipMigration, BeginMigration, Reload,
          Precheck, BeginRecovery, FinishRecovery, CleanupOrphans, Acquire,
          EnterPublish, PeerRecheck, CompareFingerprint, WriteRuntime, Raise, Lower,
          Unassert, Unpublish, Press, Prepare, Probe, Claim, Captured, Age
  <2>5. QED
    BY <2>1, <2>2, <2>3, <2>4
<1>4. QED
  BY <1>1, <1>2, <1>3, PTL DEF Spec, OnlySetPasswordChangesSecret

\* The verifier a session is about to raise its shield with is the one of
\* config.yml: the fingerprint matched under the lock, and since then every
\* --set-password has found the session in runtime.json.
ArmedIsCurrent ==
  /\ \A p \in Proc : pc[p] = "write" => loaded[p] = config
  /\ \A p \in Shielders :
       pc[p] \in {"raise", "shielded"} => loaded[p].secret = config.secret

SecretInv == ExclusionInv /\ NoOldBytes /\ ArmedIsCurrent

\* Every step keeps ArmedIsCurrent: a secret is replaced under the lock, by a
\* setter that has seen no peer, and compared under the lock before a Write.
LEMMA NextArmedIsCurrent ==
  ASSUME SecretInv, [Next]_vars
  PROVE  ArmedIsCurrent'
<1> USE DEF SecretInv, ExclusionInv, Exclusion, TypeOK, OwnFile, SawNoPeer,
            LiveInstance, NoOldBytes, ArmedIsCurrent, LockedSteps, Goto, Take, Drop
<1>0. Shielders \subseteq Proc /\ Setters \subseteq Proc /\ Watchers \subseteq Shielders
      /\ "free" \notin Proc /\ "none" \notin Proc
  BY ProcAssumption DEF Proc, Shielders, NoPidFiles
<1> USE <1>0
<1>1. CASE UNCHANGED vars
  BY <1>1 DEF vars
<1>2. ASSUME NEW p \in Proc, WriteDefault(p)  PROVE ArmedIsCurrent'
  BY <1>2 DEF WriteDefault
<1>3. ASSUME NEW p \in Proc, Granted(p)  PROVE ArmedIsCurrent'
  BY <1>3 DEF Granted
<1>4. ASSUME NEW p \in Proc, Refuses(p) \/ Killed(p)  PROVE ArmedIsCurrent'
  BY <1>4 DEF Refuses, Killed, Exit
<1>5. ASSUME NEW p \in Shielders, Load(p)  PROVE ArmedIsCurrent'
  BY <1>5 DEF Load
<1>6. ASSUME NEW p \in Shielders, SkipMigration(p)  PROVE ArmedIsCurrent'
  BY <1>6 DEF SkipMigration
<1>7. ASSUME NEW p \in Shielders, BeginMigration(p)  PROVE ArmedIsCurrent'
  BY <1>7 DEF BeginMigration
<1>8. ASSUME NEW p \in Shielders, FinishMigration(p)  PROVE ArmedIsCurrent'
  <2>1. config'.secret = config.secret
    BY <1>8, RewritesAreConfigs DEF FinishMigration
  <2>2. \A q \in Proc : q # p => pc[q] # "write" /\ pc'[q] = pc[q]
    BY <1>8 DEF FinishMigration
  <2>3. QED
    BY <1>8, <2>1, <2>2 DEF FinishMigration
<1>9. ASSUME NEW p \in Shielders, Reload(p)  PROVE ArmedIsCurrent'
  BY <1>9 DEF Reload
<1>10. ASSUME NEW p \in Shielders, Precheck(p)  PROVE ArmedIsCurrent'
  BY <1>10 DEF Precheck
<1>11. ASSUME NEW p \in Shielders, BeginRecovery(p)  PROVE ArmedIsCurrent'
  BY <1>11 DEF BeginRecovery
<1>12. ASSUME NEW p \in Shielders, FinishRecovery(p)  PROVE ArmedIsCurrent'
  BY <1>12 DEF FinishRecovery
<1>13. ASSUME NEW p \in Shielders, CleanupOrphans(p)  PROVE ArmedIsCurrent'
  BY <1>13 DEF CleanupOrphans
<1>14. ASSUME NEW p \in Shielders, Acquire(p)  PROVE ArmedIsCurrent'
  BY <1>14 DEF Acquire, Refuse
<1>15. ASSUME NEW p \in Shielders, EnterPublish(p)  PROVE ArmedIsCurrent'
  BY <1>15 DEF EnterPublish, Refuse
<1>16. ASSUME NEW p \in Shielders, PeerRecheck(p)  PROVE ArmedIsCurrent'
  BY <1>16 DEF PeerRecheck, Refuse
<1>17. ASSUME NEW p \in Shielders, CompareFingerprint(p)  PROVE ArmedIsCurrent'
  BY <1>17 DEF CompareFingerprint, Refuse
<1>18. ASSUME NEW p \in Shielders, WriteRuntime(p)  PROVE ArmedIsCurrent'
  BY <1>18 DEF WriteRuntime, Refuse
<1>19. ASSUME NEW p \in Shielders, Raise(p)  PROVE ArmedIsCurrent'
  BY <1>19 DEF Raise
<1>20. ASSUME NEW p \in Shielders, Lower(p)  PROVE ArmedIsCurrent'
  BY <1>20 DEF Lower
<1>21. ASSUME NEW p \in Shielders, Unassert(p)  PROVE ArmedIsCurrent'
  BY <1>21 DEF Unassert
<1>22. ASSUME NEW p \in Shielders, Unpublish(p)  PROVE ArmedIsCurrent'
  BY <1>22 DEF Unpublish
<1>23. ASSUME NEW p \in Watchers, Press(p)  PROVE ArmedIsCurrent'
  BY <1>23 DEF Press
<1>24. ASSUME NEW s \in Setters, Prepare(s)  PROVE ArmedIsCurrent'
  BY <1>24 DEF Prepare
<1>25. ASSUME NEW s \in Setters, Probe(s)  PROVE ArmedIsCurrent'
  BY <1>25 DEF Probe
<1>26. ASSUME NEW s \in Setters, Claim(s)  PROVE ArmedIsCurrent'
  BY <1>26 DEF Claim
<1>27. ASSUME NEW s \in Setters, Captured(s)  PROVE ArmedIsCurrent'
  BY <1>27 DEF Captured
<1>28. ASSUME NEW s \in Setters, SaveUnlockHash(s)  PROVE ArmedIsCurrent'
  BY <1>28 DEF SaveUnlockHash, Exit
<1>29. CASE Age
  BY <1>29 DEF Age
<1>30. QED
  BY <1>1, <1>2, <1>3, <1>4, <1>5, <1>6, <1>7, <1>8, <1>9, <1>10, <1>11,
     <1>12, <1>13, <1>14, <1>15, <1>16, <1>17, <1>18, <1>19, <1>20, <1>21,
     <1>22, <1>23, <1>24, <1>25, <1>26, <1>27, <1>28, <1>29, NextActions

\* The three invariants together hold in every reachable state.
LEMMA SecretInvariant == ASSUME ~MayAge, ~FirstRun PROVE Spec => []SecretInv
<1>1. Init => SecretInv
  BY InitExclusionInv, InitNoOldBytes, ProcAssumption
     DEF SecretInv, ArmedIsCurrent, Init, Shielders, Proc
<1>2. SecretInv /\ [Next]_vars => SecretInv'
  BY NextExclusionInv, NextNoOldBytes, NextArmedIsCurrent DEF SecretInv, ExclusionInv
<1>3. QED
  BY <1>1, <1>2, PTL DEF Spec

\* A shield always answers to the secret config.yml names.
THEOREM ShieldIsCurrent ==
  ASSUME ~MayAge, ~FirstRun PROVE Spec => []ShieldAnswersToConfig
<1>1. SecretInv => ShieldAnswersToConfig
  BY DEF SecretInv, ArmedIsCurrent, ShieldAnswersToConfig, Shielded
<1>2. QED
  BY <1>1, SecretInvariant, PTL
-----------------------------------------------------------------------------
(* Refinement of KeyboardOwner *)

\* What the mapping says of a state with one owner of the keyboard.
OwnerFollows ==
  /\ \A p \in Proc : Shielded(p) => Owner = <<p, "shield">> /\ Armed = {loaded[p].secret}
  /\ \A p \in Proc : Capturing(p) => Owner = <<p, "capture">> /\ Armed = {}
  /\ (\A p \in Proc : ~Shielded(p) /\ ~Capturing(p))
       => Owner = Keyboard!Nobody /\ Armed = {}

\* With one owner at most, Owner is that process.
LEMMA OwnerIs == KeyboardHasOneOwner => OwnerFollows
<1> SUFFICES ASSUME KeyboardHasOneOwner PROVE OwnerFollows
  OBVIOUS
<1> DEFINE holders == {p \in Proc : Shielded(p) \/ Capturing(p)}
<1>1. ASSUME NEW p \in Proc, Shielded(p) \/ Capturing(p)
      PROVE  Owner = <<p, IF Shielded(p) THEN "shield" ELSE "capture">>
  <2>1. holders = {p}
    BY <1>1 DEF KeyboardHasOneOwner
  <2>2. holders # {} /\ (CHOOSE q \in holders : TRUE) = p
    BY <2>1
  <2>3. QED
    BY <2>2 DEF Owner
<1>2. ASSUME NEW p \in Proc, Shielded(p)  PROVE Armed = {loaded[p].secret}
  <2>1. p \in Shielders /\ {q \in Shielders : Shielded(q)} = {p}
    BY <1>2 DEF KeyboardHasOneOwner, Shielded, Proc
  <2>2. QED
    BY <2>1 DEF Armed
<1>3. ASSUME \A q \in Proc : ~Shielded(q)  PROVE Armed = {}
  BY <1>3 DEF Armed, Proc
<1>4. ASSUME NEW p \in Proc, Capturing(p)  PROVE \A q \in Proc : ~Shielded(q)
  BY <1>4 DEF KeyboardHasOneOwner, Capturing, Shielded
<1>5. ASSUME \A p \in Proc : ~Shielded(p) /\ ~Capturing(p)  PROVE Owner = Keyboard!Nobody
  BY <1>5 DEF Owner, Keyboard!Nobody
<1>6. QED
  BY <1>1, <1>2, <1>3, <1>4, <1>5 DEF OwnerFollows

\* The initial states map to initial states of KeyboardOwner.
LEMMA InitRefines == ASSUME ~FirstRun PROVE Init => Keyboard!Init
<1> SUFFICES ASSUME Init PROVE Keyboard!Init
  OBVIOUS
<1>1. \A p \in Proc : ~Shielded(p) /\ ~Capturing(p)
  BY DEF Init, Shielded, Capturing
<1>2. KeyboardHasOneOwner
  BY <1>1 DEF KeyboardHasOneOwner
<1>3. config.secret \in Secrets
  BY DEF Init, Secrets
<1>4. QED
  BY <1>1, <1>2, <1>3, OwnerIs DEF Keyboard!Init, OwnerFollows

\* A step that moves no tap, leaves the verifier of a raised shield alone and
\* keeps the secret is a stutter of KeyboardOwner.
LEMMA StutterRefines ==
  ASSUME KeyboardHasOneOwner, KeyboardHasOneOwner',
         \A p \in Proc : Shielded(p)' = Shielded(p) /\ Capturing(p)' = Capturing(p),
         \A p \in Proc : Shielded(p) => loaded'[p] = loaded[p],
         config'.secret = config.secret
  PROVE  UNCHANGED Keyboard!keyboard
<1>1. KeyboardHasOneOwner' => OwnerFollows'
  BY OwnerIs, PTL
<1>2. CASE \E p \in Proc : Shielded(p)
  BY <1>1, <1>2, OwnerIs DEF OwnerFollows, Keyboard!keyboard
<1>3. CASE \E p \in Proc : Capturing(p)
  BY <1>1, <1>3, OwnerIs DEF OwnerFollows, Keyboard!keyboard
<1>4. CASE \A p \in Proc : ~Shielded(p) /\ ~Capturing(p)
  BY <1>1, <1>4, OwnerIs DEF OwnerFollows, Keyboard!keyboard, Keyboard!Nobody
<1>5. QED
  BY <1>2, <1>3, <1>4

\* The part of a step that concerns the taps, the verifiers in use and the
\* secret in force.
TapsStay ==
  /\ \A p \in Proc : Shielded(p)' = Shielded(p) /\ Capturing(p)' = Capturing(p)
  /\ \A p \in Proc : Shielded(p) => loaded'[p] = loaded[p]
  /\ config'.secret = config.secret

\* Every other step is such a stutter.
LEMMA OtherStepsMoveNoTap ==
  ASSUME TypeOK, NoOldBytes, NEW p \in Proc,
         \/ WriteDefault(p) \/ Granted(p)
         \/ p \in Shielders /\
              \/ Load(p) \/ SkipMigration(p) \/ BeginMigration(p) \/ FinishMigration(p)
              \/ Reload(p) \/ Precheck(p) \/ BeginRecovery(p) \/ FinishRecovery(p)
              \/ CleanupOrphans(p) \/ Acquire(p) \/ EnterPublish(p) \/ PeerRecheck(p)
              \/ CompareFingerprint(p) \/ WriteRuntime(p) \/ Unassert(p) \/ Unpublish(p)
              \/ Press(p)
         \/ p \in Setters /\ (Prepare(p) \/ Claim(p))
         \/ Age
  PROVE  TapsStay
<1> USE DEF TypeOK, TapsStay, Shielded, Capturing, Goto, Take, Drop
<1>1. CASE WriteDefault(p)
  BY <1>1 DEF WriteDefault, NoOldBytes
<1>2. CASE Granted(p)
  BY <1>2 DEF Granted
<1>3. CASE Load(p)
  BY <1>3 DEF Load
<1>4. CASE SkipMigration(p)
  BY <1>4 DEF SkipMigration
<1>5. CASE BeginMigration(p)
  BY <1>5 DEF BeginMigration
<1>6. CASE FinishMigration(p)
  <2>1. config'.secret = config.secret
    BY <1>6, RewritesAreConfigs DEF FinishMigration, NoOldBytes
  <2>2. QED
    BY <1>6, <2>1 DEF FinishMigration
<1>7. CASE Reload(p)
  BY <1>7 DEF Reload
<1>8. CASE Precheck(p)
  BY <1>8 DEF Precheck
<1>9. CASE BeginRecovery(p)
  BY <1>9 DEF BeginRecovery
<1>10. CASE FinishRecovery(p)
  BY <1>10 DEF FinishRecovery
<1>11. CASE CleanupOrphans(p)
  BY <1>11 DEF CleanupOrphans
<1>12. CASE Acquire(p)
  BY <1>12 DEF Acquire, Refuse
<1>13. CASE EnterPublish(p)
  BY <1>13 DEF EnterPublish, Refuse
<1>14. CASE PeerRecheck(p)
  BY <1>14 DEF PeerRecheck, Refuse
<1>15. CASE CompareFingerprint(p)
  BY <1>15 DEF CompareFingerprint, Refuse
<1>16. CASE WriteRuntime(p)
  BY <1>16 DEF WriteRuntime, Refuse
<1>17. CASE Unassert(p)
  BY <1>17 DEF Unassert
<1>18. CASE Unpublish(p)
  BY <1>18 DEF Unpublish
<1>19. CASE Press(p)
  BY <1>19 DEF Press
<1>20. CASE Prepare(p)
  BY <1>20 DEF Prepare
<1>21. CASE Claim(p)
  BY <1>21 DEF Claim
<1>22. CASE Age
  BY <1>22 DEF Age
<1>23. QED
  BY <1>1, <1>2, <1>3, <1>4, <1>5, <1>6, <1>7, <1>8, <1>9, <1>10, <1>11,
     <1>12, <1>13, <1>14, <1>15, <1>16, <1>17, <1>18, <1>19, <1>20, <1>21,
     <1>22

\* Every step maps to a step of KeyboardOwner or to a stutter.
LEMMA NextRefines ==
  ASSUME SecretInv, KeyboardHasOneOwner, KeyboardHasOneOwner', TypeOK', [Next]_vars
  PROVE  [Keyboard!Next]_(Keyboard!keyboard)
<1> USE DEF SecretInv, ExclusionInv, Exclusion
<1>0. OwnerFollows /\ (KeyboardHasOneOwner' => OwnerFollows')
  BY OwnerIs, PTL
<1>00. OwnerFollows'
  BY <1>0
<1> DEFINE Nobody == \A p \in Proc : ~Shielded(p) /\ ~Capturing(p)
<1>1. ASSUME TapsStay  PROVE UNCHANGED Keyboard!keyboard
  BY <1>1, StutterRefines DEF TapsStay
<1>2. CASE UNCHANGED vars
  <2>1. TapsStay
    BY <1>2 DEF vars, TapsStay, Shielded, Capturing
  <2>2. QED
    BY <1>1, <2>1
<1>3. ASSUME NEW p \in Shielders, Raise(p)  PROVE [Keyboard!Next]_(Keyboard!keyboard)
  <2>1. CASE Goto(p, "unassert")
    <3>1. TapsStay
      BY <1>3, <2>1 DEF Raise, Goto, TypeOK, TapsStay, Shielded, Capturing
    <3>2. QED
      BY <1>1, <3>1
  <2>2. CASE Goto(p, "shielded")
    <3>1. Nobody
      BY <1>3 DEF Raise, OwnFile, SawNoPeer, LiveInstance, Shielded, Capturing, Proc
    <3>2. Shielded(p)' /\ p \in Proc
      BY <1>3, <2>2 DEF Goto, TypeOK, Shielded, Proc
    <3>3. Owner = Keyboard!Nobody /\ Owner' = <<p, "shield">>
      BY <1>0, <1>00, <3>1, <3>2 DEF OwnerFollows
    <3>4. Armed' = {config.secret} /\ config' = config
      BY <1>3, <1>00, <3>2 DEF OwnerFollows, Raise, ArmedIsCurrent
    <3>5. QED
      BY <3>3, <3>4 DEF Keyboard!Next, Keyboard!RaiseShield
  <2>3. QED
    BY <1>3, <2>1, <2>2 DEF Raise
<1>4. ASSUME NEW s \in Setters, Probe(s)  PROVE [Keyboard!Next]_(Keyboard!keyboard)
  <2>1. CASE pc[s] # "probe2"
    <3>1. TapsStay
      BY <1>4, <2>1 DEF Probe, Goto, TypeOK, TapsStay, Shielded, Capturing
    <3>2. QED
      BY <1>1, <3>1
  <2>2. CASE pc[s] = "probe2"
    <3>1. Nobody
      BY <1>4, <2>2 DEF Probe, NoPeer, OwnFile, LiveInstance, TypeOK, LockedSteps,
                        Shielded, Capturing, Proc
    <3>2. Capturing(s)' /\ s \in Proc /\ config' = config
      BY <1>4, <2>2 DEF Probe, Goto, TypeOK, Capturing, Proc
    <3>3. /\ Owner = Keyboard!Nobody /\ Owner' = <<s, "capture">>
          /\ Armed = {} /\ Armed' = {}
      BY <1>0, <1>00, <3>1, <3>2 DEF OwnerFollows
    <3>4. QED
      BY <3>2, <3>3 DEF Keyboard!Next, Keyboard!BeginCapture
  <2>3. QED
    BY <2>1, <2>2
<1>5. ASSUME NEW p \in Proc, Shielded(p) \/ Capturing(p),
             \A q \in Proc : q # p => pc'[q] = pc[q],
             ~Shielded(p)' /\ ~Capturing(p)', config' = config
      PROVE  [Keyboard!Next]_(Keyboard!keyboard)
  <2>1. \A q \in Proc : ~Shielded(q)' /\ ~Capturing(q)'
    BY <1>5 DEF KeyboardHasOneOwner, Shielded, Capturing
  <2>2. Owner' = Keyboard!Nobody /\ Armed' = {}
    BY <1>00, <2>1 DEF OwnerFollows
  <2>3. Owner # Keyboard!Nobody
    BY <1>0, <1>5 DEF OwnerFollows, Keyboard!Nobody
  <2>4. QED
    BY <1>5, <2>2, <2>3 DEF Keyboard!Next, Keyboard!LetGo
<1>6. ASSUME NEW p \in Proc, Refuses(p) \/ Killed(p) \/ (p \in Shielders /\ Lower(p))
                             \/ (p \in Setters /\ Captured(p))
      PROVE  [Keyboard!Next]_(Keyboard!keyboard)
  <2>1. /\ \A q \in Proc : q # p => pc'[q] = pc[q] /\ loaded'[q] = loaded[q]
        /\ ~Shielded(p)' /\ ~Capturing(p)' /\ config' = config
    BY <1>6 DEF Refuses, Killed, Lower, Captured, Exit, Goto, TypeOK, Shielded, Capturing
  <2>2. CASE Shielded(p) \/ Capturing(p)
    BY <2>1, <2>2, <1>5
  <2>3. CASE ~Shielded(p) /\ ~Capturing(p)
    <3>1. TapsStay
      BY <2>1, <2>3 DEF TapsStay, Shielded, Capturing
    <3>2. QED
      BY <1>1, <3>1
  <2>4. QED
    BY <2>2, <2>3
<1>7. ASSUME NEW s \in Setters, SaveUnlockHash(s)  PROVE [Keyboard!Next]_(Keyboard!keyboard)
  <2>1. Nobody
    BY <1>7 DEF SaveUnlockHash, OwnFile, SawNoPeer, LiveInstance, TypeOK, LockedSteps,
                Shielded, Capturing, Proc
  <2>2. \A q \in Proc : ~Shielded(q)' /\ ~Capturing(q)'
    BY <1>7, <2>1 DEF SaveUnlockHash, Exit, Goto, TypeOK, Shielded, Capturing
  <2>3. /\ Owner = Keyboard!Nobody /\ Owner' = Keyboard!Nobody
        /\ Armed = {} /\ Armed' = {}
    BY <1>0, <1>00, <2>1, <2>2 DEF OwnerFollows
  <2>4. config'.secret \in Secrets
    BY <1>7, RewritesAreConfigs DEF SaveUnlockHash, TypeOK, NoOldBytes, Configs
  <2>5. QED
    BY <2>3, <2>4 DEF Keyboard!Next, Keyboard!ReplaceSecret
<1>8. CASE Next
  <2>0. Shielders \subseteq Proc /\ Setters \subseteq Proc /\ Watchers \subseteq Shielders
    BY DEF Proc, Shielders
  <2>1. ASSUME NEW p \in Proc,
         \/ WriteDefault(p) \/ Granted(p)
         \/ p \in Shielders /\
              \/ Load(p) \/ SkipMigration(p) \/ BeginMigration(p) \/ FinishMigration(p)
              \/ Reload(p) \/ Precheck(p) \/ BeginRecovery(p) \/ FinishRecovery(p)
              \/ CleanupOrphans(p) \/ Acquire(p) \/ EnterPublish(p) \/ PeerRecheck(p)
              \/ CompareFingerprint(p) \/ WriteRuntime(p) \/ Unassert(p) \/ Unpublish(p)
              \/ Press(p)
         \/ p \in Setters /\ (Prepare(p) \/ Claim(p))
         PROVE  UNCHANGED Keyboard!keyboard
    BY <2>1, <1>1, OtherStepsMoveNoTap
  <2>2. ASSUME Age  PROVE UNCHANGED Keyboard!keyboard
    BY <2>2, <1>1 DEF Age, TapsStay, Shielded, Capturing
  <2>3. QED
    BY <1>8, <2>0, <1>3, <1>4, <1>6, <1>7, <2>1, <2>2, NextActions
<1>9. QED
  BY <1>2, <1>1, <1>8

\* The processes, the flock and the files implement KeyboardOwner on a machine
\* that has a config.yml, while snapshots stay inside recovery's window.
THEOREM Refinement ==
  ASSUME ~MayAge, ~FirstRun PROVE Spec => ImplementsKeyboardOwner
<1>1. Init => Keyboard!Init
  BY InitRefines
<1>2. SecretInv /\ SecretInv' /\ [Next]_vars => [Keyboard!Next]_(Keyboard!keyboard)
  <2>1. ExclusionInv => KeyboardHasOneOwner
    BY ExclusionGivesOneOwner
  <2>2. ExclusionInv' => KeyboardHasOneOwner'
    BY ExclusionGivesOneOwner, PTL
  <2>3. QED
    BY <2>1, <2>2, NextRefines DEF SecretInv, ExclusionInv
<1>3. Spec => []SecretInv
  BY SecretInvariant
<1>4. QED
  BY <1>1, <1>2, <1>3, PTL DEF Spec, ImplementsKeyboardOwner, Keyboard!Spec
==============================================================================
