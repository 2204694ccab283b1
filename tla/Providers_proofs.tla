-------------------------- MODULE Providers_proofs --------------------------
(* Providers, for any limit and any number of calls, drivers, releases,       *)
(* installers and lines: how a session is started, and what passes through it *)
(* once it runs.                                                              *)
EXTENDS ProviderStart, ProviderSession, FiniteSetTheorems, SequenceTheorems, TLAPS

-----------------------------------------------------------------------------
(* The start.  PsStartKept is the sum of three arguments that share no        *)
(* variable but the calls: the limiter's count, what children were told, and  *)
(* which release a program comes from.                                        *)
PsStages == {"idle", "counted", "resolve", "spawn", "tell", "session"}
PsLines ==
  {"initialize", "auto", "ask"}
  \cup {<<"session/new", AcpMode(m)>> : m \in PsModes}
  \cup {<<"thread/start", CodexPolicy(m)>> : m \in PsModes}

PsRecords ==
  [kind : PsKinds \cup {"none"}, mode : PsModes \cup {"none"}, at : PsStages, seen : Int,
   program : {"none", "elsewhere"} \cup PsReleases, told : Seq(PsLines)]

PsFileStates == {"absent", "torn", "whole"}
PsTyped ==
  /\ psCall \in [PsCalls -> PsRecords]
  /\ psCount \in Int
  /\ psChild \in [PsCalls -> {"none", Gone} \cup PsFileStates]
  /\ psFiles \in [PsReleases -> PsFileStates \X PsFileStates]
  /\ psActive \in {"none", "torn"} \cup PsReleases
  /\ psInstall \in [PsInstallers -> [release : {"none"} \cup PsReleases, step : Nat]]
  /\ \A c \in PsCalls :
       /\ psCall[c].at # "idle" => psCall[c].kind \in PsKinds /\ psCall[c].mode \in PsModes
       /\ psCall[c].at = "spawn" => psCall[c].program \in {"elsewhere"} \cup PsReleases

-----------------------------------------------------------------------------
(* The limiter.  Of any calls that are counted, one was counted last and saw  *)
(* all the others; were there more than the limit, it would not have been let *)
(* through.                                                                   *)
PsHolders == {c \in PsCalls : Holds(c)}
PsCounted == {c \in PsCalls : psCall[c].at = "counted"}

PsCounts == psCount = Cardinality(PsHolders) + Cardinality(PsCounted)
PsLastSaw ==
  \A B \in SUBSET (PsHolders \cup PsCounted) : B # {} => \E c \in B : psCall[c].seen + 1 >= Cardinality(B)
PsLetThrough == \A c \in PsHolders : psCall[c].seen < PsLimit
PsOnlyCounted == \A c \in PsCounted : psCall[c].kind = "antigravity"

PsLimiter == PsCounts /\ PsLastSaw /\ PsLetThrough /\ PsOnlyCounted

LEMMA PsFinite ==
  /\ \A B \in SUBSET PsCalls : IsFiniteSet(B) /\ Cardinality(B) \in Nat
  /\ \A A \in SUBSET PsCalls : \A B \in SUBSET A : Cardinality(B) <= Cardinality(A)
  /\ \A B \in SUBSET PsCalls : \A c \in PsCalls :
       /\ c \notin B => Cardinality(B \cup {c}) = Cardinality(B) + 1
       /\ c \in B => Cardinality(B \ {c}) = Cardinality(B) - 1
<1>1. \A B \in SUBSET PsCalls : IsFiniteSet(B)
  BY PsAssumption, FS_Subset
<1>2. \A B \in SUBSET PsCalls : Cardinality(B) \in Nat
  BY <1>1, FS_CardinalityType
<1>3. \A A \in SUBSET PsCalls : \A B \in SUBSET A : Cardinality(B) <= Cardinality(A)
  BY <1>1, FS_Subset
<1>4. ASSUME NEW B \in SUBSET PsCalls, NEW c \in PsCalls
      PROVE  /\ c \notin B => Cardinality(B \cup {c}) = Cardinality(B) + 1
             /\ c \in B => Cardinality(B \ {c}) = Cardinality(B) - 1
  BY <1>1, FS_AddElement, FS_RemoveElement
<1> QED
  BY <1>1, <1>2, <1>3, <1>4

(* A call that is counted saw all that were counted before.                   *)
LEMMA PsCountUp ==
  ASSUME PsTyped, PsLimiter, NEW c \in PsCalls, c \notin PsHolders \cup PsCounted,
         PsHolders' = PsHolders, PsCounted' = PsCounted \cup {c},
         psCount' = psCount + 1,
         psCall'[c].seen = psCount, psCall'[c].kind = "antigravity",
         \A d \in PsCalls : d # c => psCall'[d] = psCall[d]
  PROVE  PsLimiter'
<1>1. PsHolders \in SUBSET PsCalls /\ PsCounted \in SUBSET PsCalls
  BY DEF PsHolders, PsCounted
<1>2. PsCounts'
  BY <1>1, PsFinite DEF PsLimiter, PsCounts, PsTyped
<1>3. PsLetThrough' /\ PsOnlyCounted'
  BY <1>1 DEF PsLimiter, PsLetThrough, PsOnlyCounted
<1>4. PsLastSaw'
  <2> SUFFICES ASSUME NEW B \in SUBSET (PsHolders \cup PsCounted \cup {c}), B # {}
               PROVE  \E d \in B : psCall'[d].seen + 1 >= Cardinality(B)
    BY DEF PsLastSaw
  <2>1. CASE c \in B
    <3>1. B \ {c} \in SUBSET (PsHolders \cup PsCounted) /\ B \in SUBSET PsCalls
      BY <1>1
    <3>2. Cardinality(B \ {c}) = Cardinality(B) - 1 /\ Cardinality(B) \in Nat
      BY <2>1, <3>1, PsFinite
    <3>3. /\ Cardinality(B \ {c}) <= Cardinality(PsHolders \cup PsCounted)
          /\ Cardinality(B \ {c}) \in Nat
      BY <1>1, <3>1, PsFinite
    <3>4. Cardinality(PsHolders \cup PsCounted) = psCount
      <4>1. PsHolders \cap PsCounted = {}
        BY DEF PsHolders, PsCounted, Holds
      <4>2. /\ IsFiniteSet(PsHolders) /\ IsFiniteSet(PsCounted)
            /\ Cardinality(PsHolders) \in Nat /\ Cardinality(PsCounted) \in Nat
        BY <1>1, PsFinite
      <4>3. Cardinality(PsHolders \cup PsCounted)
              = Cardinality(PsHolders) + Cardinality(PsCounted) - Cardinality(PsHolders \cap PsCounted)
        BY <4>2, FS_Union
      <4>4. Cardinality(PsHolders \cap PsCounted) = 0
        BY <4>1, FS_EmptySet
      <4> QED BY <4>2, <4>3, <4>4 DEF PsLimiter, PsCounts
    <3>5. psCount \in Int
      BY DEF PsTyped
    <3> QED BY <2>1, <3>2, <3>3, <3>4, <3>5
  <2>2. CASE c \notin B
    <3>1. B \in SUBSET (PsHolders \cup PsCounted) /\ B \in SUBSET PsCalls
      BY <1>1, <2>2
    <3>2. PICK d \in B : psCall[d].seen + 1 >= Cardinality(B)
      BY <3>1 DEF PsLimiter, PsLastSaw
    <3>3. psCall'[d] = psCall[d]
      BY <2>2, <3>1
    <3> QED BY <3>2, <3>3
  <2> QED BY <2>1, <2>2
<1> QED
  BY <1>2, <1>3, <1>4 DEF PsLimiter

(* Calls that stay counted, or leave: what was seen then is seen still.       *)
LEMMA PsFewerSaw ==
  ASSUME PsLastSaw, PsHolders' \cup PsCounted' \subseteq PsHolders \cup PsCounted,
         \A d \in PsHolders' \cup PsCounted' : psCall'[d].seen = psCall[d].seen
  PROVE  PsLastSaw'
<1> SUFFICES ASSUME NEW B \in SUBSET (PsHolders' \cup PsCounted'), B # {}
             PROVE  \E d \in B : psCall'[d].seen + 1 >= Cardinality(B)
  BY DEF PsLastSaw
<1>1. PICK d \in B : psCall[d].seen + 1 >= Cardinality(B)
  BY DEF PsLastSaw
<1> QED
  BY <1>1

LEMMA PsCountKept ==
  ASSUME PsLimiter, NEW c \in PsCalls,
         \A d \in PsCalls : d # c => psCall'[d] = psCall[d],
         Holds(c)' <=> Holds(c), psCall'[c].at = "counted" <=> psCall[c].at = "counted",
         psCall[c].at = "counted" => psCall'[c].kind = psCall[c].kind,
         Holds(c) \/ psCall[c].at = "counted" => psCall'[c].seen = psCall[c].seen,
         psCount' = psCount
  PROVE  PsLimiter'
<1>1. PsHolders' = PsHolders /\ PsCounted' = PsCounted
  BY DEF PsHolders, PsCounted, Holds
<1>2. \A d \in PsHolders \cup PsCounted : psCall'[d].seen = psCall[d].seen
  BY DEF PsHolders, PsCounted, Holds
<1>3. PsLastSaw'
  BY <1>1, <1>2, PsFewerSaw DEF PsLimiter
<1>4. PsCounts' /\ PsLetThrough'
  BY <1>1, <1>2 DEF PsLimiter, PsCounts, PsLetThrough
<1>5. PsOnlyCounted'
  BY <1>1 DEF PsLimiter, PsOnlyCounted, PsCounted
<1> QED
  BY <1>3, <1>4, <1>5 DEF PsLimiter

(* What the invariant gives: never more than the limit are let through.       *)
LEMMA PsLimitKept ==
  ASSUME PsTyped, PsLimiter
  PROVE  Cardinality(PsHolders) <= PsLimit
<1>1. PsHolders \in SUBSET PsCalls /\ Cardinality(PsHolders) \in Nat
  BY PsFinite DEF PsHolders
<1>0. PsLimit \in Nat
  BY PsAssumption
<1>2. CASE PsHolders = {}
  <2>1. Cardinality(PsHolders) = 0
    BY <1>2, FS_EmptySet
  <2> QED BY <1>0, <2>1
<1>3. CASE PsHolders # {}
  <2>1. PICK c \in PsHolders : psCall[c].seen + 1 >= Cardinality(PsHolders)
    BY <1>3 DEF PsLimiter, PsLastSaw
  <2>2. psCall[c].seen < PsLimit /\ psCall[c].seen \in Int
    BY <1>1 DEF PsLimiter, PsLetThrough, PsTyped, PsRecords
  <2> QED BY <1>0, <1>1, <2>1, <2>2
<1> QED
  BY <1>2, <1>3

-----------------------------------------------------------------------------
(* Types.                                                                     *)
LEMMA PsHandshakeIsLines ==
  ASSUME NEW kind \in PsKinds, NEW mode \in PsModes
  PROVE  Handshake(kind, mode) \in Seq(PsLines)
<1>1. AcpHandshake(mode) \in Seq(PsLines)
  <2>1. "initialize" \in PsLines /\ <<"session/new", AcpMode(mode)>> \in PsLines
    BY DEF PsLines
  <2> QED BY <2>1 DEF AcpHandshake
<1>2. <<<<"thread/start", CodexPolicy(mode)>>>> \in Seq(PsLines)
  <2>1. <<"thread/start", CodexPolicy(mode)>> \in PsLines
    BY DEF PsLines
  <2> QED BY <2>1
<1>3. <<ClaudeMode(mode)>> \in Seq(PsLines)
  <2>1. ClaudeMode(mode) \in PsLines
    BY DEF ClaudeMode, PsLines
  <2> QED BY <2>1
<1>4. << >> \in Seq(PsLines)
  OBVIOUS
<1>5. kind \in {"antigravity", "grok", "cursor", "codex", "claude", "opencode", "opencode serve"}
  BY PsAssumption
<1> QED
  BY <1>1, <1>2, <1>3, <1>4, <1>5
     DEF Handshake, LaunchOf, Launch, AntigravityLaunch, GrokLaunch, CursorLaunch, CodexLaunch, ClaudeLaunch,
         OpenCodeLaunch

LEMMA PsTypedAtFirst == PsInit => PsTyped
  BY DEF PsInit, PsTyped, PsRecords, PsStages, PsLines, PsFileStates, NoCall, NoInstall

LEMMA PsTypedCalls ==
  ASSUME PsTyped, NEW c \in PsCalls, NEW call \in PsRecords,
         call.at # "idle" => call.kind \in PsKinds /\ call.mode \in PsModes,
         call.at = "spawn" => call.program \in {"elsewhere"} \cup PsReleases,
         psCall' = [psCall EXCEPT ![c] = call],
         psCount' \in Int, psChild' \in [PsCalls -> {"none", Gone} \cup PsFileStates],
         UNCHANGED <<psFiles, psActive, psInstall>>
  PROVE  PsTyped'
  BY DEF PsTyped

LEMMA PsTypedKept == PsTyped /\ [PsNext]_psVars => PsTyped'
<1> SUFFICES ASSUME PsTyped, [PsNext]_psVars PROVE PsTyped'
  OBVIOUS
<1>0. NoCall \in PsRecords /\ NoCall.at = "idle"
  BY DEF NoCall, PsRecords, PsStages
<1>a. ASSUME NEW c \in PsCalls PROVE psCall[c] \in PsRecords /\ Released(c) \in Int
  BY DEF PsTyped, Released
<1>1. ASSUME NEW c \in PsCalls, PsBegin(c) PROVE PsTyped'
  <2>1. PICK kind \in PsKinds, mode \in PsModes :
          /\ psCall' = [psCall EXCEPT ![c] = [NoCall EXCEPT !.kind = kind, !.mode = mode,
                          !.at = IF kind = "antigravity" THEN "counted" ELSE "resolve", !.seen = psCount]]
          /\ psCount' = IF kind = "antigravity" THEN psCount + 1 ELSE psCount
          /\ UNCHANGED <<psChild, psFiles, psActive, psInstall>>
    BY <1>1 DEF PsBegin
  <2> DEFINE call == [NoCall EXCEPT !.kind = kind, !.mode = mode,
                        !.at = IF kind = "antigravity" THEN "counted" ELSE "resolve", !.seen = psCount]
  <2>2. /\ call \in PsRecords /\ call.kind = kind /\ call.mode = mode
        /\ call.at \in {"counted", "resolve"}
    <3>1. psCount \in Int /\ NoCall \in PsRecords
      BY <1>0 DEF PsTyped
    <3> QED BY <3>1 DEF PsRecords, PsStages, NoCall
  <2>3. psCount' \in Int /\ psChild' \in [PsCalls -> {"none", Gone} \cup PsFileStates]
    BY <2>1 DEF PsTyped
  <2> HIDE DEF call
  <2>4. psCall' = [psCall EXCEPT ![c] = call]
    BY <2>1 DEF call
  <2> QED BY <2>1, <2>2, <2>3, <2>4, PsTypedCalls
<1>2. ASSUME NEW c \in PsCalls, PsLimitChecked(c) PROVE PsTyped'
  <2>1. psCount' \in Int /\ psChild' \in [PsCalls -> {"none", Gone} \cup PsFileStates]
    BY <1>2 DEF PsTyped, PsLimitChecked
  <2>2. UNCHANGED <<psFiles, psActive, psInstall>>
    BY <1>2 DEF PsLimitChecked
  <2>3. CASE psCall' = [psCall EXCEPT ![c] = NoCall]
    BY <1>0, <2>1, <2>2, <2>3, PsTypedCalls
  <2>4. CASE psCall' = [psCall EXCEPT ![c].at = "resolve"]
    <3> DEFINE call == [psCall[c] EXCEPT !.at = "resolve"]
    <3>1. call \in PsRecords /\ call.at = "resolve" /\ call.kind \in PsKinds /\ call.mode \in PsModes
      BY <1>a, <1>2 DEF PsRecords, PsStages, PsTyped, PsLimitChecked
    <3>2. psCall' = [psCall EXCEPT ![c] = call]
      BY <2>4
    <3> HIDE DEF call
    <3> QED BY <2>1, <2>2, <3>1, <3>2, PsTypedCalls
  <2> QED BY <1>2, <2>3, <2>4 DEF PsLimitChecked
<1>3. ASSUME NEW c \in PsCalls, PsResolve(c) PROVE PsTyped'
  <2>1. PICK p \in Programs(psCall[c].kind) : psCall' = [psCall EXCEPT ![c].program = p, ![c].at = "spawn"]
    BY <1>3 DEF PsResolve
  <2>2. p \in {"elsewhere"} \cup PsReleases
    BY DEF Programs, AntigravityPrograms, Managed
  <2> DEFINE call == [psCall[c] EXCEPT !.program = p, !.at = "spawn"]
  <2>3. call \in PsRecords /\ call.kind \in PsKinds /\ call.mode \in PsModes /\ call.program = p
    <3>1. psCall[c].kind \in PsKinds /\ psCall[c].mode \in PsModes
      BY <1>3 DEF PsTyped, PsResolve
    <3> QED BY <1>a, <2>2, <3>1 DEF PsRecords, PsStages
  <2>4. psCall' = [psCall EXCEPT ![c] = call]
    BY <2>1
  <2>5. psCount' \in Int /\ psChild' \in [PsCalls -> {"none", Gone} \cup PsFileStates]
        /\ UNCHANGED <<psFiles, psActive, psInstall>>
    BY <1>3 DEF PsTyped, PsResolve
  <2> HIDE DEF call
  <2> QED BY <2>2, <2>3, <2>4, <2>5, PsTypedCalls
<1>4. ASSUME NEW c \in PsCalls, PsSpawn(c) PROVE PsTyped'
  <2> DEFINE told == IF psCall[c].kind = "claude" THEN Handshake(psCall[c].kind, psCall[c].mode) ELSE << >>
             call == [psCall[c] EXCEPT !.at = "tell", !.told = told]
  <2>1. psCall[c].kind \in PsKinds /\ psCall[c].mode \in PsModes
        /\ psCall[c].program \in {"elsewhere"} \cup PsReleases
    BY <1>4 DEF PsTyped, PsSpawn
  <2>2. told \in Seq(PsLines)
    BY <2>1, PsHandshakeIsLines
  <2>3. psCall' = [psCall EXCEPT ![c] = call]
    BY <1>4 DEF PsSpawn
  <2> HIDE DEF told
  <2>4. call \in PsRecords /\ call.at = "tell" /\ call.kind \in PsKinds /\ call.mode \in PsModes
    BY <1>a, <2>1, <2>2 DEF PsRecords, PsStages
  <2>5. psChild' \in [PsCalls -> {"none", Gone} \cup PsFileStates]
    <3>1. psCall[c].program \in PsReleases => psFiles[psCall[c].program][1] \in PsFileStates
      BY DEF PsTyped
    <3> QED BY <1>4, <2>1, <3>1 DEF PsTyped, PsSpawn, PsFileStates
  <2>6. psCount' \in Int /\ UNCHANGED <<psFiles, psActive, psInstall>>
    BY <1>4 DEF PsTyped, PsSpawn
  <2> HIDE DEF call
  <2> QED BY <2>3, <2>4, <2>5, <2>6, PsTypedCalls
<1>5. ASSUME NEW c \in PsCalls, PsTell(c) PROVE PsTyped'
  <2> DEFINE lines == Handshake(psCall[c].kind, psCall[c].mode)
             told == Append(psCall[c].told, lines[Len(psCall[c].told) + 1])
             call == [psCall[c] EXCEPT !.told = told]
  <2>1. psCall[c].kind \in PsKinds /\ psCall[c].mode \in PsModes /\ psCall[c].at = "tell"
    BY <1>5 DEF PsTyped, PsTell
  <2>2. lines \in Seq(PsLines) /\ psCall[c].told \in Seq(PsLines)
    BY <1>a, <2>1, PsHandshakeIsLines DEF PsRecords
  <2>3. psCall' = [psCall EXCEPT ![c] = call] /\ Len(psCall[c].told) < Len(lines)
    BY <1>5 DEF PsTell
  <2> HIDE DEF lines
  <2>4. told \in Seq(PsLines)
    BY <2>2, <2>3
  <2> HIDE DEF told
  <2>5. call \in PsRecords /\ call.at = "tell" /\ call.kind \in PsKinds /\ call.mode \in PsModes
    BY <1>a, <2>1, <2>4 DEF PsRecords
  <2>6. psCount' \in Int /\ psChild' \in [PsCalls -> {"none", Gone} \cup PsFileStates]
        /\ UNCHANGED <<psFiles, psActive, psInstall>>
    BY <1>5 DEF PsTyped, PsTell
  <2> HIDE DEF call
  <2> QED BY <2>3, <2>5, <2>6, PsTypedCalls
<1>6. ASSUME NEW c \in PsCalls, PsStarted(c) PROVE PsTyped'
  <2> DEFINE call == [psCall[c] EXCEPT !.at = "session"]
  <2>1. call \in PsRecords /\ call.at = "session" /\ call.kind \in PsKinds /\ call.mode \in PsModes
    BY <1>a, <1>6 DEF PsRecords, PsStages, PsTyped, PsStarted
  <2>2. psCall' = [psCall EXCEPT ![c] = call]
    BY <1>6 DEF PsStarted
  <2>3. psCount' \in Int /\ psChild' \in [PsCalls -> {"none", Gone} \cup PsFileStates]
        /\ UNCHANGED <<psFiles, psActive, psInstall>>
    BY <1>a, <1>6 DEF PsTyped, PsStarted
  <2> HIDE DEF call
  <2> QED BY <2>1, <2>2, <2>3, PsTypedCalls
<1>7. ASSUME NEW c \in PsCalls, PsFails(c) \/ PsShutdown(c) PROVE PsTyped'
  <2>1. psCount' \in Int /\ psChild' \in [PsCalls -> {"none", Gone} \cup PsFileStates]
        /\ psCall' = [psCall EXCEPT ![c] = NoCall] /\ UNCHANGED <<psFiles, psActive, psInstall>>
    BY <1>a, <1>7 DEF PsTyped, PsFails, PsShutdown
  <2> QED BY <1>0, <2>1, PsTypedCalls
<1>8. ASSUME NEW c \in PsCalls, PsChildDies(c) PROVE PsTyped'
  BY <1>8 DEF PsTyped, PsChildDies
<1>9. ASSUME NEW i \in PsInstallers, PsInstallBegin(i) PROVE PsTyped'
  BY <1>9 DEF PsTyped, PsInstallBegin
<1>10. ASSUME NEW i \in PsInstallers, PsInstallStep(i) PROVE PsTyped'
  <2> DEFINE r == psInstall[i].release
             step == psInstall[i].step
  <2>1. r \in PsReleases /\ step \in Nat
    BY <1>10 DEF PsTyped, PsInstallStep
  <2>2. psFiles' \in [PsReleases -> PsFileStates \X PsFileStates]
    <3>1. ASSUME NEW f \in PsFileStates
          PROVE  /\ [psFiles EXCEPT ![r][1] = f] \in [PsReleases -> PsFileStates \X PsFileStates]
                 /\ [psFiles EXCEPT ![r][2] = f] \in [PsReleases -> PsFileStates \X PsFileStates]
      BY <2>1 DEF PsTyped
    <3>2. {"torn", "whole"} \subseteq PsFileStates
      BY DEF PsFileStates
    <3> QED BY <1>10, <2>1, <3>1, <3>2 DEF PsTyped, PsInstallStep
  <2>3. psActive' \in {"none", "torn"} \cup PsReleases
    BY <1>10, <2>1 DEF PsTyped, PsInstallStep
  <2>4. psInstall' \in [PsInstallers -> [release : {"none"} \cup PsReleases, step : Nat]]
    BY <1>10, <2>1 DEF PsTyped, PsInstallStep, NoInstall
  <2>5. UNCHANGED <<psCall, psChild, psCount>>
    BY <1>10 DEF PsInstallStep
  <2> QED BY <2>2, <2>3, <2>4, <2>5 DEF PsTyped
<1>11. ASSUME NEW i \in PsInstallers, PsInstallFails(i) PROVE PsTyped'
  BY <1>11 DEF PsTyped, PsInstallFails, NoInstall
<1>12. CASE UNCHANGED psVars
  BY <1>12 DEF PsTyped, psVars
<1> QED
  BY <1>1, <1>2, <1>3, <1>4, <1>5, <1>6, <1>7, <1>8, <1>9, <1>10, <1>11, <1>12 DEF PsNext

-----------------------------------------------------------------------------
(* The limiter, step by step.                                                 *)
LEMMA PsLimiterAtFirst == PsInit => PsLimiter
<1> SUFFICES ASSUME PsInit PROVE PsLimiter
  OBVIOUS
<1>1. PsHolders = {} /\ PsCounted = {}
  BY DEF PsInit, PsHolders, PsCounted, Holds, NoCall
<1>2. Cardinality({}) = 0
  BY FS_EmptySet
<1> QED
  BY <1>1, <1>2 DEF PsInit, PsLimiter, PsCounts, PsLastSaw, PsLetThrough, PsOnlyCounted

(* One that was counted and is refused, or was let through and is done.       *)
LEMMA PsCountDown ==
  ASSUME PsTyped, PsLimiter, NEW c \in PsCalls, psCount' = psCount - 1,
         \A d \in PsCalls : d # c => psCall'[d] = psCall[d],
         \/ c \in PsHolders /\ PsHolders' = PsHolders \ {c} /\ PsCounted' = PsCounted
         \/ c \in PsCounted /\ PsHolders' = PsHolders /\ PsCounted' = PsCounted \ {c},
         PsHolders \cap PsCounted = {}
  PROVE  PsLimiter'
<1>1. /\ PsHolders \in SUBSET PsCalls /\ PsCounted \in SUBSET PsCalls
      /\ Cardinality(PsHolders) \in Nat /\ Cardinality(PsCounted) \in Nat
  BY PsFinite DEF PsHolders, PsCounted
<1>2. PsCounts'
  BY <1>1, PsFinite DEF PsLimiter, PsCounts, PsTyped
<1>3. PsLastSaw'
  BY <1>1, PsFewerSaw DEF PsLimiter
<1>4. PsLetThrough' /\ PsOnlyCounted'
  BY <1>1 DEF PsLimiter, PsLetThrough, PsOnlyCounted
<1> QED
  BY <1>2, <1>3, <1>4 DEF PsLimiter

(* One that was counted and saw fewer than the limit goes on.                 *)
LEMMA PsLetIn ==
  ASSUME PsTyped, PsLimiter, NEW c \in PsCalls, psCount' = psCount,
         c \in PsCounted, c \notin PsHolders, psCall[c].seen < PsLimit, psCall'[c].seen = psCall[c].seen,
         \A d \in PsCalls : d # c => psCall'[d] = psCall[d],
         PsHolders' = PsHolders \cup {c}, PsCounted' = PsCounted \ {c}
  PROVE  PsLimiter'
<1>1. /\ PsHolders \in SUBSET PsCalls /\ PsCounted \in SUBSET PsCalls
      /\ Cardinality(PsHolders) \in Nat /\ Cardinality(PsCounted) \in Nat
  BY PsFinite DEF PsHolders, PsCounted
<1>2. PsCounts'
  <2>1. Cardinality(PsHolders') = Cardinality(PsHolders) + 1 /\ Cardinality(PsCounted') = Cardinality(PsCounted) - 1
    BY <1>1, PsFinite
  <2> QED BY <1>1, <2>1 DEF PsLimiter, PsCounts
<1>3. PsLastSaw'
  BY <1>1, PsFewerSaw DEF PsLimiter
<1>4. PsLetThrough' /\ PsOnlyCounted'
  BY <1>1 DEF PsLimiter, PsLetThrough, PsOnlyCounted
<1> QED
  BY <1>2, <1>3, <1>4 DEF PsLimiter

LEMMA PsLimiterKept == PsTyped /\ PsLimiter /\ [PsNext]_psVars => PsLimiter'
<1> SUFFICES ASSUME PsTyped, PsLimiter, [PsNext]_psVars PROVE PsLimiter'
  OBVIOUS
<1>0. /\ NoCall.at = "idle" /\ PsHolders \cap PsCounted = {}
      /\ PsHolders \subseteq PsCalls /\ PsCounted \subseteq PsCalls
  BY DEF NoCall, PsHolders, PsCounted, Holds
<1>1. ASSUME NEW c \in PsCalls, PsBegin(c) PROVE PsLimiter'
  <2>1. PICK kind \in PsKinds, mode \in PsModes :
          /\ psCall[c].at = "idle"
          /\ psCall' = [psCall EXCEPT ![c] = [NoCall EXCEPT !.kind = kind, !.mode = mode,
                          !.at = IF kind = "antigravity" THEN "counted" ELSE "resolve", !.seen = psCount]]
          /\ psCount' = IF kind = "antigravity" THEN psCount + 1 ELSE psCount
    BY <1>1 DEF PsBegin
  <2>2. \A d \in PsCalls : d # c => psCall'[d] = psCall[d]
    BY <2>1 DEF PsTyped
  <2>3. /\ psCall'[c].kind = kind /\ psCall'[c].seen = psCount
        /\ psCall'[c].at = IF kind = "antigravity" THEN "counted" ELSE "resolve"
    BY <2>1 DEF PsTyped, NoCall
  <2>4. CASE kind = "antigravity"
    <3>1. c \notin PsHolders \cup PsCounted
      BY <2>1 DEF PsHolders, PsCounted, Holds
    <3>2. PsHolders' = PsHolders /\ PsCounted' = PsCounted \cup {c}
      BY <2>2, <2>3, <2>4, <3>1 DEF PsHolders, PsCounted, Holds
    <3> QED BY <2>1, <2>2, <2>3, <2>4, <3>1, <3>2, PsCountUp
  <2>5. CASE kind # "antigravity"
    <3>1. ~Holds(c) /\ ~Holds(c)' /\ psCall[c].at # "counted" /\ psCall'[c].at # "counted"
      BY <2>1, <2>3, <2>5 DEF Holds
    <3>2. psCount' = psCount
      BY <2>1, <2>5
    <3> QED BY <2>2, <3>1, <3>2, PsCountKept
  <2> QED BY <2>4, <2>5
<1>2. ASSUME NEW c \in PsCalls, PsLimitChecked(c) PROVE PsLimiter'
  <2>1. c \in PsCounted /\ c \notin PsHolders /\ psCall[c].kind = "antigravity" /\ psCall[c].seen \in Int
    BY <1>2 DEF PsLimitChecked, PsCounted, PsHolders, Holds, PsLimiter, PsOnlyCounted, PsTyped, PsRecords
  <2>2. \A d \in PsCalls : d # c => psCall'[d] = psCall[d]
    BY <1>2 DEF PsLimitChecked, PsTyped
  <2>3. CASE psCall[c].seen >= PsLimit
    <3>1. psCall'[c] = NoCall /\ psCount' = psCount - 1
      BY <1>2, <2>3 DEF PsLimitChecked, PsTyped
    <3>2. PsHolders' = PsHolders /\ PsCounted' = PsCounted \ {c}
      BY <1>0, <2>1, <2>2, <3>1 DEF PsHolders, PsCounted, Holds
    <3> QED BY <1>0, <2>1, <2>2, <3>1, <3>2, PsCountDown
  <2>4. CASE ~(psCall[c].seen >= PsLimit)
    <3>1. /\ psCall'[c].at = "resolve" /\ psCall'[c].kind = psCall[c].kind
          /\ psCall'[c].seen = psCall[c].seen /\ psCount' = psCount
      BY <1>2, <2>4 DEF PsLimitChecked, PsTyped, PsRecords
    <3>2. PsHolders' = PsHolders \cup {c} /\ PsCounted' = PsCounted \ {c}
      BY <1>0, <2>1, <2>2, <3>1 DEF PsHolders, PsCounted, Holds
    <3>3. psCall[c].seen < PsLimit
      <4>1. PsLimit \in Nat
        BY PsAssumption
      <4> QED BY <2>1, <2>4, <4>1
    <3> QED BY <2>1, <2>2, <3>1, <3>2, <3>3, PsLetIn
  <2> QED BY <2>3, <2>4
<1>3. ASSUME NEW c \in PsCalls, PsResolve(c) \/ PsSpawn(c) \/ PsTell(c) PROVE PsLimiter'
  <2>1. \A d \in PsCalls : d # c => psCall'[d] = psCall[d]
    BY <1>3 DEF PsTyped, PsResolve, PsSpawn, PsTell
  <2>2. /\ psCall[c].at \in {"resolve", "spawn", "tell"} /\ psCall'[c].at \in {"resolve", "spawn", "tell"}
        /\ psCall'[c].kind = psCall[c].kind /\ psCall'[c].seen = psCall[c].seen /\ psCount' = psCount
    <3>1. CASE PsResolve(c)
      BY <3>1 DEF PsTyped, PsRecords, PsResolve
    <3>2. CASE PsSpawn(c)
      BY <3>2 DEF PsTyped, PsRecords, PsSpawn
    <3>3. CASE PsTell(c)
      BY <3>3 DEF PsTyped, PsRecords, PsTell
    <3> QED BY <1>3, <3>1, <3>2, <3>3
  <2>3. (Holds(c)' <=> Holds(c)) /\ psCall[c].at # "counted" /\ psCall'[c].at # "counted"
    BY <2>2 DEF Holds
  <2> QED BY <2>1, <2>2, <2>3, PsCountKept
<1>4. ASSUME NEW c \in PsCalls, PsStarted(c) \/ PsFails(c) PROVE PsLimiter'
  <2>1. \A d \in PsCalls : d # c => psCall'[d] = psCall[d]
    BY <1>4 DEF PsTyped, PsStarted, PsFails
  <2>2. /\ psCall[c].at \in {"resolve", "spawn", "tell"} /\ psCall'[c].at \in {"idle", "session"}
        /\ psCount' = Released(c)
    BY <1>0, <1>4 DEF PsTyped, PsRecords, PsStarted, PsFails
  <2>3. CASE Holds(c)
    <3>1. c \in PsHolders /\ PsHolders' = PsHolders \ {c} /\ PsCounted' = PsCounted
      BY <2>1, <2>2, <2>3 DEF PsHolders, PsCounted, Holds
    <3> QED BY <1>0, <2>1, <2>2, <2>3, <3>1, PsCountDown DEF Released
  <2>4. CASE ~Holds(c)
    <3>1. ~Holds(c)' /\ psCall[c].at # "counted" /\ psCall'[c].at # "counted" /\ psCount' = psCount
      BY <2>2, <2>4 DEF Holds, Released
    <3> QED BY <2>1, <2>4, <3>1, PsCountKept
  <2> QED BY <2>3, <2>4
<1>5. ASSUME NEW c \in PsCalls, PsShutdown(c) PROVE PsLimiter'
  <2>1. \A d \in PsCalls : d # c => psCall'[d] = psCall[d]
    BY <1>5 DEF PsTyped, PsShutdown
  <2>2. psCall[c].at = "session" /\ psCall'[c].at = "idle" /\ psCount' = psCount
    BY <1>0, <1>5 DEF PsTyped, PsShutdown
  <2>3. ~Holds(c) /\ ~Holds(c)'
    BY <2>2 DEF Holds
  <2> QED BY <2>1, <2>2, <2>3, PsCountKept
<1>6. ASSUME UNCHANGED <<psCall, psCount>> PROVE PsLimiter'
  BY <1>6 DEF PsLimiter, PsCounts, PsLastSaw, PsLetThrough, PsOnlyCounted, PsHolders, PsCounted, Holds
<1>7. ASSUME NEW c \in PsCalls, PsChildDies(c) PROVE PsLimiter'
  BY <1>6, <1>7 DEF PsChildDies
<1>8. ASSUME NEW i \in PsInstallers, PsInstallBegin(i) \/ PsInstallStep(i) \/ PsInstallFails(i) PROVE PsLimiter'
  BY <1>6, <1>8 DEF PsInstallBegin, PsInstallStep, PsInstallFails
<1>9. CASE UNCHANGED psVars
  BY <1>6, <1>9 DEF psVars
<1> QED
  BY <1>1, <1>2, <1>3, <1>4, <1>5, <1>7, <1>8, <1>9 DEF PsNext

-----------------------------------------------------------------------------
(* What a child was told is a beginning of what it is to be told, and all of  *)
(* it once it is handed over.                                                 *)
PsToldSoFar(call) ==
  LET lines == Handshake(call.kind, call.mode)
      told  == call.told
  IN /\ call.at = "tell" => Len(told) <= Len(lines) /\ \A n \in 1..Len(told) : told[n] = lines[n]
     /\ call.at = "session" => told = lines
PsTold == \A c \in PsCalls : PsToldSoFar(psCall[c])

LEMMA PsToldKept == PsTyped /\ PsTold /\ [PsNext]_psVars => PsTold'
<1> SUFFICES ASSUME PsTyped, PsTold, [PsNext]_psVars PROVE PsTold'
  OBVIOUS
<1>a. ASSUME NEW c \in PsCalls, \A d \in PsCalls : d # c => psCall'[d] = psCall[d],
             psCall'[c].at \notin {"tell", "session"}
      PROVE  PsTold'
  <2>1. PsToldSoFar(psCall'[c])
    BY <1>a DEF PsToldSoFar
  <2> QED BY <1>a, <2>1 DEF PsTold
<1>1. ASSUME NEW c \in PsCalls, PsBegin(c) PROVE PsTold'
  <2>1. \A d \in PsCalls : d # c => psCall'[d] = psCall[d]
    BY <1>1 DEF PsTyped, PsBegin
  <2>2. psCall'[c].at \in {"counted", "resolve"}
    BY <1>1 DEF PsTyped, PsBegin, NoCall
  <2> QED BY <1>a, <2>1, <2>2
<1>2. ASSUME NEW c \in PsCalls, PsLimitChecked(c) \/ PsResolve(c) \/ PsFails(c) \/ PsShutdown(c) PROVE PsTold'
  <2>1. \A d \in PsCalls : d # c => psCall'[d] = psCall[d]
    BY <1>2 DEF PsTyped, PsLimitChecked, PsResolve, PsFails, PsShutdown
  <2>2. psCall'[c].at \in {"idle", "resolve", "spawn"}
    <3>1. CASE PsLimitChecked(c)
      BY <3>1 DEF PsTyped, PsRecords, PsLimitChecked, NoCall
    <3>2. CASE PsResolve(c)
      <4>1. PICK q \in Programs(psCall[c].kind) : psCall' = [psCall EXCEPT ![c].program = q, ![c].at = "spawn"]
        BY <3>2 DEF PsResolve
      <4> QED BY <4>1 DEF PsTyped, PsRecords
    <3>3. CASE PsFails(c) \/ PsShutdown(c)
      BY <3>3 DEF PsTyped, PsFails, PsShutdown, NoCall
    <3> QED BY <1>2, <3>1, <3>2, <3>3
  <2> QED BY <1>a, <2>1, <2>2
<1>3. ASSUME NEW c \in PsCalls, PsSpawn(c) PROVE PsTold'
  <2> DEFINE lines == Handshake(psCall[c].kind, psCall[c].mode)
  <2>1. \A d \in PsCalls : d # c => psCall'[d] = psCall[d]
    BY <1>3 DEF PsTyped, PsSpawn
  <2>2. /\ psCall'[c].at = "tell" /\ psCall'[c].kind = psCall[c].kind /\ psCall'[c].mode = psCall[c].mode
        /\ psCall'[c].told = lines \/ psCall'[c].told = << >>
    BY <1>3 DEF PsTyped, PsRecords, PsSpawn
  <2>3. lines \in Seq(PsLines)
    BY <1>3, PsHandshakeIsLines DEF PsTyped, PsSpawn
  <2> HIDE DEF lines
  <2>4. Len(psCall'[c].told) <= Len(lines) /\ \A n \in 1..Len(psCall'[c].told) : psCall'[c].told[n] = lines[n]
    BY <2>2, <2>3
  <2>5. PsToldSoFar(psCall'[c])
    BY <2>2, <2>4 DEF PsToldSoFar, lines
  <2> QED BY <2>1, <2>5 DEF PsTold
<1>4. ASSUME NEW c \in PsCalls, PsTell(c) PROVE PsTold'
  <2> DEFINE lines == Handshake(psCall[c].kind, psCall[c].mode)
             told == psCall[c].told
  <2>1. \A d \in PsCalls : d # c => psCall'[d] = psCall[d]
    BY <1>4 DEF PsTyped, PsTell
  <2>2. /\ psCall'[c].at = "tell" /\ psCall'[c].kind = psCall[c].kind /\ psCall'[c].mode = psCall[c].mode
        /\ psCall'[c].told = Append(told, lines[Len(told) + 1]) /\ Len(told) < Len(lines)
    BY <1>4 DEF PsTyped, PsRecords, PsTell
  <2>3. lines \in Seq(PsLines) /\ told \in Seq(PsLines)
    BY <1>4, PsHandshakeIsLines DEF PsTyped, PsRecords, PsTell
  <2>4. \A n \in 1..Len(told) : told[n] = lines[n]
    <3>1. PsToldSoFar(psCall[c]) /\ psCall[c].at = "tell"
      BY <1>4 DEF PsTold, PsTell
    <3> QED BY <3>1 DEF PsToldSoFar
  <2> HIDE DEF lines, told
  <2>5. Len(psCall'[c].told) <= Len(lines) /\ \A n \in 1..Len(psCall'[c].told) : psCall'[c].told[n] = lines[n]
    <3> DEFINE now == Append(told, lines[Len(told) + 1])
    <3>1. Len(told) \in Nat /\ Len(lines) \in Nat /\ Len(now) = Len(told) + 1
      BY <2>2, <2>3
    <3>2. now[Len(told) + 1] = lines[Len(told) + 1] /\ \A n \in 1..Len(told) : now[n] = told[n]
      BY <2>2, <2>3
    <3>3. psCall'[c].told = now /\ Len(told) < Len(lines)
      BY <2>2
    <3> HIDE DEF now
    <3>4. \A n \in 1..Len(now) : n = Len(told) + 1 \/ n \in 1..Len(told)
      BY <3>1
    <3>5. \A n \in 1..Len(now) : now[n] = lines[n]
      BY <2>4, <3>2, <3>4
    <3>6. Len(now) <= Len(lines)
      BY <3>1, <3>3
    <3> QED BY <3>3, <3>5, <3>6
  <2>6. PsToldSoFar(psCall'[c])
    BY <2>2, <2>5 DEF PsToldSoFar, lines, told
  <2> QED BY <2>1, <2>6 DEF PsTold
<1>5. ASSUME NEW c \in PsCalls, PsStarted(c) PROVE PsTold'
  <2> DEFINE lines == Handshake(psCall[c].kind, psCall[c].mode)
             told == psCall[c].told
  <2>1. \A d \in PsCalls : d # c => psCall'[d] = psCall[d]
    BY <1>5 DEF PsTyped, PsStarted
  <2>2. /\ psCall'[c].at = "session" /\ psCall'[c].kind = psCall[c].kind /\ psCall'[c].mode = psCall[c].mode
        /\ psCall'[c].told = told /\ Len(told) = Len(lines)
    BY <1>5 DEF PsTyped, PsRecords, PsStarted
  <2>3. lines \in Seq(PsLines) /\ told \in Seq(PsLines)
    BY <1>5, PsHandshakeIsLines DEF PsTyped, PsRecords, PsStarted
  <2>4. \A n \in 1..Len(told) : told[n] = lines[n]
    <3>1. PsToldSoFar(psCall[c]) /\ psCall[c].at = "tell"
      BY <1>5 DEF PsTold, PsStarted
    <3> QED BY <3>1 DEF PsToldSoFar
  <2> HIDE DEF lines, told
  <2>5. told = lines
    BY <2>2, <2>3, <2>4, SeqEqual
  <2>6. PsToldSoFar(psCall'[c])
    BY <2>2, <2>5 DEF PsToldSoFar, lines, told
  <2> QED BY <2>1, <2>6 DEF PsTold
<1>6. CASE UNCHANGED psCall
  BY <1>6 DEF PsTold
<1>7. ASSUME NEW c \in PsCalls, PsChildDies(c) PROVE PsTold'
  BY <1>6, <1>7 DEF PsChildDies
<1>8. ASSUME NEW i \in PsInstallers, PsInstallBegin(i) \/ PsInstallStep(i) \/ PsInstallFails(i) PROVE PsTold'
  BY <1>6, <1>8 DEF PsInstallBegin, PsInstallStep, PsInstallFails
<1>9. CASE UNCHANGED psVars
  BY <1>6, <1>9 DEF psVars
<1> QED
  BY <1>1, <1>2, <1>3, <1>4, <1>5, <1>7, <1>8, <1>9 DEF PsNext

-----------------------------------------------------------------------------
(* Of a release that was installed once: its server is whole from the second  *)
(* step of the installer on, so where the pointer or a call names it.         *)
PsOneInstaller ==
  \A i, j \in PsInstallers :
    psInstall[i].release = psInstall[j].release /\ psInstall[i].release \in PsReleases \ psAgain => i = j
PsInstallerAt ==
  \A i \in PsInstallers : psInstall[i].release \in PsReleases \ psAgain =>
    /\ psInstall[i].step = 0 => psFiles[psInstall[i].release][1] = "absent"
    /\ psInstall[i].step >= 2 => psFiles[psInstall[i].release][1] = "whole"
PsPointed == psActive \in PsReleases \ psAgain => psFiles[psActive][1] = "whole"
PsFound ==
  \A c \in PsCalls : psCall[c].at = "spawn" /\ psCall[c].program \in PsReleases \ psAgain =>
    psFiles[psCall[c].program][1] = "whole"
PsChildren ==
  \A c \in PsCalls : /\ psChild[c] # "none" => psCall[c].at \in {"tell", "session"}
                     /\ psChild[c] \in {"torn", "absent"} => psCall[c].program \in psAgain

PsSourced == PsOneInstaller /\ PsInstallerAt /\ PsPointed /\ PsFound /\ PsChildren

(* Steps of calls leave the installers' files alone.                          *)
LEMMA PsCallsSourced ==
  ASSUME PsSourced, UNCHANGED <<psFiles, psActive, psInstall, psAgain>>, PsFound', PsChildren'
  PROVE  PsSourced'
  BY DEF PsSourced, PsOneInstaller, PsInstallerAt, PsPointed

(* A call that goes nowhere near a program, or gives one up.                  *)
LEMMA PsCallSourced ==
  ASSUME PsTyped, PsSourced, NEW c \in PsCalls, UNCHANGED <<psFiles, psActive, psInstall, psAgain>>,
         \A d \in PsCalls : d # c => psCall'[d] = psCall[d] /\ psChild'[d] = psChild[d],
         psCall'[c].at # "spawn",
         psChild'[c] # "none" => /\ psCall'[c].at \in {"tell", "session"} /\ psCall'[c].program = psCall[c].program
                                 /\ psChild'[c] \in {psChild[c], Gone}
  PROVE  PsSourced'
<1>1. PsFound'
  BY DEF PsSourced, PsFound
<1>2. ASSUME NEW d \in PsCalls
      PROVE  /\ psChild'[d] # "none" => psCall'[d].at \in {"tell", "session"}
             /\ psChild'[d] \in {"torn", "absent"} => psCall'[d].program \in psAgain
  <2>1. /\ psChild[d] # "none" => psCall[d].at \in {"tell", "session"}
        /\ psChild[d] \in {"torn", "absent"} => psCall[d].program \in psAgain
    BY DEF PsSourced, PsChildren
  <2>2. CASE d # c
    BY <2>1, <2>2
  <2>3. CASE d = c
    <3>1. psChild'[c] \in {"torn", "absent"} => psChild'[c] # "none" /\ psChild'[c] # Gone
      BY DEF Gone
    <3> QED BY <2>1, <2>3, <3>1
  <2> QED BY <2>2, <2>3
<1>3. PsChildren'
  BY <1>2 DEF PsChildren
<1> QED
  BY <1>1, <1>3, PsCallsSourced

LEMMA PsSourcedKept == PsTyped /\ PsSourced /\ [PsNext]_psVars => PsSourced'
<1> SUFFICES ASSUME PsTyped, PsSourced, [PsNext]_psVars PROVE PsSourced'
  OBVIOUS
<1>0. NoCall.at = "idle" /\ NoInstall.release = "none" /\ NoInstall.step = 0
  BY DEF NoCall, NoInstall
<1>r. "none" \notin PsReleases /\ "torn" \notin PsReleases /\ "elsewhere" \notin PsReleases
  BY PsAssumption
<1>b. ASSUME NEW c \in PsCalls, psCall[c].at \notin {"tell", "session"} PROVE psChild[c] = "none"
  BY <1>b DEF PsSourced, PsChildren
<1>1. ASSUME NEW c \in PsCalls, PsBegin(c) PROVE PsSourced'
  <2>1. \A d \in PsCalls : d # c => psCall'[d] = psCall[d] /\ psChild'[d] = psChild[d]
    BY <1>1 DEF PsTyped, PsBegin
  <2>2. psCall'[c].at \in {"counted", "resolve"}
    BY <1>1 DEF PsTyped, PsBegin, NoCall
  <2>3. psChild'[c] = "none"
    <3>1. psCall[c].at \notin {"tell", "session"} /\ psChild' = psChild
      BY <1>1 DEF PsBegin
    <3> QED BY <1>b, <3>1
  <2>4. UNCHANGED <<psFiles, psActive, psInstall, psAgain>>
    BY <1>1 DEF PsBegin
  <2> QED BY <2>1, <2>2, <2>3, <2>4, PsCallSourced
<1>2. ASSUME NEW c \in PsCalls, PsLimitChecked(c) PROVE PsSourced'
  <2>1. \A d \in PsCalls : d # c => psCall'[d] = psCall[d] /\ psChild'[d] = psChild[d]
    BY <1>2 DEF PsTyped, PsLimitChecked
  <2>2. psCall'[c].at \in {"idle", "resolve"}
    BY <1>2 DEF PsTyped, PsRecords, PsLimitChecked, NoCall
  <2>3. psChild'[c] = "none"
    <3>1. psCall[c].at \notin {"tell", "session"} /\ psChild' = psChild
      BY <1>2 DEF PsLimitChecked
    <3> QED BY <1>b, <3>1
  <2>4. UNCHANGED <<psFiles, psActive, psInstall, psAgain>>
    BY <1>2 DEF PsLimitChecked
  <2> QED BY <2>1, <2>2, <2>3, <2>4, PsCallSourced
<1>3. ASSUME NEW c \in PsCalls, PsResolve(c) PROVE PsSourced'
  <2>1. PICK q \in Programs(psCall[c].kind) : psCall' = [psCall EXCEPT ![c].program = q, ![c].at = "spawn"]
    BY <1>3 DEF PsResolve
  <2>2. /\ UNCHANGED <<psFiles, psActive, psInstall, psAgain>> /\ psChild' = psChild
        /\ psChild[c] = "none"
    <3>1. psCall[c].at = "resolve" /\ UNCHANGED <<psFiles, psActive, psInstall, psAgain, psChild>>
      BY <1>3 DEF PsResolve
    <3> QED BY <1>b, <3>1
  <2>3. /\ psCall'[c].program = q
        /\ \A d \in PsCalls : d # c => psCall'[d] = psCall[d]
    BY <2>1 DEF PsTyped, PsRecords
  <2>4. q \in PsReleases \ psAgain => psFiles[q][1] = "whole"
    BY <1>r, <2>1 DEF Programs, AntigravityPrograms, Managed, PsSourced, PsPointed
  <2>5. PsFound'
    BY <2>2, <2>3, <2>4 DEF PsSourced, PsFound
  <2>6. PsChildren'
    BY <2>2, <2>3 DEF PsSourced, PsChildren
  <2> QED BY <2>2, <2>5, <2>6, PsCallsSourced
<1>4. ASSUME NEW c \in PsCalls, PsSpawn(c) PROVE PsSourced'
  <2>1. /\ \A d \in PsCalls : d # c => psCall'[d] = psCall[d] /\ psChild'[d] = psChild[d]
        /\ psCall'[c].at = "tell" /\ psCall'[c].program = psCall[c].program
        /\ UNCHANGED <<psFiles, psActive, psInstall, psAgain>>
    BY <1>4 DEF PsTyped, PsRecords, PsSpawn
  <2>2. psCall[c].program \in {"elsewhere"} \cup PsReleases /\ psCall[c].at = "spawn"
    BY <1>4 DEF PsTyped, PsSpawn
  <2>3. \/ psChild'[c] \in {"none", "whole"}
        \/ psCall[c].program \in PsReleases /\ psChild'[c] = psFiles[psCall[c].program][1]
    <3>1. psChild' = [psChild EXCEPT ![c] =
                        IF ~LaunchOf(psCall[c].kind, psCall[c].mode).child THEN "none"
                        ELSE IF psCall[c].program = "elsewhere" THEN "whole"
                        ELSE psFiles[psCall[c].program][1]]
      BY <1>4 DEF PsSpawn
    <3>2. psChild'[c] = IF ~LaunchOf(psCall[c].kind, psCall[c].mode).child THEN "none"
                        ELSE IF psCall[c].program = "elsewhere" THEN "whole"
                        ELSE psFiles[psCall[c].program][1]
      BY <3>1 DEF PsTyped
    <3> QED BY <2>2, <3>2
  <2>4. psChild'[c] \in {"torn", "absent"} => psCall[c].program \in psAgain
    BY <2>2, <2>3 DEF PsSourced, PsFound
  <2>5. PsFound'
    BY <2>1 DEF PsSourced, PsFound
  <2>6. PsChildren'
    BY <2>1, <2>4 DEF PsSourced, PsChildren
  <2> QED BY <2>1, <2>5, <2>6, PsCallsSourced
<1>5. ASSUME NEW c \in PsCalls, PsTell(c) \/ PsStarted(c) PROVE PsSourced'
  <2>1. /\ \A d \in PsCalls : d # c => psCall'[d] = psCall[d] /\ psChild'[d] = psChild[d]
        /\ UNCHANGED <<psFiles, psActive, psInstall, psAgain>> /\ psChild'[c] = psChild[c]
    BY <1>5 DEF PsTyped, PsTell, PsStarted
  <2>2. psCall'[c].at \in {"tell", "session"} /\ psCall'[c].program = psCall[c].program
    BY <1>5 DEF PsTyped, PsRecords, PsTell, PsStarted
  <2> QED BY <2>1, <2>2, PsCallSourced
<1>6. ASSUME NEW c \in PsCalls, PsFails(c) \/ PsShutdown(c) PROVE PsSourced'
  <2>1. /\ \A d \in PsCalls : d # c => psCall'[d] = psCall[d] /\ psChild'[d] = psChild[d]
        /\ UNCHANGED <<psFiles, psActive, psInstall, psAgain>> /\ psChild'[c] = "none" /\ psCall'[c] = NoCall
    BY <1>6 DEF PsTyped, PsFails, PsShutdown
  <2> QED BY <1>0, <2>1, PsCallSourced
<1>7. ASSUME NEW c \in PsCalls, PsChildDies(c) PROVE PsSourced'
  <2>1. /\ \A d \in PsCalls : d # c => psCall'[d] = psCall[d] /\ psChild'[d] = psChild[d]
        /\ UNCHANGED <<psFiles, psActive, psInstall, psAgain>> /\ psChild'[c] = Gone /\ psCall'[c] = psCall[c]
    BY <1>7 DEF PsTyped, PsChildDies
  <2>2. psCall[c].at \in {"tell", "session"}
    <3>1. psChild[c] # "none"
      BY <1>7 DEF PsChildDies
    <3> QED BY <1>b, <3>1
  <2> QED BY <2>1, <2>2, PsCallSourced
<1>8. ASSUME NEW i \in PsInstallers, PsInstallBegin(i) PROVE PsSourced'
  <2>1. PICK r \in PsReleases :
          /\ psInstall' = [psInstall EXCEPT ![i] = [release |-> r, step |-> 0]]
          /\ psAgain' = IF psFiles[r] = <<"absent", "absent">> /\ \A j \in PsInstallers : psInstall[j].release # r
                        THEN psAgain ELSE psAgain \cup {r}
          /\ UNCHANGED <<psCall, psChild, psFiles, psActive>>
    BY <1>8 DEF PsInstallBegin
  <2>2. psAgain \subseteq psAgain'
    BY <2>1
  <2>3. /\ \A j \in PsInstallers : j # i => psInstall'[j] = psInstall[j]
        /\ psInstall'[i].release = r /\ psInstall'[i].step = 0
    BY <2>1 DEF PsTyped
  <2>4. r \notin psAgain' =>
          psFiles[r] = <<"absent", "absent">> /\ \A j \in PsInstallers : psInstall[j].release # r
    BY <2>1
  <2>5. PsOneInstaller'
    BY <2>2, <2>3, <2>4 DEF PsSourced, PsOneInstaller
  <2>6. PsInstallerAt'
    BY <2>1, <2>2, <2>3, <2>4 DEF PsSourced, PsInstallerAt
  <2>7. PsPointed' /\ PsFound' /\ PsChildren'
    BY <2>1, <2>2 DEF PsSourced, PsPointed, PsFound, PsChildren
  <2> QED BY <2>5, <2>6, <2>7 DEF PsSourced
<1>9. ASSUME NEW i \in PsInstallers, PsInstallStep(i) PROVE PsSourced'
  <2> DEFINE r == psInstall[i].release
             step == psInstall[i].step
  <2>1. r \in PsReleases /\ step \in Nat /\ UNCHANGED <<psCall, psChild, psAgain>>
    BY <1>9 DEF PsTyped, PsInstallStep
  <2>2. \A j \in PsInstallers : j # i => psInstall'[j] = psInstall[j]
    BY <1>9 DEF PsTyped, PsInstallStep
  <2>3. \/ step = 5 /\ psInstall'[i].release = "none"
        \/ step # 5 /\ psInstall'[i].release = r /\ psInstall'[i].step = step + 1
    BY <1>0, <1>9 DEF PsTyped, PsInstallStep
  <2>4. \A s \in PsReleases : s # r => psFiles'[s] = psFiles[s]
    BY <1>9, <2>1 DEF PsTyped, PsInstallStep
  <2>5. psFiles'[r][1] = IF step = 0 THEN "torn" ELSE IF step = 1 THEN "whole" ELSE psFiles[r][1]
    <3>1. CASE step = 0
      BY <1>9, <2>1, <3>1 DEF PsTyped, PsInstallStep
    <3>2. CASE step = 1
      BY <1>9, <2>1, <3>2 DEF PsTyped, PsInstallStep
    <3>3. CASE step = 2
      BY <1>9, <2>1, <3>3 DEF PsTyped, PsInstallStep
    <3>4. CASE step = 3
      BY <1>9, <2>1, <3>4 DEF PsTyped, PsInstallStep
    <3>5. CASE step \notin {0, 1, 2, 3}
      BY <1>9, <2>1, <3>5 DEF PsTyped, PsInstallStep
    <3> QED BY <3>1, <3>2, <3>3, <3>4, <3>5
  <2>6. psActive' = IF step = 4 THEN "torn" ELSE IF step = 5 THEN r ELSE psActive
    BY <1>9 DEF PsInstallStep
  <2> HIDE DEF step, r
  <2>7. r \notin psAgain => /\ step = 0 => psFiles[r][1] = "absent"
                            /\ step >= 2 => psFiles[r][1] = "whole"
                            /\ \A j \in PsInstallers : j # i => psInstall[j].release # r
    <3>1. r \notin psAgain => /\ step = 0 => psFiles[r][1] = "absent"
                              /\ step >= 2 => psFiles[r][1] = "whole"
      BY <2>1 DEF PsSourced, PsInstallerAt, r, step
    <3>2. r \notin psAgain => \A j \in PsInstallers : j # i => psInstall[j].release # r
      BY <2>1 DEF PsSourced, PsOneInstaller, r
    <3> QED BY <3>1, <3>2
  <2>8. \A s \in PsReleases \ psAgain : psFiles[s][1] = "whole" => psFiles'[s][1] = "whole"
    <3> SUFFICES ASSUME NEW t \in PsReleases \ psAgain, psFiles[t][1] = "whole" PROVE psFiles'[t][1] = "whole"
      OBVIOUS
    <3>1. CASE t # r
      BY <2>4, <3>1
    <3>2. CASE t = r
      <4>1. step # 0
        BY <2>7, <3>2
      <4> QED BY <2>5, <3>2, <4>1
    <3> QED BY <3>1, <3>2
  <2>9. PsOneInstaller'
    BY <1>r, <2>1, <2>2, <2>3, <2>7 DEF PsSourced, PsOneInstaller
  <2>10. PsInstallerAt'
    <3> SUFFICES ASSUME NEW j \in PsInstallers, psInstall'[j].release \in PsReleases \ psAgain
                 PROVE  /\ psInstall'[j].step = 0 => psFiles'[psInstall'[j].release][1] = "absent"
                        /\ psInstall'[j].step >= 2 => psFiles'[psInstall'[j].release][1] = "whole"
      BY <2>1 DEF PsInstallerAt
    <3>1. CASE j = i
      <4>1. step # 5 /\ psInstall'[i].release = r /\ psInstall'[i].step = step + 1 /\ r \notin psAgain
        BY <1>r, <2>3, <3>1
      <4>2. psInstall'[i].step # 0 /\ (psInstall'[i].step >= 2 => step = 1 \/ step >= 2)
        BY <2>1, <4>1
      <4>3. step = 1 \/ step >= 2 => psFiles'[r][1] = "whole"
        BY <2>1, <2>5, <2>7, <4>1
      <4> QED BY <3>1, <4>1, <4>2, <4>3
    <3>2. CASE j # i
      <4>1. psInstall'[j] = psInstall[j] /\ psInstall[j].release # r
        BY <2>2, <2>7, <3>2
      <4> QED BY <2>4, <4>1 DEF PsSourced, PsInstallerAt
    <3> QED BY <3>1, <3>2
  <2>11. PsPointed'
    <3> SUFFICES ASSUME psActive' \in PsReleases \ psAgain PROVE psFiles'[psActive'][1] = "whole"
      BY <2>1 DEF PsPointed
    <3>1. CASE step = 5
      BY <2>5, <2>6, <2>7, <3>1
    <3>2. CASE step # 5
      <4>1. psActive' = psActive
        BY <1>r, <2>6, <3>2
      <4> QED BY <2>8, <4>1 DEF PsSourced, PsPointed
    <3> QED BY <3>1, <3>2
  <2>12. PsFound'
    BY <2>1, <2>8 DEF PsSourced, PsFound
  <2>13. PsChildren'
    BY <2>1 DEF PsSourced, PsChildren
  <2> QED BY <2>9, <2>10, <2>11, <2>12, <2>13 DEF PsSourced
<1>10. ASSUME NEW i \in PsInstallers, PsInstallFails(i) PROVE PsSourced'
  <2>1. /\ \A j \in PsInstallers : j # i => psInstall'[j] = psInstall[j]
        /\ psInstall'[i].release = "none" /\ UNCHANGED <<psCall, psChild, psFiles, psActive, psAgain>>
    BY <1>0, <1>10 DEF PsTyped, PsInstallFails
  <2>2. PsOneInstaller' /\ PsInstallerAt'
    BY <1>r, <2>1 DEF PsSourced, PsOneInstaller, PsInstallerAt
  <2>3. PsPointed' /\ PsFound' /\ PsChildren'
    BY <2>1 DEF PsSourced, PsPointed, PsFound, PsChildren
  <2> QED BY <2>2, <2>3 DEF PsSourced
<1>11. CASE UNCHANGED psVars
  BY <1>11 DEF psVars, PsSourced, PsOneInstaller, PsInstallerAt, PsPointed, PsFound, PsChildren
<1> QED
  BY <1>1, <1>2, <1>3, <1>4, <1>5, <1>6, <1>7, <1>8, <1>9, <1>10, <1>11 DEF PsNext

-----------------------------------------------------------------------------
PsInv == PsTyped /\ PsLimiter /\ PsTold /\ PsSourced

LEMMA PsInvAtFirst == PsInit => PsInv
<1>1. PsInit => PsTold
  BY DEF PsInit, PsTold, PsToldSoFar, NoCall
<1>2. PsInit => PsSourced
  <2> SUFFICES ASSUME PsInit PROVE PsSourced
    OBVIOUS
  <2>1. "none" \notin PsReleases
    BY PsAssumption
  <2> QED BY <2>1 DEF PsInit, PsSourced, PsOneInstaller, PsInstallerAt, PsPointed, PsFound, PsChildren, NoCall, NoInstall
<1> QED
  BY <1>1, <1>2, PsTypedAtFirst, PsLimiterAtFirst DEF PsInv

LEMMA PsInvGives == PsInv => PsStartKept
<1> SUFFICES ASSUME PsInv PROVE PsStartKept
  OBVIOUS
<1>1. /\ Cardinality({c \in PsCalls : Holds(c)}) <= PsLimit
      /\ psCount = Cardinality({c \in PsCalls : Holds(c)}) + Cardinality({c \in PsCalls : psCall[c].at = "counted"})
  <2>1. PsTyped /\ PsLimiter /\ PsCounts
    BY DEF PsInv, PsLimiter
  <2>2. Cardinality(PsHolders) <= PsLimit
    BY <2>1, PsLimitKept
  <2> QED BY <2>1, <2>2 DEF PsCounts, PsHolders, PsCounted
<1>2. \A c \in PsCalls : /\ psChild[c] # "none" => psCall[c].at \in {"tell", "session"}
                         /\ psChild[c] \in {"torn", "absent"} => psCall[c].program \in psAgain
  BY DEF PsInv, PsSourced, PsChildren
<1>3. \A c \in PsCalls : psCall[c].at = "session" => psCall[c].told = Handshake(psCall[c].kind, psCall[c].mode)
  BY DEF PsInv, PsTold, PsToldSoFar
<1> QED
  BY <1>1, <1>2, <1>3 DEF PsStartKept

(* PsStartKept: however many clients start sessions and install releases at   *)
(* once, Antigravity's limiter lets no more than its limit through and counts *)
(* exactly those under way, every session was told all it is to be told, and  *)
(* a child of a torn program comes only from a release installed over.        *)
THEOREM PsStartHolds == PsSpec => []PsStartKept
<1>1. PsInv /\ [PsNext]_psVars => PsInv'
  BY PsTypedKept, PsLimiterKept, PsToldKept, PsSourcedKept DEF PsInv
<1> QED
  BY PsInvAtFirst, <1>1, PsInvGives, PTL DEF PsSpec

-----------------------------------------------------------------------------
(* One session.  What was sent has smaller ids than the next one, and as long *)
(* as the preamble is there nothing has been prompted or told.                *)
PvSentRecs ==
  [what : {"thread/start", "arguments", "initialize", "session/new", "prompt", "answer", "cancel"},
   id : Nat, pre : BOOLEAN]
PvToldAt == {i \in DOMAIN pvSent : pvSent[i].pre}
PvPromptAt == {i \in DOMAIN pvSent : pvSent[i].what = "prompt"}

PvTypes ==
  /\ pvKind \in PvKinds /\ pvPrinted \in Seq(PvLines) /\ pvParsed \in 0..Len(pvPrinted)
  /\ pvChan \in Seq(PvLines) /\ pvGot \in Seq(PvLines)
  /\ pvSent \in Seq(PvSentRecs) /\ pvNextId \in Nat /\ pvPreamble \in BOOLEAN
PvIds ==
  /\ pvKind = "claude" => pvNextId = 0
  /\ \A i \in DOMAIN pvSent : pvSent[i].id # 0 => pvSent[i].id < pvNextId
  /\ \A i, j \in DOMAIN pvSent : pvSent[i].id # 0 /\ pvSent[i].id = pvSent[j].id => i = j
PvTold ==
  /\ pvPreamble => pvKind = "acp" /\ PvToldAt = {} /\ PvPromptAt = {}
  /\ \A i, j \in PvToldAt : i = j
  /\ pvInstr /\ ~pvPreamble /\ pvKind \in {"codex", "claude", "acp"} /\ pvChild # "dead" =>
       \E i \in PvToldAt : \A j \in PvPromptAt : i <= j
PvInv == PvTypes /\ PvIds /\ PvTold /\ PvStreamKept

LEMMA PvInvOnce == PvInv => PvEachOnce
<1> SUFFICES ASSUME PvInv PROVE PvToldOnce
  BY DEF PvInv, PvEachOnce
<1>1. \A i, j \in {k \in DOMAIN pvSent : pvSent[k].id # 0} : pvSent[i].id = pvSent[j].id => i = j
  BY DEF PvInv, PvIds
<1>2. \A i, j \in PvToldAt : i = j
  BY DEF PvInv, PvTold
<1>3. ASSUME pvInstr, pvKind \in {"codex", "claude", "acp"}, pvChild # "dead", PvPromptAt # {}
      PROVE  \E i \in PvToldAt : \A j \in PvPromptAt : i <= j
  BY <1>3 DEF PvInv, PvTold
<1> QED
  BY <1>1, <1>2, <1>3 DEF PvToldOnce, PvToldAt, PvPromptAt

LEMMA PvTwo ==
  ASSUME NEW S, NEW a \in S, NEW b \in S
  PROVE  <<a, b>> \in Seq(S) /\ DOMAIN <<a, b>> = {1, 2} /\ <<a, b>>[1] = a /\ <<a, b>>[2] = b
OBVIOUS

LEMMA PvStarts == PvInit => PvInv
<1> SUFFICES ASSUME PvInit PROVE PvInv
  OBVIOUS
<1>1. /\ pvSent \in Seq(PvSentRecs) /\ PvPromptAt = {}
      /\ \A i \in DOMAIN pvSent : pvSent[i].id # 0 => pvSent[i].id < pvNextId
      /\ \A i, j \in DOMAIN pvSent : pvSent[i].id # 0 /\ pvSent[i].id = pvSent[j].id => i = j
      /\ \A i \in PvToldAt : i = 1 /\ pvKind \in {"codex", "claude"}
      /\ pvKind \in {"codex", "claude"} /\ pvInstr => 1 \in PvToldAt
  <2>1. CASE pvKind = "codex"
    BY <2>1 DEF PvInit, PvHandshake, PvFirstId, PvCodexTold, PvMsg, PvSentRecs, PvToldAt, PvPromptAt
  <2>2. CASE pvKind = "claude"
    BY <2>2 DEF PvInit, PvHandshake, PvFirstId, PvClaudeTold, PvMsg, PvSentRecs, PvToldAt, PvPromptAt
  <2>3. CASE pvKind = "serve"
    BY <2>3 DEF PvInit, PvHandshake, PvFirstId, PvMsg, PvSentRecs, PvToldAt, PvPromptAt
  <2>4. CASE pvKind \in {"acp", "antigravity"}
    <3> DEFINE a == PvMsg("initialize", 1, FALSE)
               b == PvMsg("session/new", 2, FALSE)
    <3>1. pvSent = <<a, b>> /\ pvNextId = 10
      BY <2>4 DEF PvInit, PvHandshake, PvFirstId, PvAcpTold
    <3>2. /\ a \in PvSentRecs /\ a.id = 1 /\ ~a.pre /\ a.what # "prompt"
          /\ b \in PvSentRecs /\ b.id = 2 /\ ~b.pre /\ b.what # "prompt"
      BY DEF PvMsg, PvSentRecs
    <3> HIDE DEF a, b
    <3>3. pvSent \in Seq(PvSentRecs) /\ DOMAIN pvSent = {1, 2} /\ pvSent[1] = a /\ pvSent[2] = b
      BY <3>1, <3>2, PvTwo
    <3>4. /\ pvSent[1].id = 1 /\ pvSent[2].id = 2 /\ ~pvSent[1].pre /\ ~pvSent[2].pre
          /\ pvSent[1].what # "prompt" /\ pvSent[2].what # "prompt"
      BY <3>2, <3>3
    <3>5. PvPromptAt = {} /\ PvToldAt = {}
      BY <3>3, <3>4 DEF PvToldAt, PvPromptAt
    <3>6. /\ \A i \in DOMAIN pvSent : pvSent[i].id # 0 => pvSent[i].id < pvNextId
          /\ \A i, j \in DOMAIN pvSent : pvSent[i].id # 0 /\ pvSent[i].id = pvSent[j].id => i = j
      <4> DEFINE id(i) == pvSent[i].id
      <4>1. id(1) = 1 /\ id(2) = 2
        BY <3>4
      <4> HIDE DEF id
      <4>2. \A i \in {1, 2} : id(i) # 0 => id(i) < 10
        BY <4>1
      <4>3. \A i, j \in {1, 2} : id(i) = id(j) => i = j
        BY <4>1
      <4> QED
        BY <3>1, <3>3, <4>2, <4>3 DEF id
    <3> QED
      BY <2>4, <3>3, <3>5, <3>6
  <2> QED
    BY <2>1, <2>2, <2>3, <2>4 DEF PvInit, PvKinds
<1>2. PvTypes
  <2>1. pvPreamble \in BOOLEAN
    BY DEF PvInit
  <2>2. pvNextId \in Nat /\ pvKind \in PvKinds /\ pvPrinted \in Seq(PvLines) /\ pvParsed \in 0..Len(pvPrinted)
    BY DEF PvInit, PvFirstId
  <2>3. pvChan \in Seq(PvLines) /\ pvGot \in Seq(PvLines)
    <3>1. << >> \in Seq(PvLines) /\ <<"text">> \in Seq(PvLines)
      BY DEF PvLines
    <3> QED
      BY <3>1 DEF PvInit
  <2> QED
    BY <1>1, <2>1, <2>2, <2>3 DEF PvTypes
<1>3. PvIds
  BY <1>1 DEF PvInit, PvIds, PvFirstId
<1>4. PvTold
  <2>1. pvPreamble <=> pvKind = "acp" /\ pvInstr
    BY DEF PvInit
  <2> QED
    BY <1>1, <2>1 DEF PvTold
<1>5. PvStreamKept
  <2>1. pvKind # "serve" => pvGot \o pvChan = << >>
    BY DEF PvInit
  <2>2. PvReported(pvParsed) = {}
    BY DEF PvInit, PvReported
  <2> QED
    BY <2>1, <2>2, FS_EmptySet DEF PvStreamKept
<1> QED
  BY <1>2, <1>3, <1>4, <1>5 DEF PvInv

(* A message to the child: with the next id or none, and the instructions     *)
(* only if the preamble was there.                                            *)
LEMMA PvWriteKeeps ==
  ASSUME PvInv, NEW msg \in PvSentRecs, PvWrite(msg), UNCHANGED <<PvSession, pvChild>>,
         \/ msg.id = 0 /\ pvNextId' = pvNextId
         \/ msg.id = pvNextId /\ pvNextId' = IF pvKind = "claude" THEN 0 ELSE pvNextId + 1,
         msg.pre <=> (msg.what = "prompt" /\ pvPreamble),
         pvPreamble' \in BOOLEAN, pvPreamble' <=> (pvPreamble /\ msg.what # "prompt")
  PROVE  PvInv'
<1>1. pvSent' = IF pvChild = "dead" THEN pvSent ELSE Append(pvSent, msg)
  BY DEF PvWrite
<1>2. pvSent \in Seq(PvSentRecs) /\ pvNextId \in Nat /\ Len(pvSent) \in Nat /\ DOMAIN pvSent = 1..Len(pvSent)
  BY LenProperties DEF PvInv, PvTypes
<1>3. UNCHANGED <<pvKind, pvInstr, pvPrinted, pvParsed, pvParser, pvChan, pvGot, pvEnded, pvChild>>
  BY DEF PvSession
<1>4. PvStreamKept'
  BY <1>3 DEF PvInv, PvStreamKept, PvReported, PvReports
<1>5. CASE pvChild = "dead"
  <2>1. pvSent' = pvSent /\ pvNextId' \in Nat /\ (pvNextId' = pvNextId \/ pvNextId' = pvNextId + 1 \/ pvKind = "claude")
    BY <1>1, <1>2, <1>5
  <2>2. PvIds'
    <3>1. pvKind = "claude" => pvNextId' = 0 /\ pvNextId = 0
      BY <1>2 DEF PvInv, PvIds
    <3>2. pvNextId' = pvNextId \/ pvNextId' = pvNextId + 1
      BY <2>1, <3>1
    <3>3. \A i \in DOMAIN pvSent : pvSent[i].id \in Nat
      <4> SUFFICES ASSUME NEW i \in DOMAIN pvSent PROVE pvSent[i].id \in Nat
        OBVIOUS
      <4>1. pvSent[i] \in PvSentRecs
        BY <1>2, ElementOfSeq
      <4> QED
        BY <4>1 DEF PvSentRecs
    <3> QED
      BY <1>2, <1>3, <2>1, <3>1, <3>2, <3>3 DEF PvInv, PvIds
  <2>3. PvTold'
    BY <1>3, <1>5, <2>1 DEF PvInv, PvTold, PvToldAt, PvPromptAt
  <2> QED
    BY <1>2, <1>3, <1>4, <2>1, <2>2, <2>3 DEF PvInv, PvTypes
<1>6. CASE pvChild # "dead"
  <2> DEFINE last == Len(pvSent) + 1
  <2>1. /\ pvSent' \in Seq(PvSentRecs) /\ DOMAIN pvSent' = DOMAIN pvSent \cup {last} /\ last \notin DOMAIN pvSent
        /\ pvSent'[last] = msg /\ \A i \in DOMAIN pvSent : pvSent'[i] = pvSent[i] /\ i < last /\ i \in Nat
        /\ last \in Nat
    BY <1>1, <1>2, <1>6, AppendProperties
  <2> HIDE DEF last
  <2>2. msg.id \in Nat /\ msg.pre \in BOOLEAN /\ \A i \in DOMAIN pvSent : pvSent[i].id \in Nat
    <3>1. \A i \in DOMAIN pvSent : pvSent[i] \in PvSentRecs
      BY <1>2, ElementOfSeq
    <3> QED
      BY <3>1 DEF PvSentRecs
  <2>3. pvNextId' \in Nat /\ (msg.id # 0 => msg.id = pvNextId /\ pvNextId' = pvNextId + 1)
        /\ pvNextId' >= pvNextId /\ (pvKind = "claude" => pvNextId' = 0)
    BY <1>2 DEF PvInv, PvIds
  <2>4. PvIds'
    <3>1. \A i \in DOMAIN pvSent : pvSent[i].id # 0 => pvSent[i].id < pvNextId
      BY DEF PvInv, PvIds
    <3>2. \A i \in DOMAIN pvSent' : pvSent'[i].id # 0 => pvSent'[i].id < pvNextId'
      BY <1>2, <2>1, <2>2, <2>3, <3>1
    <3>3. ASSUME NEW i \in DOMAIN pvSent', NEW j \in DOMAIN pvSent', pvSent'[i].id # 0, pvSent'[i].id = pvSent'[j].id
          PROVE  i = j
      <4>1. CASE i \in DOMAIN pvSent /\ j \in DOMAIN pvSent
        BY <2>1, <3>3, <4>1 DEF PvInv, PvIds
      <4>2. CASE i = last /\ j \in DOMAIN pvSent
        BY <1>2, <2>1, <2>2, <2>3, <3>1, <3>3, <4>2
      <4>3. CASE i \in DOMAIN pvSent /\ j = last
        BY <1>2, <2>1, <2>2, <2>3, <3>1, <3>3, <4>3
      <4> QED
        BY <2>1, <4>1, <4>2, <4>3
    <3> QED
      BY <1>3, <2>3, <3>2, <3>3 DEF PvIds
  <2>5. PvToldAt' = PvToldAt \cup {i \in {last} : msg.pre}
    BY <2>1 DEF PvToldAt
  <2>6. PvPromptAt' = PvPromptAt \cup {i \in {last} : msg.what = "prompt"}
    BY <2>1 DEF PvPromptAt
  <2>7. \A i \in PvToldAt : i < last
    BY <2>1 DEF PvToldAt
  <2>8. PvTold'
    <3>1. pvPreamble' => pvKind' = "acp" /\ PvToldAt' = {} /\ PvPromptAt' = {}
      BY <1>3, <2>5, <2>6 DEF PvInv, PvTold
    <3>2. CASE msg.pre
      <4>1. PvToldAt' = {last} /\ PvPromptAt' = {last}
        BY <2>5, <2>6, <3>2 DEF PvInv, PvTold
      <4> QED
        BY <2>1, <3>1, <4>1 DEF PvTold
    <3>3. CASE ~msg.pre
      <4>1. PvToldAt' = PvToldAt
        BY <2>5, <3>3
      <4>2. pvPreamble' <=> pvPreamble
        BY <3>3
      <4>3. ASSUME pvInstr', ~pvPreamble', pvKind' \in {"codex", "claude", "acp"}, pvChild' # "dead"
            PROVE  \E i \in PvToldAt' : \A j \in PvPromptAt' : i <= j
        <5>1. PICK i \in PvToldAt : \A j \in PvPromptAt : i <= j
          BY <1>3, <4>2, <4>3 DEF PvInv, PvTold
        <5>2. i <= last /\ i \in PvToldAt'
          BY <2>1, <2>7, <4>1 DEF PvToldAt
        <5> QED
          BY <2>6, <5>1, <5>2
      <4> QED
        BY <3>1, <4>1, <4>3 DEF PvInv, PvTold
    <3> QED
      BY <2>2, <3>2, <3>3
  <2> QED
    BY <1>3, <1>4, <2>1, <2>3, <2>4, <2>8 DEF PvInv, PvTypes
<1> QED
  BY <1>5, <1>6

(* The child, the parser and the taker do not touch what was sent.            *)
LEMMA PvQuietKeeps ==
  ASSUME PvInv, UNCHANGED <<pvKind, pvInstr, pvSent, pvNextId, pvPreamble>>,
         pvChild' \in {pvChild, "stuck", "dead"}, pvChild = "dead" => pvChild' = "dead"
  PROVE  PvIds' /\ PvTold'
BY DEF PvInv, PvIds, PvTold, PvToldAt, PvPromptAt

LEMMA PvStepKeeps == PvInv /\ [PvNext]_pvVars => PvInv'
<1> SUFFICES ASSUME PvInv, [PvNext]_pvVars PROVE PvInv'
  OBVIOUS
<1>0. /\ pvKind \in PvKinds /\ pvPrinted \in Seq(PvLines) /\ pvParsed \in 0..Len(pvPrinted)
      /\ pvChan \in Seq(PvLines) /\ pvGot \in Seq(PvLines) /\ pvNextId \in Nat /\ pvPreamble \in BOOLEAN
      /\ pvSent \in Seq(PvSentRecs)
      /\ Len(pvPrinted) \in Nat /\ Len(pvGot) \in Nat /\ Len(pvChan) \in Nat
  BY LenProperties DEF PvInv, PvTypes
<1>1. CASE PvSendTurn
  <2> DEFINE msg == CASE pvKind = "codex" -> PvCodexPrompt
                      [] pvKind = "claude" -> PvClaudePrompt
                      [] OTHER -> PvAcpPrompt
  <2>1. PvWrite(msg) /\ UNCHANGED <<PvSession, pvChild>> /\ ~pvPreamble' /\ pvPreamble' \in BOOLEAN
        /\ pvNextId' = IF pvKind = "claude" THEN 0 ELSE pvNextId + 1
    BY <1>1 DEF PvSendTurn, PvTakePreamble, PvTakeId
  <2>2. /\ msg.what = "prompt" /\ (msg.id = pvNextId)
        /\ msg.pre <=> pvPreamble
        /\ msg \in PvSentRecs
    <3>1. pvPreamble => pvKind = "acp"
      BY DEF PvInv, PvTold
    <3>2. pvKind = "claude" => pvNextId = 0
      BY DEF PvInv, PvIds
    <3>3. CASE pvKind = "codex"
      BY <1>0, <3>1, <3>3 DEF PvCodexPrompt, PvMsg, PvSentRecs
    <3>4. CASE pvKind = "claude"
      BY <1>0, <3>1, <3>2, <3>4 DEF PvClaudePrompt, PvMsg, PvSentRecs
    <3>5. CASE pvKind \notin {"codex", "claude"}
      BY <1>0, <3>5 DEF PvAcpPrompt, PvMsg, PvSentRecs
    <3> QED
      BY <3>3, <3>4, <3>5
  <2> HIDE DEF msg
  <2> QED
    BY <2>1, <2>2, PvWriteKeeps
<1>2. CASE PvRespond
  <2>1. UNCHANGED <<PvSession, pvChild>> /\ pvPreamble' = pvPreamble
    BY <1>2 DEF PvRespond
  <2>2. CASE pvKind = "codex"
    <3> DEFINE msg == PvMsg("answer", pvNextId, FALSE)
    <3>1. PvWrite(msg) /\ pvNextId' = IF pvKind = "claude" THEN 0 ELSE pvNextId + 1
      BY <1>2, <2>2 DEF PvRespond, PvCodexAnswers, PvTakeId
    <3>2. msg \in PvSentRecs /\ msg.id = pvNextId /\ msg.what = "answer" /\ ~msg.pre
      BY <1>0 DEF PvMsg, PvSentRecs
    <3> HIDE DEF msg
    <3> QED
      BY <1>0, <2>1, <3>1, <3>2, PvWriteKeeps
  <2>3. CASE pvKind # "codex"
    <3> DEFINE msg == PvMsg("answer", 0, FALSE)
    <3>1. PvWrite(msg) /\ pvNextId' = pvNextId
      BY <1>2, <2>3 DEF PvRespond, PvEchoAnswers
    <3>2. msg \in PvSentRecs /\ msg.id = 0 /\ msg.what = "answer" /\ ~msg.pre
      BY <1>0 DEF PvMsg, PvSentRecs
    <3> HIDE DEF msg
    <3> QED
      BY <1>0, <2>1, <3>1, <3>2, PvWriteKeeps
  <2> QED
    BY <2>2, <2>3
<1>3. CASE PvInterrupt
  <2> DEFINE msg == PvMsg("cancel", pvNextId, FALSE)
  <2>1. /\ PvWrite(msg) /\ pvNextId' = IF pvKind = "claude" THEN 0 ELSE pvNextId + 1
        /\ UNCHANGED <<PvSession, pvChild>> /\ pvPreamble' = pvPreamble
    BY <1>3 DEF PvInterrupt, PvTakeId
  <2>2. msg \in PvSentRecs /\ msg.id = pvNextId /\ msg.what = "cancel" /\ ~msg.pre
    BY <1>0 DEF PvMsg, PvSentRecs
  <2> HIDE DEF msg
  <2> QED
    BY <1>0, <2>1, <2>2, PvWriteKeeps
<1>4. CASE PvKill \/ \E how \in {"stuck", "dead"} : PvChildStops(how)
  <2>1. /\ UNCHANGED <<pvKind, pvInstr, pvPrinted, pvParsed, pvChan, pvGot, pvSent, pvNextId, pvPreamble>>
        /\ pvChild' \in {"stuck", "dead"} /\ (pvChild = "dead" => pvChild' = "dead")
    BY <1>4 DEF PvKill, PvChildStops, PvSession
  <2>2. PvIds' /\ PvTold'
    BY <2>1, PvQuietKeeps
  <2> QED
    BY <2>1, <2>2 DEF PvInv, PvTypes, PvStreamKept, PvReported, PvReports
<1>5. CASE \E line \in PvLines : PvChildPrints(line)
  <2>1. PICK line \in PvLines : PvChildPrints(line)
    BY <1>5
  <2>2. /\ UNCHANGED <<pvKind, pvInstr, pvChild, pvParsed, pvChan, pvGot, pvSent, pvNextId, pvPreamble>>
        /\ pvPrinted' = Append(pvPrinted, line)
    BY <2>1 DEF PvChildPrints
  <2>3. PvIds' /\ PvTold'
    BY <2>2, PvQuietKeeps
  <2>4. /\ pvPrinted' \in Seq(PvLines) /\ Len(pvPrinted') = Len(pvPrinted) + 1
        /\ \A i \in 1..Len(pvPrinted) : pvPrinted'[i] = pvPrinted[i]
    BY <1>0, <2>2, AppendProperties
  <2>5. \A i \in 0..pvParsed : PvReported(i)' = PvReported(i)
    <3>1. \A j \in 1..pvParsed : pvPrinted'[j] = pvPrinted[j]
      BY <1>0, <2>4
    <3>2. PvReports' = PvReports
      BY <2>2 DEF PvReports
    <3> QED
      BY <1>0, <3>1, <3>2 DEF PvReported
  <2>6. PvStreamKept'
    <3>1. PvReported(pvParsed)' = PvReported(pvParsed)
      BY <1>0, <2>2, <2>5 DEF PvReported, PvReports
    <3>2. \A i \in PvReported(pvParsed) : i \in 1..pvParsed /\ pvPrinted'[i] = pvPrinted[i] /\ PvReported(i)' = PvReported(i)
      BY <1>0, <2>4, <2>5 DEF PvReported
    <3> QED
      BY <2>2, <3>1, <3>2 DEF PvInv, PvStreamKept
  <2> QED
    BY <1>0, <2>2, <2>3, <2>4, <2>6 DEF PvInv, PvTypes
<1>6. CASE PvParse
  <2> DEFINE next == pvParsed + 1
             line == pvPrinted[next]
             got == pvGot \o pvChan
  <2>1. /\ pvParser /\ Len(pvPrinted) > pvParsed /\ pvChan' = pvChan \o PvEvents(line) /\ pvParsed' = next
        /\ UNCHANGED <<pvKind, pvInstr, pvChild, pvPrinted, pvGot, pvSent, pvNextId, pvPreamble>>
    BY <1>6 DEF PvParse, PvUnread
  <2>2. PvIds' /\ PvTold'
    BY <2>1, PvQuietKeeps
  <2>3. next \in 1..Len(pvPrinted) /\ line \in PvLines /\ next \in Nat /\ pvParsed \in Nat
    BY <1>0, <2>1, ElementOfSeq
  <2> HIDE DEF line
  <2>4. /\ PvEvents(line) \in Seq(PvLines) /\ pvChan' \in Seq(PvLines)
    BY <1>0, <2>1, <2>3, ConcatProperties DEF PvEvents
  <2>5. \A i : PvReported(i)' = PvReported(i)
    BY <2>1 DEF PvReported, PvReports
  <2>6. /\ PvReported(next) = IF line \in PvReports THEN PvReported(pvParsed) \cup {next} ELSE PvReported(pvParsed)
        /\ next \notin PvReported(pvParsed)
    BY <2>3 DEF PvReported, line
  <2>7. IsFiniteSet(PvReported(pvParsed)) /\ Cardinality(PvReported(pvParsed)) \in Nat
    <3>1. IsFiniteSet(1..pvParsed)
      BY <2>3, FS_Interval
    <3>2. PvReported(pvParsed) \subseteq 1..pvParsed
      BY DEF PvReported
    <3>3. IsFiniteSet(PvReported(pvParsed))
      BY <3>1, <3>2, FS_Subset
    <3> QED
      BY <3>3, FS_CardinalityType
  <2>8. \A i \in PvReported(pvParsed) : Cardinality(PvReported(i)) \in 1..Cardinality(PvReported(pvParsed))
    <3> SUFFICES ASSUME NEW i \in PvReported(pvParsed)
                 PROVE  Cardinality(PvReported(i)) \in 1..Cardinality(PvReported(pvParsed))
      OBVIOUS
    <3>1. PvReported(i) \subseteq PvReported(pvParsed) /\ i \in PvReported(i)
      BY <2>3 DEF PvReported
    <3>2. IsFiniteSet(PvReported(i)) /\ Cardinality(PvReported(i)) <= Cardinality(PvReported(pvParsed))
      BY <2>7, <3>1, FS_Subset
    <3>3. Cardinality(PvReported(i)) \in Nat /\ Cardinality(PvReported(i)) # 0
      BY <3>1, <3>2, FS_CardinalityType, FS_EmptySet
    <3> QED
      BY <2>7, <3>2, <3>3
  <2>9. pvGot' \o pvChan' = got \o PvEvents(line) /\ got \in Seq(PvLines)
    <3>1. got \in Seq(PvLines)
      BY <1>0, ConcatProperties
    <3>2. (pvGot \o pvChan) \o PvEvents(line) = pvGot \o (pvChan \o PvEvents(line))
      <4> DEFINE more == PvEvents(line)
      <4>1. more \in Seq(PvLines)
        BY <2>4
      <4> HIDE DEF more
      <4>2. (pvGot \o pvChan) \o more = pvGot \o (pvChan \o more)
        BY <1>0, <4>1, ConcatAssociative
      <4> QED
        BY <4>2 DEF more
    <3> QED
      BY <2>1, <3>1, <3>2
  <2> HIDE DEF got
  <2>10. pvKind # "serve" =>
           /\ Len(got) = Cardinality(PvReported(pvParsed))
           /\ \A i \in PvReported(pvParsed) : got[Cardinality(PvReported(i))] = pvPrinted[i]
    BY DEF PvInv, PvStreamKept, got
  <2>11. PvStreamKept'
    <3> SUFFICES ASSUME pvKind # "serve"
                 PROVE  /\ Len(got \o PvEvents(line)) = Cardinality(PvReported(next))
                        /\ \A i \in PvReported(next) :
                             (got \o PvEvents(line))[Cardinality(PvReported(i))] = pvPrinted[i]
      BY <2>1, <2>5, <2>9 DEF PvStreamKept
    <3>1. CASE line \in PvReports
      <4>1. Cardinality(PvReported(next)) = Cardinality(PvReported(pvParsed)) + 1
        BY <2>6, <2>7, <3>1, FS_AddElement
      <4>2. PvEvents(line) = <<line>>
        BY <3>1 DEF PvEvents
      <4>3. /\ Len(got \o <<line>>) = Len(got) + 1 /\ (got \o <<line>>)[Len(got) + 1] = line
            /\ \A k \in 1..Len(got) : (got \o <<line>>)[k] = got[k]
        BY <2>3, <2>9, ConcatProperties
      <4> QED
        BY <2>6, <2>7, <2>8, <2>10, <3>1, <4>1, <4>2, <4>3 DEF line
    <3>2. CASE line \notin PvReports
      <4>1. got \o PvEvents(line) = got /\ PvReported(next) = PvReported(pvParsed)
        BY <2>6, <2>9, <3>2, ConcatEmptySeq DEF PvEvents
      <4> QED
        BY <2>10, <4>1
    <3> QED
      BY <3>1, <3>2
  <2> QED
    BY <1>0, <2>1, <2>2, <2>3, <2>4, <2>11 DEF PvInv, PvTypes
<1>7. CASE PvTake
  <2>1. /\ pvChan # << >> /\ pvGot' = Append(pvGot, Head(pvChan)) /\ pvChan' = Tail(pvChan)
        /\ UNCHANGED <<pvKind, pvInstr, pvChild, pvPrinted, pvParsed, pvSent, pvNextId, pvPreamble>>
    BY <1>7 DEF PvTake
  <2>2. PvIds' /\ PvTold'
    BY <2>1, PvQuietKeeps
  <2>3. pvChan = <<Head(pvChan)>> \o Tail(pvChan) /\ Head(pvChan) \in PvLines /\ Tail(pvChan) \in Seq(PvLines)
    BY <1>0, <2>1, HeadTailProperties
  <2>4. pvGot' \in Seq(PvLines) /\ pvGot' = pvGot \o <<Head(pvChan)>>
    BY <1>0, <2>1, <2>3, AppendIsConcat, AppendProperties
  <2>5. pvGot' \o pvChan' = pvGot \o pvChan
    <3>1. <<Head(pvChan)>> \in Seq(PvLines)
      BY <2>3
    <3>2. (pvGot \o <<Head(pvChan)>>) \o Tail(pvChan) = pvGot \o (<<Head(pvChan)>> \o Tail(pvChan))
      <4> DEFINE first == <<Head(pvChan)>>
                 rest == Tail(pvChan)
      <4>1. first \in Seq(PvLines) /\ rest \in Seq(PvLines) /\ pvGot \in Seq(PvLines)
        BY <1>0, <2>3, <3>1
      <4> HIDE DEF first, rest
      <4>2. (pvGot \o first) \o rest = pvGot \o (first \o rest)
        BY <4>1, ConcatAssociative
      <4> QED
        BY <4>2 DEF first, rest
    <3> QED
      BY <2>1, <2>3, <2>4, <3>2
  <2>6. PvStreamKept'
    BY <2>1, <2>5 DEF PvInv, PvStreamKept, PvReported, PvReports
  <2> QED
    BY <1>0, <2>1, <2>2, <2>3, <2>4, <2>6 DEF PvInv, PvTypes
<1>8. CASE UNCHANGED <<pvKind, pvInstr, pvChild, pvPrinted, pvParsed, pvChan, pvGot, pvSent, pvNextId, pvPreamble>>
  <2>1. PvIds' /\ PvTold'
    BY <1>8, PvQuietKeeps
  <2> QED
    BY <1>8, <2>1 DEF PvInv, PvTypes, PvStreamKept, PvReported, PvReports
<1> QED
  BY <1>1, <1>2, <1>3, <1>4, <1>5, <1>6, <1>7, <1>8 DEF PvNext, PvParserEnds, PvTakeEnd, pvVars

(* For any capacity of the channel and anything a child prints: the events of *)
(* its lines reach the taker once and in order, ids of requests are not used  *)
(* twice, and the instructions are told once, before or with the first prompt *)
(* (codex.rs, claude.rs, acp.rs).                                             *)
THEOREM PvPassesOnce == PvSpec => []PvEachOnce
<1>1. PvInit => PvInv
  BY PvStarts
<1>2. PvInv /\ [PvNext]_pvVars => PvInv'
  BY PvStepKeeps
<1>3. PvInv => PvEachOnce
  BY PvInvOnce
<1> QED
  BY <1>1, <1>2, <1>3, PTL DEF PvSpec
=============================================================================
