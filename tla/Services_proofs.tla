-------------------------- MODULE Services_proofs ---------------------------
(* The server's services, for every number of machines, calls, files and      *)
(* faults: commits sent to a repository elsewhere, the environment router,    *)
(* the work tree, attachments, what is told of the providers' health, and the *)
(* connections to other machines.                                             *)
EXTENDS WorktreeSync, HubRouter, Workspace, AttachmentUpload, ProviderHealth, SshRemote, FiniteSetTheorems,
        SequenceTheorems, WellFoundedInduction, TLAPS

-----------------------------------------------------------------------------
(* Commits sent to a repository elsewhere.  WkSyncedStays is not inductive:   *)
(* it needs that the branch a call fetched into is there, that calls go on    *)
(* only to repositories that are there, and that no step moves the branch     *)
(* "synced" of a repository otherwise than forward.                           *)
WkHist == Seq(Nat)
WkRepoRecs ==
  [branches : UNION {[D -> WkHist] : D \in SUBSET Branches}, head : Branches, tree : WkHist]
WkAnyPath == WkPaths \cup {CHOOSE p \in WkPaths : TRUE}
WkCallRecs ==
  [at : {"idle", "failed", "asked", "made", "verified", "fetched", "synced", "guessed"},
   env : Machines, local : WkAnyPath, remote : WkAnyPath, base : WkHist, branch : Branches,
   given : BOOLEAN, bundle : [tip : WkHist, base : WkHist], told : Nat]

WkTypes ==
  /\ wkRepos \in [DOMAIN wkRepos -> WkRepoRecs]
  /\ \A p \in WkPaths : <<"hub", p>> \in DOMAIN wkRepos
  /\ wkCalls \in [WkCalls -> WkCallRecs]
  /\ wkMade \in Nat

\* The work tree is the commit of the branch checked out.
WkCheckedOut ==
  \A r \in DOMAIN wkRepos :
    /\ wkRepos[r].head \in DOMAIN wkRepos[r].branches
    /\ wkRepos[r].tree = wkRepos[r].branches[wkRepos[r].head]

\* How far a call is, and what that means for the repository it goes to.
WkArrived(repos, call) ==
  /\ call.at \in {"verified", "fetched", "synced", "guessed"} => TargetOf(call) \in DOMAIN repos
  /\ call.at \in {"fetched", "synced", "guessed"} =>
       /\ call.branch \in DOMAIN repos[TargetOf(call)].branches
       /\ call.branch = "synced" =>
            IsPrefix(call.bundle.tip, repos[TargetOf(call)].branches["synced"])
  /\ call.at = "synced" /\ call.branch = "synced" => call.told >= Len(call.bundle.tip)

WkInv == WkTypes /\ WkCheckedOut /\ \A c \in WkCalls : WkArrived(wkRepos, wkCalls[c])

(* Histories.                                                                 *)
LEMMA PrefixIs ==
  ASSUME NEW s \in WkHist, NEW t \in WkHist
  PROVE  IsPrefix(s, t) <=> Len(s) <= Len(t) /\ \A i \in 1..Len(s) : s[i] = t[i]
<1>1. Len(s) \in Nat /\ Len(t) \in Nat
  BY LenProperties DEF WkHist
<1>2. ASSUME Len(s) <= Len(t)
      PROVE  SubSeq(s, 1, Len(s)) = SubSeq(t, 1, Len(s)) <=> \A i \in 1..Len(s) : s[i] = t[i]
  BY <1>1, <1>2 DEF WkHist
<1> QED
  BY <1>1, <1>2 DEF IsPrefix

LEMMA PrefixOfItself == ASSUME NEW s \in WkHist PROVE IsPrefix(s, s)
BY PrefixIs, LenProperties DEF WkHist

LEMMA PrefixOfPrefix ==
  ASSUME NEW s \in WkHist, NEW t \in WkHist, NEW u \in WkHist, IsPrefix(s, t), IsPrefix(t, u)
  PROVE  IsPrefix(s, u)
BY PrefixIs, LenProperties DEF WkHist

LEMMA PrefixOfAppend ==
  ASSUME NEW s \in WkHist, NEW n \in Nat
  PROVE  Append(s, n) \in WkHist /\ IsPrefix(s, Append(s, n))
<1> DEFINE t == Append(s, n)
<1>1. /\ t \in WkHist /\ Len(t) = Len(s) + 1 /\ Len(s) \in Nat
      /\ \A i \in 1..Len(s) : t[i] = s[i]
  BY AppendProperties, LenProperties DEF WkHist
<1> HIDE DEF t
<1>2. IsPrefix(s, t)
  BY <1>1, PrefixIs
<1> QED
  BY <1>1, <1>2 DEF t

(* git bundle: the commit that the base and the history share is a commit.    *)
LEMMA SharedCommit ==
  ASSUME NEW s \in WkHist, NEW t \in WkHist
  PROVE  LongestCommonPrefix({s, t}) \in WkHist
<1> DEFINE C == CommonPrefixes({s, t})
           M == {Len(s) - Len(p) : p \in C}
<1>1. \A p \in C : p \in WkHist /\ Len(p) \in Nat /\ Len(p) <= Len(s)
  <2> SUFFICES ASSUME NEW p \in C PROVE p \in WkHist /\ Len(p) \in Nat /\ Len(p) <= Len(s)
    OBVIOUS
  <2>1. \E q \in {s, t} : \E n \in 0..Len(q) : p = SubSeq(q, 1, n)
    BY DEF CommonPrefixes, Prefixes
  <2>2. IsPrefix(p, s)
    BY DEF CommonPrefixes
  <2>3. p \in WkHist
    BY <2>1 DEF WkHist
  <2> QED
    BY <2>2, <2>3, PrefixIs, LenProperties DEF WkHist
<1>2. << >> \in C
  <2>1. << >> \in WkHist /\ Len(<< >>) = 0
    BY EmptySeq DEF WkHist
  <2>2. IsPrefix(<< >>, s) /\ IsPrefix(<< >>, t)
    <3> DEFINE none == << >>
    <3>1. none \in WkHist /\ Len(none) = 0
      BY <2>1
    <3>2. Len(s) \in Nat /\ Len(t) \in Nat
      BY LenProperties DEF WkHist
    <3> HIDE DEF none
    <3>3. IsPrefix(none, s) /\ IsPrefix(none, t)
      BY <3>1, <3>2, PrefixIs
    <3> QED
      BY <3>3 DEF none
  <2>3. << >> = SubSeq(s, 1, 0) /\ 0 \in 0..Len(s)
    BY LenProperties, SubSeqEmpty DEF WkHist
  <2> QED
    BY <2>2, <2>3 DEF CommonPrefixes, Prefixes
<1> HIDE DEF C
<1>3. Len(s) \in Nat
  BY LenProperties DEF WkHist
<1>4. M \subseteq Nat /\ M # {}
  BY <1>1, <1>2, <1>3
<1>5. PICK m \in M : \A k \in M : ~(<<k, m>> \in OpToRel(<, Nat))
  <2> HIDE DEF M
  <2> QED
    BY <1>4, WFMin, NatLessThanWellFounded
<1>6. \A k \in M : ~(k < m)
  BY <1>4, <1>5 DEF OpToRel
<1>7. PICK p \in C : m = Len(s) - Len(p)
  OBVIOUS
<1>8. \A q \in C : Len(q) <= Len(p)
  <2> SUFFICES ASSUME NEW q \in C PROVE Len(q) <= Len(p)
    OBVIOUS
  <2>1. Len(s) - Len(q) \in M
    OBVIOUS
  <2>2. ~(Len(s) - Len(q) < Len(s) - Len(p))
    BY <1>6, <1>7, <2>1
  <2>3. Len(q) \in Nat /\ Len(p) \in Nat
    BY <1>1
  <2> QED
    BY <1>3, <2>2, <2>3
<1>9. LongestCommonPrefix({s, t}) \in C
  BY <1>8 DEF LongestCommonPrefix, C
<1> QED
  BY <1>1, <1>9

(* A bundle of two commits is made of commits.                                *)
LEMMA BundleTyped ==
  ASSUME NEW repo \in WkRepoRecs, NEW base \in WkHist
  PROVE  GitBundle(repo, base) \in [tip : WkHist, base : WkHist]
BY SharedCommit DEF GitBundle, WkRepoRecs

LEMMA WkStarts == WkInit => WkInv
<1> SUFFICES ASSUME WkInit PROVE WkInv
  OBVIOUS
<1>1. PICK there \in SUBSET WkPaths, cloned \in BOOLEAN :
        wkRepos = [r \in {<<"hub", p>> : p \in WkPaths} \cup {<<"node", p>> : p \in there} |->
                     Fresh(IF r[1] = "hub" \/ cloned THEN <<0>> ELSE << >>)]
  BY DEF WkInit
<1>2. << >> \in WkHist /\ <<0>> \in WkHist
  BY DEF WkHist
<1>3. ASSUME NEW h \in WkHist
      PROVE  /\ Fresh(h) \in WkRepoRecs
             /\ Fresh(h).head \in DOMAIN Fresh(h).branches
             /\ Fresh(h).tree = Fresh(h).branches[Fresh(h).head]
  <2>1. [b \in {"main"} |-> h] \in UNION {[D -> WkHist] : D \in SUBSET Branches}
    <3>1. {"main"} \in SUBSET Branches /\ [b \in {"main"} |-> h] \in [{"main"} -> WkHist]
      BY DEF Branches
    <3> QED
      BY <3>1
  <2> QED
    BY <2>1 DEF Fresh, WkRepoRecs, Branches
<1>4. /\ wkRepos \in [DOMAIN wkRepos -> WkRepoRecs]
      /\ \A p \in WkPaths : <<"hub", p>> \in DOMAIN wkRepos
      /\ WkCheckedOut
  <2> DEFINE D == {<<"hub", p>> : p \in WkPaths} \cup {<<"node", p>> : p \in there}
  <2>1. DOMAIN wkRepos = D
    BY <1>1
  <2>2. \A r \in D : \E h \in WkHist : wkRepos[r] = Fresh(h)
    BY <1>1, <1>2
  <2>3. wkRepos = [r \in D |-> wkRepos[r]]
    BY <1>1
  <2> HIDE DEF D
  <2>4. \A r \in D : /\ wkRepos[r] \in WkRepoRecs
                     /\ wkRepos[r].head \in DOMAIN wkRepos[r].branches
                     /\ wkRepos[r].tree = wkRepos[r].branches[wkRepos[r].head]
    BY <1>3, <2>2
  <2> QED
    BY <2>1, <2>3, <2>4 DEF D, WkCheckedOut
<1>5. WkIdle \in WkCallRecs /\ WkIdle.at = "idle"
  BY <1>2 DEF WkIdle, WkCallRecs, WkAnyPath, NoBundle, Machines, Branches
<1>6. wkCalls = [c \in WkCalls |-> WkIdle] /\ wkMade = 0
  BY DEF WkInit
<1>7. WkTypes
  BY <1>4, <1>5, <1>6 DEF WkTypes
<1>8. \A c \in WkCalls : WkArrived(wkRepos, wkCalls[c])
  BY <1>5, <1>6 DEF WkArrived
<1> QED
  BY <1>4, <1>7, <1>8 DEF WkInv

(* A call goes on and no repository changes.                                  *)
LEMMA WkCallStep ==
  ASSUME WkInv, NEW c \in WkCalls, NEW q \in WkCallRecs, WkArrived(wkRepos, q),
         wkCalls' = [wkCalls EXCEPT ![c] = q], wkRepos' = wkRepos, wkMade' = wkMade
  PROVE  WkInv'
<1>1. /\ wkCalls' \in [WkCalls -> WkCallRecs]
      /\ \A d \in WkCalls : wkCalls'[d] = IF d = c THEN q ELSE wkCalls[d]
  BY DEF WkInv, WkTypes
<1>2. WkTypes' /\ WkCheckedOut'
  BY <1>1 DEF WkInv, WkTypes, WkCheckedOut
<1>3. \A d \in WkCalls : WkArrived(wkRepos, wkCalls'[d])
  BY <1>1 DEF WkInv
<1>4. \A d \in WkCalls : WkArrived(wkRepos', wkCalls'[d])
  BY <1>3 DEF WkArrived
<1> QED
  BY <1>2, <1>4 DEF WkInv

LEMMA WkFailedKeeps == ASSUME WkInv, NEW c \in WkCalls, Failed(c) PROVE WkInv'
<1> DEFINE q == [WkIdle EXCEPT !.at = "failed"]
<1>1. WkIdle \in WkCallRecs
  BY DEF WkIdle, WkCallRecs, WkAnyPath, NoBundle, Machines, Branches, WkHist
<1>2. q \in WkCallRecs /\ q.at = "failed"
  BY <1>1 DEF WkCallRecs
<1>3. wkCalls' = [wkCalls EXCEPT ![c] = q] /\ wkRepos' = wkRepos /\ wkMade' = wkMade
  BY DEF Failed
<1> HIDE DEF q
<1>4. WkArrived(wkRepos, q)
  BY <1>2 DEF WkArrived
<1> QED
  BY <1>2, <1>3, <1>4, WkCallStep

LEMMA WkBeginKeeps == ASSUME WkInv, NEW c \in WkCalls, WkBegin(c) PROVE WkInv'
<1>1. PICK env \in Machines, local \in WkPaths, remote \in WkPaths, branch \in Branches, given \in BOOLEAN :
        \E n \in {0} \cup {Len(wkRepos[<<"hub", local>>].tree) - 1} :
          LET source == wkRepos[<<"hub", local>>]
              base   == SubSeq(source.tree, 1, n)
          IN /\ given => CanBundle(<<"hub", local>>, base)
             /\ wkCalls' = [wkCalls EXCEPT ![c] =
                  [at |-> "asked", env |-> env, local |-> local, remote |-> remote, base |-> base, branch |-> branch,
                   given |-> given, bundle |-> IF given THEN GitBundle(source, base) ELSE NoBundle, told |-> 0]]
  BY Zenon DEF WkBegin
<1> DEFINE source == wkRepos[<<"hub", local>>]
<1> PICK n \in {0} \cup {Len(source.tree) - 1} :
      LET base == SubSeq(source.tree, 1, n)
      IN wkCalls' = [wkCalls EXCEPT ![c] =
           [at |-> "asked", env |-> env, local |-> local, remote |-> remote, base |-> base, branch |-> branch,
            given |-> given, bundle |-> IF given THEN GitBundle(source, base) ELSE NoBundle, told |-> 0]]
  BY <1>1, Zenon
<1> DEFINE base   == SubSeq(source.tree, 1, n)
           bundle == IF given THEN GitBundle(source, base) ELSE NoBundle
           q == [at |-> "asked", env |-> env, local |-> local, remote |-> remote, base |-> base,
                 branch |-> branch, given |-> given, bundle |-> bundle, told |-> 0]
<1>2. source \in WkRepoRecs /\ source.tree \in WkHist
  BY DEF WkInv, WkTypes, WkRepoRecs
<1>3. base \in WkHist
  <2>1. Len(source.tree) \in Nat /\ n \in Int /\ n <= Len(source.tree)
    BY <1>2, LenProperties DEF WkHist
  <2> HIDE DEF source
  <2> QED
    BY <1>2, <2>1, SubSeqProperties DEF WkHist
<1>4. NoBundle \in [tip : WkHist, base : WkHist]
  BY DEF NoBundle, WkHist
<1>5. bundle \in [tip : WkHist, base : WkHist]
  BY <1>2, <1>3, <1>4, BundleTyped
<1>6. local \in WkAnyPath /\ remote \in WkAnyPath
  BY DEF WkAnyPath
<1>7. wkCalls' = [wkCalls EXCEPT ![c] = q] /\ wkRepos' = wkRepos /\ wkMade' = wkMade
  BY <1>1 DEF WkBegin
<1> HIDE DEF base, bundle, source
<1>8. q \in WkCallRecs /\ q.at = "asked"
  BY <1>3, <1>5, <1>6 DEF WkCallRecs
<1> HIDE DEF q
<1>9. WkArrived(wkRepos, q)
  BY <1>8 DEF WkArrived
<1> QED
  BY <1>7, <1>8, <1>9, WkCallStep

LEMMA WkMakeKeeps == ASSUME WkInv, NEW c \in WkCalls, WkMake(c) PROVE WkInv'
<1> DEFINE call == wkCalls[c]
           made == GitBundle(wkRepos[SourceOf(call)], call.base)
<1>1. call \in WkCallRecs /\ call.base \in WkHist
  BY DEF WkInv, WkTypes, WkCallRecs
<1>2. wkRepos' = wkRepos /\ wkMade' = wkMade
  BY DEF WkMake
<1>3. CASE wkCalls' = [wkCalls EXCEPT ![c].at = "made"]
  <2> DEFINE q == [call EXCEPT !.at = "made"]
  <2>1. wkCalls' = [wkCalls EXCEPT ![c] = q]
    BY <1>3 DEF WkInv, WkTypes
  <2>2. q \in WkCallRecs /\ q.at = "made"
    BY <1>1 DEF WkCallRecs
  <2> HIDE DEF q
  <2>3. WkArrived(wkRepos, q)
    BY <2>2 DEF WkArrived
  <2> QED
    BY <1>2, <2>1, <2>2, <2>3, WkCallStep
<1>4. CASE /\ CanBundle(SourceOf(call), call.base)
           /\ wkCalls' = [wkCalls EXCEPT ![c].at = "made", ![c].bundle = made]
  <2>1. made \in [tip : WkHist, base : WkHist]
    <3>1. wkRepos[SourceOf(call)] \in WkRepoRecs
      BY <1>4 DEF CanBundle, WkInv, WkTypes
    <3> QED
      BY <1>1, <3>1, BundleTyped
  <2> HIDE DEF made
  <2> DEFINE q == [call EXCEPT !.at = "made", !.bundle = made]
  <2>2. wkCalls' = [wkCalls EXCEPT ![c] = q]
    BY <1>4 DEF WkInv, WkTypes
  <2>3. q \in WkCallRecs /\ q.at = "made"
    BY <1>1, <2>1 DEF WkCallRecs
  <2> HIDE DEF q
  <2>4. WkArrived(wkRepos, q)
    BY <2>3 DEF WkArrived
  <2> QED
    BY <1>2, <2>2, <2>3, <2>4, WkCallStep
<1> QED
  BY <1>3, <1>4 DEF WkMake

LEMMA WkVerifyKeeps == ASSUME WkInv, NEW c \in WkCalls, WkVerify(c) PROVE WkInv'
<1>1. CASE Failed(c)
  BY <1>1, WkFailedKeeps
<1>2. CASE /\ TargetOf(wkCalls[c]) \in DOMAIN wkRepos
           /\ wkCalls' = [wkCalls EXCEPT ![c].at = "verified"] /\ UNCHANGED <<wkRepos, wkMade>>
  <2> DEFINE q == [wkCalls[c] EXCEPT !.at = "verified"]
  <2>1. wkCalls' = [wkCalls EXCEPT ![c] = q]
    BY <1>2 DEF WkInv, WkTypes
  <2>2. wkCalls[c] \in WkCallRecs
    BY DEF WkInv, WkTypes
  <2>3. q \in WkCallRecs /\ q.at = "verified" /\ TargetOf(q) = TargetOf(wkCalls[c])
    BY <2>2 DEF WkCallRecs, TargetOf, Answering
  <2> HIDE DEF q
  <2>4. WkArrived(wkRepos, q)
    BY <1>2, <2>3 DEF WkArrived
  <2> QED
    BY <1>2, <2>1, <2>3, <2>4, WkCallStep
<1> QED
  BY <1>1, <1>2 DEF WkVerify

(* A repository in which "synced" only goes forward keeps what was sent.      *)
LEMMA WkForward ==
  ASSUME WkInv, NEW r \in DOMAIN wkRepos, NEW repo \in WkRepoRecs,
         wkRepos' = [wkRepos EXCEPT ![r] = repo],
         repo.head \in DOMAIN repo.branches, repo.tree = repo.branches[repo.head],
         DOMAIN wkRepos[r].branches \subseteq DOMAIN repo.branches,
         "synced" \in DOMAIN wkRepos[r].branches =>
           IsPrefix(wkRepos[r].branches["synced"], repo.branches["synced"])
  PROVE  /\ wkRepos' \in [DOMAIN wkRepos' -> WkRepoRecs] /\ DOMAIN wkRepos' = DOMAIN wkRepos
         /\ WkCheckedOut'
         /\ \A q \in WkCallRecs : WkArrived(wkRepos, q) => WkArrived(wkRepos', q)
<1>1. /\ wkRepos' \in [DOMAIN wkRepos -> WkRepoRecs]
      /\ \A s \in DOMAIN wkRepos : wkRepos'[s] = IF s = r THEN repo ELSE wkRepos[s]
  BY DEF WkInv, WkTypes
<1>2. WkCheckedOut'
  BY <1>1 DEF WkInv, WkCheckedOut
<1>3. ASSUME NEW q \in WkCallRecs, WkArrived(wkRepos, q) PROVE WkArrived(wkRepos', q)
  <2> DEFINE t == TargetOf(q)
  <2>1. CASE t # r
    <3>1. t \in DOMAIN wkRepos => t \in DOMAIN wkRepos' /\ wkRepos'[t] = wkRepos[t]
      BY <1>1, <2>1
    <3> QED
      BY <1>3, <3>1 DEF WkArrived
  <2>2. CASE t = r
    <3>1. wkRepos'[t] = repo /\ t \in DOMAIN wkRepos' /\ wkRepos[t] = wkRepos[r]
      BY <1>1, <2>2
    <3>2. ASSUME q.at \in {"fetched", "synced", "guessed"}, q.branch = "synced"
          PROVE  IsPrefix(q.bundle.tip, repo.branches["synced"])
      <4>1. /\ "synced" \in DOMAIN wkRepos[r].branches
            /\ IsPrefix(q.bundle.tip, wkRepos[r].branches["synced"])
        BY <1>3, <2>2, <3>2 DEF WkArrived
      <4>2. q.bundle.tip \in WkHist
        BY DEF WkCallRecs
      <4>3. \A x \in WkRepoRecs : \A b \in DOMAIN x.branches : x.branches[b] \in WkHist
        BY DEF WkRepoRecs
      <4>4. wkRepos[r] \in WkRepoRecs
        BY DEF WkInv, WkTypes
      <4>5. wkRepos[r].branches["synced"] \in WkHist /\ repo.branches["synced"] \in WkHist
        BY <4>1, <4>3, <4>4
      <4> QED
        BY <4>1, <4>2, <4>5, PrefixOfPrefix
    <3>3. q.at \in {"fetched", "synced", "guessed"} => q.branch \in DOMAIN repo.branches
      BY <1>3, <2>2 DEF WkArrived
    <3> QED
      BY <1>3, <3>1, <3>2, <3>3 DEF WkArrived
  <2> QED
    BY <2>1, <2>2
<1> QED
  BY <1>1, <1>2, <1>3

(* The branches of a repository with one of them moved or made.               *)
LEMMA MovedTyped ==
  ASSUME NEW repo \in WkRepoRecs, NEW b \in Branches, NEW h \in WkHist
  PROVE  LET moved == Moved(repo.branches, b, h)
         IN /\ moved \in UNION {[D -> WkHist] : D \in SUBSET Branches}
            /\ DOMAIN moved = DOMAIN repo.branches \cup {b}
            /\ moved[b] = h /\ \A d \in DOMAIN repo.branches : d # b => moved[d] = repo.branches[d]
<1>1. PICK D \in SUBSET Branches : repo.branches \in [D -> WkHist]
  BY DEF WkRepoRecs
<1> DEFINE moved == Moved(repo.branches, b, h)
<1>2. moved = [x \in D \cup {b} |-> IF x = b THEN h ELSE repo.branches[x]]
  BY <1>1 DEF Moved
<1>3. D \cup {b} \in SUBSET Branches /\ moved \in [(D \cup {b}) -> WkHist]
  BY <1>1, <1>2
<1> HIDE DEF moved
<1>4. moved \in UNION {[E -> WkHist] : E \in SUBSET Branches}
  BY <1>3
<1>5. /\ DOMAIN moved = DOMAIN repo.branches \cup {b}
      /\ moved[b] = h /\ \A d \in DOMAIN repo.branches : d # b => moved[d] = repo.branches[d]
  BY <1>1, <1>2
<1> QED
  BY <1>4, <1>5 DEF moved

(* git fetch: never into the branch that is checked out, another one forward. *)
LEMMA WkFetchKeeps == ASSUME WkInv, NEW c \in WkCalls, WkFetch(c) PROVE WkInv'
<1> DEFINE call == wkCalls[c]
           t == TargetOf(call)
           old == wkRepos[t]
           moved == Moved(old.branches, call.branch, call.bundle.tip)
           repo == [old EXCEPT !.branches = moved]
           q == [call EXCEPT !.at = "fetched"]
<1>1. CASE Failed(c)
  BY <1>1, WkFailedKeeps
<1>2. CASE ~Failed(c)
  <2>1. /\ call.at = "verified" /\ TakesFetch(old, call.branch, call.bundle.tip)
        /\ wkRepos' = [wkRepos EXCEPT ![t].branches = Moved(@, call.branch, call.bundle.tip)]
        /\ wkCalls' = [wkCalls EXCEPT ![c].at = "fetched"] /\ wkMade' = wkMade
    BY <1>2 DEF WkFetch
  <2>2. call \in WkCallRecs /\ t \in DOMAIN wkRepos /\ old \in WkRepoRecs
    BY <2>1 DEF WkInv, WkTypes, WkArrived
  <2>3. call.branch \in Branches /\ call.bundle.tip \in WkHist
    BY <2>2 DEF WkCallRecs
  <2>4. /\ moved \in UNION {[D -> WkHist] : D \in SUBSET Branches}
        /\ DOMAIN moved = DOMAIN old.branches \cup {call.branch}
        /\ moved[call.branch] = call.bundle.tip
        /\ \A d \in DOMAIN old.branches : d # call.branch => moved[d] = old.branches[d]
    <3> HIDE DEF call, old
    <3> QED
      BY <2>2, <2>3, MovedTyped
  <2>5. wkRepos' = [wkRepos EXCEPT ![t] = repo]
    BY <2>1, <2>2 DEF WkInv, WkTypes
  <2>6. wkCalls' = [wkCalls EXCEPT ![c] = q]
    BY <2>1 DEF WkInv, WkTypes
  <2> HIDE DEF moved
  <2>7. repo \in WkRepoRecs /\ repo.branches = moved /\ repo.head = old.head /\ repo.tree = old.tree
    BY <2>2, <2>4 DEF WkRepoRecs
  <2>8. /\ q \in WkCallRecs /\ q.at = "fetched" /\ TargetOf(q) = t
        /\ q.branch = call.branch /\ q.bundle = call.bundle
    BY <2>2 DEF WkCallRecs, TargetOf, Answering
  <2> HIDE DEF repo, q
  <2>9. /\ repo.head \in DOMAIN repo.branches /\ repo.tree = repo.branches[repo.head]
    <3>1. old.head # call.branch /\ old.head \in DOMAIN old.branches /\ old.tree = old.branches[old.head]
      BY <2>1, <2>2 DEF TakesFetch, WkInv, WkCheckedOut
    <3> QED
      BY <2>4, <2>7, <3>1
  <2>10. "synced" \in DOMAIN old.branches => IsPrefix(old.branches["synced"], repo.branches["synced"])
    <3>1. ASSUME "synced" \in DOMAIN old.branches, call.branch = "synced"
          PROVE  IsPrefix(old.branches["synced"], moved["synced"])
      BY <2>1, <2>4, <3>1 DEF TakesFetch
    <3>2. ASSUME "synced" \in DOMAIN old.branches, call.branch # "synced"
          PROVE  IsPrefix(old.branches["synced"], moved["synced"])
      <4>1. old.branches["synced"] \in WkHist
        BY <2>2, <3>2 DEF WkRepoRecs
      <4>2. moved["synced"] = old.branches["synced"]
        BY <2>4, <3>2
      <4> QED
        BY <4>1, <4>2, PrefixOfItself
    <3> QED
      BY <2>7, <3>1, <3>2
  <2>11. DOMAIN old.branches \subseteq DOMAIN repo.branches
    BY <2>4, <2>7
  <2>12. /\ wkRepos' \in [DOMAIN wkRepos' -> WkRepoRecs] /\ DOMAIN wkRepos' = DOMAIN wkRepos
         /\ WkCheckedOut'
         /\ \A x \in WkCallRecs : WkArrived(wkRepos, x) => WkArrived(wkRepos', x)
    <3> HIDE DEF t
    <3> QED
      BY <2>2, <2>5, <2>7, <2>9, <2>10, <2>11, WkForward
  <2>13. WkArrived(wkRepos', q)
    <3>1. wkRepos'[t] = repo /\ t \in DOMAIN wkRepos'
      BY <2>2, <2>5, <2>12
    <3>2. IsPrefix(call.bundle.tip, call.bundle.tip)
      BY <2>3, PrefixOfItself
    <3>3. q.branch \in DOMAIN repo.branches /\ repo.branches[q.branch] = q.bundle.tip
      BY <2>4, <2>7, <2>8
    <3> QED
      BY <2>8, <3>1, <3>2, <3>3 DEF WkArrived
  <2>14. \A d \in WkCalls : wkCalls'[d] = IF d = c THEN q ELSE wkCalls[d]
    BY <2>6 DEF WkInv, WkTypes
  <2>15. ASSUME NEW d \in WkCalls PROVE WkArrived(wkRepos', wkCalls'[d])
    <3>1. CASE d = c
      BY <2>13, <2>14, <3>1
    <3>2. CASE d # c
      <4>1. wkCalls[d] \in WkCallRecs /\ WkArrived(wkRepos, wkCalls[d]) /\ wkCalls'[d] = wkCalls[d]
        BY <2>14, <3>2 DEF WkInv, WkTypes
      <4> QED
        BY <2>12, <4>1
    <3> QED
      BY <3>1, <3>2
  <2>16. WkTypes'
    BY <2>1, <2>6, <2>8, <2>12 DEF WkInv, WkTypes
  <2> QED
    BY <2>12, <2>15, <2>16 DEF WkInv
<1> QED
  BY <1>1, <1>2

(* The commits counted are all of the branch, so no fewer than were sent.     *)
LEMMA WkCountKeeps == ASSUME WkInv, NEW c \in WkCalls, WkCount(c) PROVE WkInv'
<1> DEFINE call == wkCalls[c]
           t == TargetOf(call)
           told == Len(wkRepos[t].branches[call.branch])
           q == [call EXCEPT !.at = "synced", !.told = told]
<1>1. call \in WkCallRecs /\ WkArrived(wkRepos, call) /\ call.at = "fetched"
  BY DEF WkInv, WkTypes, WkCount
<1>2. t \in DOMAIN wkRepos /\ call.branch \in DOMAIN wkRepos[t].branches
  BY <1>1 DEF WkArrived
<1>3. wkRepos[t] \in WkRepoRecs /\ wkRepos[t].branches[call.branch] \in WkHist
  BY <1>2 DEF WkInv, WkTypes, WkRepoRecs
<1>4. told \in Nat
  BY <1>3, LenProperties DEF WkHist
<1>5. call.branch = "synced" => told >= Len(call.bundle.tip)
  <2>1. call.bundle.tip \in WkHist
    BY <1>1 DEF WkCallRecs
  <2>2. Len(call.bundle.tip) \in Nat
    BY <2>1, LenProperties DEF WkHist
  <2>3. call.branch = "synced" => IsPrefix(call.bundle.tip, wkRepos[t].branches[call.branch])
    BY <1>1 DEF WkArrived
  <2> HIDE DEF call, t
  <2> QED
    BY <1>3, <1>4, <2>1, <2>2, <2>3, PrefixIs
<1>6. wkCalls' = [wkCalls EXCEPT ![c] = q] /\ wkRepos' = wkRepos /\ wkMade' = wkMade
  BY DEF WkInv, WkTypes, WkCount
<1> HIDE DEF told
<1>7. /\ q \in WkCallRecs /\ q.at = "synced" /\ TargetOf(q) = t
      /\ q.branch = call.branch /\ q.bundle = call.bundle /\ q.told = told
  BY <1>1, <1>4 DEF WkCallRecs, TargetOf, Answering
<1> HIDE DEF q
<1>8. WkArrived(wkRepos, q)
  BY <1>1, <1>5, <1>7 DEF WkArrived
<1> QED
  BY <1>6, <1>7, <1>8, WkCallStep

(* A count that was guessed claims nothing.                                   *)
LEMMA WkCountFailsKeeps == ASSUME WkInv, NEW c \in WkCalls, WkCountFails(c) PROVE WkInv'
<1> DEFINE call == wkCalls[c]
           q == [call EXCEPT !.at = "guessed", !.told = 1]
<1>1. call \in WkCallRecs /\ WkArrived(wkRepos, call) /\ call.at = "fetched"
  BY DEF WkInv, WkTypes, WkCountFails
<1>2. wkCalls' = [wkCalls EXCEPT ![c] = q] /\ wkRepos' = wkRepos /\ wkMade' = wkMade
  BY DEF WkInv, WkTypes, WkCountFails
<1>3. /\ q \in WkCallRecs /\ q.at = "guessed" /\ TargetOf(q) = TargetOf(call)
      /\ q.branch = call.branch /\ q.bundle = call.bundle
  BY <1>1 DEF WkCallRecs, TargetOf, Answering
<1> HIDE DEF q
<1>4. WkArrived(wkRepos, q)
  BY <1>1, <1>3 DEF WkArrived
<1> QED
  BY <1>2, <1>3, <1>4, WkCallStep

(* Work in a repository: a commit on a branch, which is then checked out.     *)
LEMMA WkWorksKeep ==
  ASSUME WkInv, NEW r \in DOMAIN wkRepos, NEW branch \in Branches, NEW commit \in WkHist,
         Works(r, branch, commit),
         branch = "synced" /\ "synced" \in DOMAIN wkRepos[r].branches =>
           IsPrefix(wkRepos[r].branches["synced"], commit)
  PROVE  WkInv'
<1> DEFINE old == wkRepos[r]
           moved == Moved(old.branches, branch, commit)
           repo == [branches |-> moved, head |-> branch, tree |-> commit]
<1>1. old \in WkRepoRecs
  BY DEF WkInv, WkTypes
<1>2. wkRepos' = [wkRepos EXCEPT ![r] = repo] /\ wkCalls' = wkCalls /\ wkMade' = wkMade + 1
  BY DEF Works, WkInv, WkTypes
<1>3. /\ moved \in UNION {[D -> WkHist] : D \in SUBSET Branches}
      /\ DOMAIN moved = DOMAIN old.branches \cup {branch}
      /\ moved[branch] = commit
      /\ \A d \in DOMAIN old.branches : d # branch => moved[d] = old.branches[d]
  <2> HIDE DEF old
  <2> QED
    BY <1>1, MovedTyped
<1> HIDE DEF moved
<1>4. /\ repo \in WkRepoRecs /\ repo.branches = moved
      /\ repo.head \in DOMAIN repo.branches /\ repo.tree = repo.branches[repo.head]
  BY <1>3 DEF WkRepoRecs
<1>5. "synced" \in DOMAIN old.branches => IsPrefix(old.branches["synced"], moved["synced"])
  <2>1. ASSUME "synced" \in DOMAIN old.branches, branch # "synced"
        PROVE  IsPrefix(old.branches["synced"], moved["synced"])
    <3>1. old.branches["synced"] \in WkHist
      BY <1>1, <2>1 DEF WkRepoRecs
    <3>2. moved["synced"] = old.branches["synced"]
      BY <1>3, <2>1
    <3> QED
      BY <3>1, <3>2, PrefixOfItself
  <2> QED
    BY <1>3, <2>1
<1>6. DOMAIN old.branches \subseteq DOMAIN moved
  BY <1>3
<1> HIDE DEF repo
<1>7. /\ wkRepos' \in [DOMAIN wkRepos' -> WkRepoRecs] /\ DOMAIN wkRepos' = DOMAIN wkRepos
      /\ WkCheckedOut'
      /\ \A x \in WkCallRecs : WkArrived(wkRepos, x) => WkArrived(wkRepos', x)
  BY <1>2, <1>4, <1>5, <1>6, WkForward
<1>8. \A d \in WkCalls : WkArrived(wkRepos', wkCalls'[d])
  BY <1>2, <1>7 DEF WkInv, WkTypes
<1>9. WkTypes'
  BY <1>2, <1>7 DEF WkInv, WkTypes
<1> QED
  BY <1>7, <1>8, <1>9 DEF WkInv

LEMMA WkCommitKeeps == ASSUME WkInv, NEW r \in DOMAIN wkRepos, WkCommit(r) PROVE WkInv'
<1> DEFINE old == wkRepos[r]
<1>1. /\ old \in WkRepoRecs /\ old.tree \in WkHist /\ old.head \in Branches
      /\ old.tree = old.branches[old.head] /\ wkMade + 1 \in Nat
  BY DEF WkInv, WkTypes, WkRepoRecs, WkCheckedOut
<1> DEFINE commit == Append(old.tree, wkMade + 1)
<1>2. commit \in WkHist /\ IsPrefix(old.tree, commit)
  <2> HIDE DEF old
  <2> QED
    BY <1>1, PrefixOfAppend
<1>3. Works(r, old.head, commit)
  BY DEF WkCommit
<1>4. old.head = "synced" => IsPrefix(old.branches["synced"], commit)
  BY <1>1, <1>2
<1> HIDE DEF commit
<1> QED
  BY <1>1, <1>2, <1>3, <1>4, WkWorksKeep

LEMMA WkAmendKeeps == ASSUME WkInv, NEW r \in DOMAIN wkRepos, WkAmend(r) PROVE WkInv'
<1> DEFINE old == wkRepos[r]
           commit == Append(Front(old.tree), wkMade + 1)
<1>1. old.tree \in WkHist /\ old.tree # << >> /\ wkMade + 1 \in Nat
  BY DEF WkInv, WkTypes, WkRepoRecs, WkAmend
<1>2. Front(old.tree) \in WkHist
  <2> DEFINE s == old.tree
  <2>1. s \in Seq(Nat) /\ Len(s) \in Nat /\ Len(s) # 0
    BY <1>1, LenProperties, EmptySeq DEF WkHist
  <2> HIDE DEF s
  <2>2. SubSeq(s, 1, Len(s) - 1) \in Seq(Nat)
    BY <2>1, SubSeqProperties
  <2> QED
    BY <2>2 DEF s, Front, WkHist
<1>3. commit \in WkHist
  BY <1>1, <1>2, AppendProperties DEF WkHist
<1>4. Works(r, "main", commit)
  BY DEF WkAmend
<1> HIDE DEF commit
<1> QED
  BY <1>3, <1>4, WkWorksKeep DEF Branches

LEMMA WkCheckoutKeeps == ASSUME WkInv, NEW r \in DOMAIN wkRepos, WkCheckout(r) PROVE WkInv'
<1> DEFINE old == wkRepos[r]
<1>1. PICK b \in DOMAIN old.branches \ {old.head} : Works(r, b, old.branches[b])
  BY DEF WkCheckout
<1>2. old \in WkRepoRecs
  BY DEF WkInv, WkTypes
<1>3. b \in Branches /\ old.branches[b] \in WkHist
  BY <1>1, <1>2 DEF WkRepoRecs
<1>4. b = "synced" => IsPrefix(old.branches["synced"], old.branches[b])
  BY <1>3, PrefixOfItself
<1> QED
  BY <1>1, <1>3, <1>4, WkWorksKeep

LEMMA WkStepKeeps == WkInv /\ [WkNext]_wkVars => WkInv'
<1> SUFFICES ASSUME WkInv, [WkNext]_wkVars PROVE WkInv'
  OBVIOUS
<1>1. ASSUME NEW c \in WkCalls, WkBegin(c) PROVE WkInv'
  BY <1>1, WkBeginKeeps
<1>2. ASSUME NEW c \in WkCalls, WkMake(c) PROVE WkInv'
  BY <1>2, WkMakeKeeps
<1>3. ASSUME NEW c \in WkCalls, WkFails(c) PROVE WkInv'
  BY <1>3, WkFailedKeeps DEF WkFails
<1>4. ASSUME NEW c \in WkCalls, WkVerify(c) PROVE WkInv'
  BY <1>4, WkVerifyKeeps
<1>5. ASSUME NEW c \in WkCalls, WkFetch(c) PROVE WkInv'
  BY <1>5, WkFetchKeeps
<1>6. ASSUME NEW c \in WkCalls, WkCount(c) PROVE WkInv'
  BY <1>6, WkCountKeeps
<1>9. ASSUME NEW c \in WkCalls, WkCountFails(c) PROVE WkInv'
  BY <1>9, WkCountFailsKeeps
<1>7. ASSUME NEW r \in DOMAIN wkRepos, WkCommit(r) \/ WkAmend(r) \/ WkCheckout(r) PROVE WkInv'
  BY <1>7, WkCommitKeeps, WkAmendKeeps, WkCheckoutKeeps
<1>8. CASE UNCHANGED wkVars
  BY <1>8 DEF wkVars, WkInv, WkTypes, WkCheckedOut
<1> QED
  BY <1>1, <1>2, <1>3, <1>4, <1>5, <1>6, <1>7, <1>8, <1>9 DEF WkNext

LEMMA WkInvShows == WkInv => WkSyncedStays
<1> SUFFICES ASSUME WkInv PROVE WkSyncedStays
  OBVIOUS
<1>1. ASSUME NEW c \in WkCalls, wkCalls[c].at \in {"fetched", "synced", "guessed"}, wkCalls[c].branch = "synced"
      PROVE  IsPrefix(wkCalls[c].bundle.tip, wkRepos[TargetOf(wkCalls[c])].branches["synced"])
  BY <1>1 DEF WkInv, WkArrived
<1>2. ASSUME NEW c \in WkCalls, wkCalls[c].at = "synced", wkCalls[c].branch = "synced"
      PROVE  wkCalls[c].told >= Len(wkCalls[c].bundle.tip) - Len(wkCalls[c].bundle.base)
  <2>1. wkCalls[c].told >= Len(wkCalls[c].bundle.tip)
    BY <1>2 DEF WkInv, WkArrived
  <2>2. wkCalls[c] \in WkCallRecs
    BY DEF WkInv, WkTypes
  <2>3. wkCalls[c].told \in Nat /\ wkCalls[c].bundle.tip \in WkHist /\ wkCalls[c].bundle.base \in WkHist
    BY <2>2 DEF WkCallRecs
  <2>4. Len(wkCalls[c].bundle.tip) \in Nat /\ Len(wkCalls[c].bundle.base) \in Nat
    BY <2>3, LenProperties DEF WkHist
  <2>5. \A x \in Nat, y \in Nat, z \in Nat : x >= y => x >= y - z
    OBVIOUS
  <2> QED
    BY <2>1, <2>3, <2>4, <2>5
<1>3. \A r \in DOMAIN wkRepos : wkRepos[r].tree = wkRepos[r].branches[wkRepos[r].head]
  BY DEF WkInv, WkCheckedOut
<1> QED
  BY <1>1, <1>2, <1>3 DEF WkSyncedStays

(* Whatever repositories, connections and commits there are, what a call was  *)
(* told is synced stays on its branch (git fetch without "+": worktree.rs,    *)
(* apply_git_bundle), it was told of all that it sent unless they could not   *)
(* be counted, and the work tree of every repository stays the commit of the  *)
(* branch it has checked out.                                                 *)
THEOREM WkSyncedKept == WkSpec => []WkSyncedStays
<1>1. WkInit => WkInv
  BY WkStarts
<1>2. WkInv /\ [WkNext]_wkVars => WkInv'
  BY WkStepKeeps
<1>3. WkInv => WkSyncedStays
  BY WkInvShows
<1> QED
  BY <1>1, <1>2, <1>3, PTL DEF WkSpec

-----------------------------------------------------------------------------
(* Environment router.  HbToldIsReachable is not inductive: it needs that an  *)
(* id is held by one node only, that what the hub's route and the calls under *)
(* way say of an id does not contradict the node that holds it, and that a    *)
(* close which was answered has removed its terminal, unless it was sent to   *)
(* an environment the terminal was not on.                                    *)
HbOps == {"none", "create", "use", "close"}
HbStages == {"idle", "sent", "ok", "error", "failed"}

HbTypes ==
  /\ hbHolds \in [HbEnvs -> SUBSET HbIds]
  /\ hbMade \in SUBSET HbIds /\ hbTold \subseteq hbMade /\ hbLinks \in SUBSET HbEnvs
  /\ hbCall \in [HbCallers -> [op : HbOps, id : HbIds \cup {HbIdle.id},
                               env : HbEnvs \cup {HbIdle.env}, at : HbStages]]
  /\ \A c \in HbCallers : hbCall[c].op = "none" => hbCall[c].at = "idle"

\* Nothing but e may hold id.
OnlyAt(id, e) == \A f \in HbEnvs : id \in hbHolds[f] => f = e

HbOneHome ==
  \A e \in HbEnvs : \A id \in hbHolds[e] : id \in hbMade /\ OnlyAt(id, e)

HbRouteTrue ==
  \A id \in DOMAIN hbRoute : id \in hbMade /\ OnlyAt(id, hbRoute[id])

\* A create that was sent is of an id that is new, made by no other call.
HbSentNew ==
  \A c \in HbCallers : hbCall[c].op = "create" /\ hbCall[c].at = "sent" =>
    /\ hbCall[c].id \in HbIds /\ hbCall[c].env \in HbEnvs
    /\ hbCall[c].id \notin hbMade
    /\ \A d \in HbCallers : hbCall[d].op = "create" /\ hbCall[d].at = "sent" /\ hbCall[d].id = hbCall[c].id => d = c

\* Creates that were answered, and closes that did not go astray, name a made
\* id and its node.
HbCallTrue ==
  \A c \in HbCallers :
    \/ hbCall[c].op = "close" /\ hbCall[c].at \in {"sent", "ok", "error"} /\ hbCall[c].id \notin hbAstray
    \/ hbCall[c].op = "create" /\ hbCall[c].at = "ok"
    => hbCall[c].id \in hbMade /\ OnlyAt(hbCall[c].id, hbCall[c].env)

HbCloseDone ==
  \A c \in HbCallers : hbCall[c].op = "close" /\ hbCall[c].at \in {"ok", "error"} /\ hbCall[c].id \notin hbAstray =>
    \A e \in HbEnvs : hbCall[c].id \notin hbHolds[e]

HbInv ==
  /\ HbTypes /\ HbOneHome /\ HbRouteTrue /\ HbSentNew /\ HbCallTrue /\ HbCloseDone
  /\ HbToldIsReachable

(* The parts of the invariant hold at the start.                             *)
LEMMA HbStarts == HbInit => HbInv
<1> SUFFICES ASSUME HbInit PROVE HbInv
  OBVIOUS
<1>1. \A c \in HbCallers : hbCall[c].at = "idle" /\ hbCall[c].op = "none"
  BY DEF HbInit, HbIdle
<1>2. HbTypes
  BY DEF HbInit, HbTypes, HbIdle, HbOps, HbStages
<1>3. DOMAIN hbRoute = {}
  BY DEF HbInit
<1>4. HbOneHome /\ HbRouteTrue /\ HbToldIsReachable
  BY <1>3 DEF HbInit, HbOneHome, HbRouteTrue, HbToldIsReachable
<1>5. HbSentNew /\ HbCallTrue /\ HbCloseDone
  BY <1>1 DEF HbSentNew, HbCallTrue, HbCloseDone
<1> QED
  BY <1>2, <1>4, <1>5 DEF HbInv

(* A call begins: a create of a new id, or another call, to the environment   *)
(* it names or to that of the id's route.                                     *)
LEMMA HbBeginKeeps ==
  ASSUME HbInv, NEW c \in HbCallers, HbBegin(c) PROVE HbInv'
<1> USE DEF HbInv
<1>1. PICK op \in {"create", "use", "close"}, id \in HbIds, e \in HbEnvs, named \in BOOLEAN :
        /\ HbResolved(named, id, e)
        /\ op = "create" =>
             /\ named /\ id \notin hbMade
             /\ \A d \in HbCallers : hbCall[d].op = "create" /\ hbCall[d].at = "sent" => hbCall[d].id # id
        /\ op = "close" => id \in HbTerms
        /\ hbAstray' = IF op = "close" /\ named /\ id \notin hbHolds[e] THEN hbAstray \cup {id} ELSE hbAstray
        /\ hbCall' = [hbCall EXCEPT ![c] = [op |-> op, id |-> id, env |-> e, at |-> "sent"]]
  BY ZenonT(30) DEF HbBegin
<1>0. UNCHANGED <<hbLinks, hbRoute, hbHolds, hbMade, hbTold, hbUnsaved, hbFaults>>
  BY DEF HbBegin
<1>2. /\ UNCHANGED <<hbLinks, hbRoute, hbHolds, hbMade, hbTold, hbUnsaved, hbFaults>>
      /\ hbAstray \subseteq hbAstray'
  BY <1>0, <1>1
<1>3. hbCall'[c] = [op |-> op, id |-> id, env |-> e, at |-> "sent"]
  BY <1>1 DEF HbTypes
<1>4. \A d \in HbCallers : d # c => hbCall'[d] = hbCall[d]
  BY <1>1 DEF HbTypes
<1>5. HbTypes'
  BY <1>1, <1>2, <1>3, <1>4 DEF HbTypes, HbOps, HbStages
<1>6. HbOneHome' /\ HbRouteTrue' /\ HbToldIsReachable'
  BY <1>2 DEF HbOneHome, HbRouteTrue, HbToldIsReachable, OnlyAt
<1>7. HbSentNew'
  <2> SUFFICES ASSUME NEW d \in HbCallers, hbCall'[d].op = "create", hbCall'[d].at = "sent"
               PROVE  /\ hbCall'[d].id \in HbIds /\ hbCall'[d].env \in HbEnvs
                      /\ hbCall'[d].id \notin hbMade'
                      /\ \A f \in HbCallers : hbCall'[f].op = "create" /\ hbCall'[f].at = "sent" /\ hbCall'[f].id = hbCall'[d].id => f = d
    BY DEF HbSentNew
  <2>1. CASE d = c
    BY <2>1, <1>1, <1>2, <1>3, <1>4
  <2>2. CASE d # c
    <3>1. hbCall[d].id \in HbIds /\ hbCall[d].env \in HbEnvs /\ hbCall[d].id \notin hbMade
      BY <2>2, <1>4 DEF HbSentNew
    <3>3. op = "create" => id # hbCall[d].id
      BY <2>2, <1>1, <1>4
    <3> QED
      BY <3>1, <3>3, <2>2, <1>2, <1>3, <1>4 DEF HbSentNew
  <2> QED
    BY <2>1, <2>2
<1>8. HbCallTrue'
  <2>1. op = "close" /\ id \notin hbAstray' => id \in hbMade /\ OnlyAt(id, e)
    BY <1>1 DEF HbResolved, HbRouteTrue, HbOneHome
  <2> QED
    BY <2>1, <1>1, <1>2, <1>3, <1>4 DEF HbCallTrue, OnlyAt
<1>9. HbCloseDone'
  BY <1>2, <1>3, <1>4 DEF HbCloseDone
<1> QED
  BY <1>5, <1>6, <1>7, <1>8, <1>9

(* The node answers: only a create adds an id, a new one, only a close       *)
(* removes one.                                                              *)
LEMMA HbAnswerKeeps ==
  ASSUME HbInv, NEW c \in HbCallers, HbNodeAnswers(c) PROVE HbInv'
<1> USE DEF HbInv
<1> DEFINE id == hbCall[c].id
           e  == hbCall[c].env
           op == hbCall[c].op
<1>1. /\ hbCall[c].at = "sent" /\ e \in HbEnvs
      /\ op \in {"create", "use", "close"}
      /\ UNCHANGED <<hbLinks, hbRoute, hbTold, hbUnsaved, hbAstray, hbFaults>>
  BY DEF HbNodeAnswers, HbTypes, HbOps
<1>2. /\ \A f \in HbEnvs : f # e => hbHolds'[f] = hbHolds[f]
      /\ op = "create" => hbHolds'[e] = hbHolds[e] \cup {id} /\ hbMade' = hbMade \cup {id}
      /\ op = "close" => hbHolds'[e] = hbHolds[e] \ {id} /\ hbMade' = hbMade
      /\ op = "use" => hbHolds'[e] = hbHolds[e] /\ hbMade' = hbMade
  BY <1>1 DEF HbNodeAnswers, HbTypes
<1>3. /\ \A d \in HbCallers : d # c => hbCall'[d] = hbCall[d]
      /\ hbCall'[c].id = id /\ hbCall'[c].env = e /\ hbCall'[c].op = op
      /\ hbCall'[c].at \in {"ok", "error"}
  BY DEF HbNodeAnswers, HbTypes
<1>4. op = "create" => id \in HbIds /\ id \notin hbMade
  BY <1>1 DEF HbSentNew
<1>5. op = "close" /\ id \notin hbAstray => id \in hbMade /\ OnlyAt(id, e)
  BY <1>1 DEF HbCallTrue
<1>6. hbMade \subseteq hbMade' /\ \A x \in hbMade, f \in HbEnvs : x \in hbHolds'[f] => x \in hbHolds[f]
  BY <1>1, <1>2, <1>4
<1>7. HbTypes'
  <2>1. hbHolds' \in [HbEnvs -> SUBSET HbIds] /\ hbMade' \in SUBSET HbIds
    BY <1>1, <1>2, <1>4 DEF HbNodeAnswers, HbTypes
  <2>2. hbCall' = [hbCall EXCEPT ![c].at = hbCall'[c].at]
    BY DEF HbNodeAnswers, HbTypes
  <2>3. hbCall' \in [HbCallers -> [op : HbOps, id : HbIds \cup {HbIdle.id},
                                   env : HbEnvs \cup {HbIdle.env}, at : HbStages]]
    BY <2>2, <1>3 DEF HbTypes, HbStages
  <2> QED
    BY <2>1, <2>3, <1>1, <1>3, <1>6 DEF HbTypes
<1>8. HbOneHome'
  <2>1. op = "create" => \A f \in HbEnvs : id \notin hbHolds[f]
    BY <1>4 DEF HbOneHome
  <2> QED
    BY <2>1, <1>1, <1>2, <1>6 DEF HbOneHome, OnlyAt
<1>9. HbRouteTrue'
  BY <1>1, <1>6 DEF HbRouteTrue, OnlyAt
<1>10. HbSentNew'
  BY <1>1, <1>2, <1>3, <1>4 DEF HbSentNew
<1>11. HbCallTrue'
  <2> SUFFICES ASSUME NEW d \in HbCallers,
                      \/ /\ hbCall'[d].op = "close" /\ hbCall'[d].at \in {"sent", "ok", "error"}
                         /\ hbCall'[d].id \notin hbAstray
                      \/ hbCall'[d].op = "create" /\ hbCall'[d].at = "ok"
               PROVE  hbCall'[d].id \in hbMade' /\ \A f \in HbEnvs : hbCall'[d].id \in hbHolds'[f] => f = hbCall'[d].env
    BY <1>1 DEF HbCallTrue, OnlyAt
  <2>1. CASE d # c
    BY <2>1, <1>3, <1>6 DEF HbCallTrue, OnlyAt
  <2>2. CASE d = c /\ op = "create"
    BY <2>2, <1>1, <1>2, <1>3, <1>4 DEF HbOneHome, OnlyAt
  <2>3. CASE d = c /\ op # "create"
    BY <2>3, <1>3, <1>5, <1>6 DEF OnlyAt
  <2> QED
    BY <2>1, <2>2, <2>3
<1>12. HbCloseDone'
  <2> SUFFICES ASSUME NEW d \in HbCallers, hbCall'[d].op = "close", hbCall'[d].at \in {"ok", "error"},
                      hbCall'[d].id \notin hbAstray, NEW f \in HbEnvs
               PROVE  hbCall'[d].id \notin hbHolds'[f]
    BY <1>1 DEF HbCloseDone
  <2>1. CASE d # c
    BY <2>1, <1>3, <1>6 DEF HbCloseDone, HbCallTrue
  <2>2. CASE d = c
    BY <2>2, <1>2, <1>3, <1>5, <1>6 DEF OnlyAt
  <2> QED
    BY <2>1, <2>2
<1>13. HbToldIsReachable'
  <2> SUFFICES ASSUME NEW f \in HbEnvs, NEW x \in hbHolds'[f]
               PROVE  /\ x \in DOMAIN hbRoute => hbRoute[x] = f
                      /\ x \in hbTold \ (hbUnsaved \cup hbAstray) => x \in DOMAIN hbRoute
    BY <1>1 DEF HbToldIsReachable
  <2>1. x \in DOMAIN hbRoute => hbRoute[x] = f
    BY <1>1, <1>9 DEF HbRouteTrue, OnlyAt
  <2>2. x \in hbTold => x \in hbHolds[f]
    BY <1>6 DEF HbTypes
  <2> QED
    BY <2>1, <2>2 DEF HbToldIsReachable
<1> QED
  BY <1>7, <1>8, <1>9, <1>10, <1>11, <1>12, <1>13

(* A call that could not be forwarded, or whose answer was lost, stands for  *)
(* nothing any more.                                                         *)
LEMMA HbFailKeeps ==
  ASSUME HbInv, NEW c \in HbCallers, HbForwardFails(c) PROVE HbInv'
<1> USE DEF HbInv
<1>1. UNCHANGED <<hbLinks, hbRoute, hbHolds, hbMade, hbTold, hbUnsaved, hbAstray, hbFaults>>
  BY DEF HbForwardFails
<1>2. hbCall' = [hbCall EXCEPT ![c].at = "failed"]
  BY DEF HbForwardFails
<1>3. hbCall'[c].at = "failed" /\ hbCall[c].at # "idle" /\ hbCall'[c].op = hbCall[c].op
  BY <1>2 DEF HbForwardFails, HbTypes
<1>4. \A d \in HbCallers : d # c => hbCall'[d] = hbCall[d]
  BY <1>2 DEF HbTypes
<1>5. HbTypes'
  BY <1>1, <1>2, <1>3, <1>4 DEF HbTypes, HbStages
<1>6. HbOneHome' /\ HbRouteTrue' /\ HbToldIsReachable'
  BY <1>1 DEF HbOneHome, HbRouteTrue, HbToldIsReachable, OnlyAt
<1>7. HbSentNew' /\ HbCloseDone'
  BY <1>1, <1>3, <1>4 DEF HbSentNew, HbCloseDone
<1>8. HbCallTrue'
  BY <1>1, <1>3, <1>4 DEF HbCallTrue, OnlyAt
<1> QED
  BY <1>5, <1>6, <1>7, <1>8

(* The three ways a returned call leaves the routes.                         *)
LEMMA CreateRoutes ==
  ASSUME NEW call, call.op = "create", call.at = "ok"
  PROVE  HbRouteAfter(call) = HbWithRoute(call)
BY DEF HbRouteAfter

LEMMA CloseForgets ==
  ASSUME NEW call, call.op = "close", call.at # "failed"
  PROVE  HbRouteAfter(call) = Restrict(hbRoute, DOMAIN hbRoute \ {call.id})
BY DEF HbRouteAfter

LEMMA OthersKeepRoutes ==
  ASSUME NEW call, ~(call.op = "create" /\ call.at = "ok"), ~(call.op = "close" /\ call.at # "failed")
  PROVE  HbRouteAfter(call) = hbRoute
BY Zenon DEF HbRouteAfter

(* The answer is noted and given: a created id is routed to the node that    *)
(* made it, a closed one, which no node holds, is forgotten.                 *)
LEMMA HbReturnKeeps ==
  ASSUME HbInv, NEW c \in HbCallers, HbReturn(c) PROVE HbInv'
<1> USE DEF HbInv
<1> DEFINE call == hbCall[c]
<1>1. UNCHANGED <<hbLinks, hbHolds, hbMade, hbUnsaved, hbAstray, hbFaults>>
  BY DEF HbReturn
<1>2. /\ hbCall'[c] = HbIdle
      /\ \A d \in HbCallers : d # c => hbCall'[d] = hbCall[d]
      /\ HbIdle.at = "idle" /\ HbIdle.op = "none"
  BY DEF HbReturn, HbTypes, HbIdle
<1>3. /\ hbRoute' = HbRouteAfter(call)
      /\ hbTold' = IF call.op = "create" /\ call.at = "ok" THEN hbTold \cup {call.id} ELSE hbTold
      /\ call.at \in {"ok", "error", "failed"}
  BY DEF HbReturn
<1>4. ASSUME call.op = "create", call.at = "ok"
      PROVE  HbRouteTrue' /\ HbToldIsReachable' /\ hbTold' \subseteq hbMade'
  <2>1. /\ DOMAIN hbRoute' = DOMAIN hbRoute \cup {call.id}
        /\ hbRoute'[call.id] = call.env
        /\ \A x \in DOMAIN hbRoute : x # call.id => hbRoute'[x] = hbRoute[x]
    BY <1>3, <1>4, CreateRoutes DEF HbWithRoute
  <2>2. call.id \in hbMade /\ OnlyAt(call.id, call.env)
    BY <1>4 DEF HbCallTrue
  <2>3. HbRouteTrue'
    BY <2>1, <2>2, <1>1 DEF HbRouteTrue, OnlyAt
  <2>4. hbTold' = hbTold \cup {call.id}
    BY <1>3, <1>4
  <2>5. HbToldIsReachable'
    BY <2>1, <2>2, <2>4, <1>1 DEF HbToldIsReachable, OnlyAt
  <2>6. hbTold' \subseteq hbMade'
    BY <2>2, <2>4, <1>1 DEF HbTypes
  <2> QED
    BY <2>3, <2>5, <2>6
<1>5. ASSUME call.op = "close", call.at # "failed"
      PROVE  HbRouteTrue' /\ HbToldIsReachable' /\ hbTold' \subseteq hbMade'
  <2>1. /\ DOMAIN hbRoute' = DOMAIN hbRoute \ {call.id}
        /\ \A x \in DOMAIN hbRoute' : hbRoute'[x] = hbRoute[x]
    BY <1>3, <1>5, CloseForgets DEF Restrict
  <2>2. call.id \notin hbAstray => \A e \in HbEnvs : call.id \notin hbHolds[e]
    BY <1>3, <1>5 DEF HbCloseDone
  <2>3. HbRouteTrue'
    BY <2>1, <1>1 DEF HbRouteTrue, OnlyAt
  <2>4. hbTold' = hbTold
    BY <1>3, <1>5
  <2>5. HbToldIsReachable'
    BY <2>1, <2>2, <2>4, <1>1 DEF HbToldIsReachable
  <2>6. hbTold' \subseteq hbMade'
    BY <2>4, <1>1 DEF HbTypes
  <2> QED
    BY <2>3, <2>5, <2>6
<1>6. ASSUME ~(call.op = "create" /\ call.at = "ok"), ~(call.op = "close" /\ call.at # "failed")
      PROVE  HbRouteTrue' /\ HbToldIsReachable' /\ hbTold' \subseteq hbMade'
  <2>1. hbRoute' = hbRoute /\ hbTold' = hbTold
    BY <1>3, <1>6, OthersKeepRoutes
  <2>2. hbTold' \subseteq hbMade'
    BY <2>1, <1>1 DEF HbTypes
  <2> QED
    BY <2>1, <2>2, <1>1 DEF HbRouteTrue, HbToldIsReachable, OnlyAt
<1>7. HbRouteTrue' /\ HbToldIsReachable' /\ hbTold' \subseteq hbMade'
  BY <1>4, <1>5, <1>6
<1>8. hbCall' \in [HbCallers -> [op : HbOps, id : HbIds \cup {HbIdle.id},
                                 env : HbEnvs \cup {HbIdle.env}, at : HbStages]]
  BY DEF HbReturn, HbTypes, HbIdle, HbOps, HbStages
<1>9. HbTypes'
  BY <1>1, <1>2, <1>7, <1>8 DEF HbTypes
<1>10. HbOneHome'
  BY <1>1 DEF HbOneHome, OnlyAt
<1>11. HbSentNew' /\ HbCloseDone'
  BY <1>1, <1>2 DEF HbSentNew, HbCloseDone
<1>12. HbCallTrue'
  BY <1>1, <1>2 DEF HbCallTrue, OnlyAt
<1> QED
  BY <1>7, <1>9, <1>10, <1>11, <1>12

(* An answer whose thread was not saved leaves the routes alone.              *)
LEMMA HbUnsavedKeeps ==
  ASSUME HbInv, NEW c \in HbCallers, HbReturnUnsaved(c) PROVE HbInv'
<1> USE DEF HbInv
<1>1. /\ UNCHANGED <<hbLinks, hbRoute, hbHolds, hbMade, hbAstray>>
      /\ hbTold' = hbTold \cup {hbCall[c].id} /\ hbUnsaved' = hbUnsaved \cup {hbCall[c].id}
      /\ hbCall[c].op = "create" /\ hbCall[c].at = "ok"
  BY DEF HbReturnUnsaved
<1>2. /\ hbCall'[c] = HbIdle
      /\ \A d \in HbCallers : d # c => hbCall'[d] = hbCall[d]
      /\ HbIdle.at = "idle" /\ HbIdle.op = "none"
  BY DEF HbReturnUnsaved, HbTypes, HbIdle
<1>3. hbCall' \in [HbCallers -> [op : HbOps, id : HbIds \cup {HbIdle.id},
                                 env : HbEnvs \cup {HbIdle.env}, at : HbStages]]
  BY DEF HbReturnUnsaved, HbTypes, HbIdle, HbOps, HbStages
<1>4. hbCall[c].id \in hbMade
  BY <1>1 DEF HbCallTrue
<1>5. HbTypes'
  BY <1>1, <1>2, <1>3, <1>4 DEF HbTypes
<1>6. HbOneHome' /\ HbRouteTrue' /\ HbToldIsReachable'
  BY <1>1 DEF HbOneHome, HbRouteTrue, HbToldIsReachable, OnlyAt
<1>7. HbSentNew' /\ HbCallTrue' /\ HbCloseDone'
  BY <1>1, <1>2 DEF HbSentNew, HbCallTrue, HbCloseDone, OnlyAt
<1> QED
  BY <1>5, <1>6, <1>7

(* Links and nodes come and go: what a node holds only gets less.            *)
LEMMA HbFaultKeeps ==
  ASSUME HbInv, NEW e \in HbEnvs, HbUnlink(e) \/ HbLink(e) \/ HbNodeRestarts(e) PROVE HbInv'
<1> USE DEF HbInv
<1>1. /\ UNCHANGED <<hbRoute, hbMade, hbTold, hbUnsaved, hbAstray, hbCall>>
      /\ hbLinks' \in SUBSET HbEnvs /\ hbHolds' \in [HbEnvs -> SUBSET HbIds]
      /\ \A f \in HbEnvs : hbHolds'[f] \subseteq hbHolds[f]
  BY DEF HbUnlink, HbLink, HbNodeRestarts, HbTypes
<1>2. HbTypes'
  BY <1>1 DEF HbTypes
<1>3. HbOneHome' /\ HbRouteTrue' /\ HbToldIsReachable'
  BY <1>1 DEF HbOneHome, HbRouteTrue, HbToldIsReachable, OnlyAt
<1>4. HbSentNew' /\ HbCallTrue' /\ HbCloseDone'
  BY <1>1 DEF HbSentNew, HbCallTrue, HbCloseDone, OnlyAt
<1> QED
  BY <1>2, <1>3, <1>4

(* The hub restarts: the routes of threads are kept, nothing is under way.   *)
LEMMA HbRestartKeeps ==
  ASSUME HbInv, HbHubRestarts PROVE HbInv'
<1> USE DEF HbInv
<1>1. UNCHANGED <<hbLinks, hbHolds, hbMade, hbUnsaved, hbAstray>> /\ hbTold' = hbTold \cap HbThreads
  BY DEF HbHubRestarts
<1>2. \A d \in HbCallers : hbCall'[d].at = "idle" /\ hbCall'[d].op = "none"
  BY DEF HbHubRestarts, HbIdle
<1>3. /\ DOMAIN hbRoute' = DOMAIN hbRoute \cap HbThreads
      /\ \A x \in DOMAIN hbRoute' : hbRoute'[x] = hbRoute[x]
  <2>1. hbRoute' = Restrict(hbRoute, DOMAIN hbRoute \cap HbThreads)
    BY DEF HbHubRestarts
  <2> QED
    BY <2>1 DEF Restrict
<1>4. hbCall' \in [HbCallers -> [op : HbOps, id : HbIds \cup {HbIdle.id},
                                 env : HbEnvs \cup {HbIdle.env}, at : HbStages]]
  BY DEF HbHubRestarts, HbIdle, HbOps, HbStages
<1>5. HbTypes'
  BY <1>1, <1>2, <1>4 DEF HbTypes
<1>6. HbOneHome' /\ HbRouteTrue' /\ HbToldIsReachable'
  BY <1>1, <1>3 DEF HbOneHome, HbRouteTrue, HbToldIsReachable, OnlyAt
<1>7. HbSentNew' /\ HbCallTrue' /\ HbCloseDone'
  BY <1>2 DEF HbSentNew, HbCallTrue, HbCloseDone
<1> QED
  BY <1>5, <1>6, <1>7

LEMMA HbStepKeeps == HbInv /\ [HbNext]_hbVars => HbInv'
<1> SUFFICES ASSUME HbInv, [HbNext]_hbVars PROVE HbInv'
  OBVIOUS
<1>1. CASE HbNext
  BY <1>1, HbBeginKeeps, HbAnswerKeeps, HbFailKeeps, HbReturnKeeps, HbUnsavedKeeps, HbFaultKeeps, HbRestartKeeps DEF HbNext
<1>2. CASE UNCHANGED hbVars
  BY <1>2 DEF hbVars, HbInv, HbTypes, HbOneHome, HbRouteTrue, HbSentNew, HbCallTrue, HbCloseDone,
              HbToldIsReachable, OnlyAt
<1> QED
  BY <1>1, <1>2

(* The routes of Router::handle_request never send a call that names no       *)
(* environment to another node than the one that holds what it is about; and  *)
(* what a client was told it has, and a node still holds, they do not lose,   *)
(* whatever calls cross and whatever fails, except by a row that could not be *)
(* written or a close that was sent to an environment it is not on.           *)
THEOREM HbReachable == HbSpec => []HbToldIsReachable
<1>1. HbInv => HbToldIsReachable
  BY DEF HbInv
<1> QED
  BY <1>1, HbStarts, HbStepKeeps, PTL DEF HbSpec

-----------------------------------------------------------------------------
(* The work tree.  A roll-back that was read and not disturbed has the index  *)
(* of its checkpoint, the files of it, and the ignored files of before.       *)
WsTypes ==
  /\ wsTree \in WsTrees /\ wsIndex \in WsTrees /\ wsHead.tree \in WsTrees
  /\ \A r \in DOMAIN wsRefs : wsRefs[r] \in WsTrees
  /\ wsTaking.tree \in WsTrees
  /\ wsRoll \in [at : {"none", "read", "done"}, to : WsTrees, from : WsTrees, kept : SUBSET WsIgnored,
                 alone : BOOLEAN]
WsRead ==
  wsRoll.at = "read" /\ wsRoll.alone =>
    /\ wsIndex = wsRoll.to
    /\ \A p \in WsPaths : wsRoll.to[p] # 0 => wsTree[p] = wsRoll.to[p]
    /\ \A p \in wsRoll.kept : wsTree[p] = wsRoll.from[p]
WsInv == WsTypes /\ WsRead /\ WsRollbackRestores

LEMMA WsStarts == WsInit => WsInv
<1> SUFFICES ASSUME WsInit PROVE WsInv
  OBVIOUS
<1>1. WsNothing \in WsTrees
  BY WsAssumption DEF WsNothing, WsTrees
<1>2. wsRoll.at = "none" /\ wsTree = WsNothing /\ wsIndex = WsNothing /\ wsHead.tree = WsNothing
      /\ wsTaking.tree = WsNothing /\ wsRefs = << >>
  BY DEF WsInit, WsNoRoll, WsNoTake
<1>3. wsRoll \in [at : {"none", "read", "done"}, to : WsTrees, from : WsTrees, kept : SUBSET WsIgnored,
                  alone : BOOLEAN]
  BY <1>1 DEF WsInit, WsNoRoll
<1> QED
  BY <1>1, <1>2, <1>3 DEF WsInv, WsTypes, WsRead, WsRollbackRestores

(* What writes disturbs a roll-back, and what a done one restored is past.    *)
LEMMA WsMeanwhileKeeps ==
  ASSUME WsInv, WsMeanwhile, wsTree' \in WsTrees, wsIndex' \in WsTrees, UNCHANGED <<wsHead, wsRefs>>,
         wsTaking' = wsTaking
  PROVE  WsInv'
<1>1. WsNothing \in WsTrees
  BY WsAssumption DEF WsNothing, WsTrees
<1>2. wsRoll'.at # "none" => ~wsRoll'.alone
  BY DEF WsMeanwhile, WsNoRoll, WsInv, WsTypes
<1>3. wsRoll' \in [at : {"none", "read", "done"}, to : WsTrees, from : WsTrees, kept : SUBSET WsIgnored,
                   alone : BOOLEAN]
  <2>1. WsNoRoll \in [at : {"none", "read", "done"}, to : WsTrees, from : WsTrees, kept : SUBSET WsIgnored,
                      alone : BOOLEAN]
    BY <1>1 DEF WsNoRoll
  <2> QED
    BY <2>1 DEF WsMeanwhile, WsInv, WsTypes
<1> QED
  BY <1>2, <1>3 DEF WsInv, WsTypes, WsRead, WsRollbackRestores

(* What leaves files, index and roll-back alone keeps it all.                 *)
LEMMA WsAsideKeeps ==
  ASSUME WsInv, UNCHANGED <<wsTree, wsIndex, wsRoll>>, wsHead'.tree \in WsTrees, wsTaking'.tree \in WsTrees,
         \A r \in DOMAIN wsRefs' : wsRefs'[r] \in WsTrees
  PROVE  WsInv'
BY DEF WsInv, WsTypes, WsRead, WsRollbackRestores

LEMMA WsAddAllTyped == ASSUME WsTypes, NEW index \in WsTrees PROVE WsAddAll(index) \in WsTrees
BY WsAssumption DEF WsAddAll, WsTypes, WsTrees

LEMMA WsRollReadKeeps == ASSUME WsInv, NEW ref \in WsRefNames, WsRollRead(ref) PROVE WsInv'
<1> DEFINE to == wsRefs[ref]
<1>1. to \in WsTrees
  BY DEF WsRollRead, WsInv, WsTypes
<1>2. /\ wsTree' = [p \in WsPaths |-> IF to[p] # 0 THEN to[p] ELSE IF wsIndex[p] # 0 THEN 0 ELSE wsTree[p]]
      /\ wsIndex' = to
      /\ wsRoll' = [at |-> "read", to |-> to, from |-> wsTree, alone |-> TRUE,
                    kept |-> {p \in WsIgnored : wsIndex[p] = 0 /\ to[p] = 0}]
      /\ UNCHANGED <<wsHead, wsRefs, wsTaking>>
  BY DEF WsRollRead
<1> HIDE DEF to
<1>3. wsTree \in WsTrees /\ wsIndex \in WsTrees
  BY DEF WsInv, WsTypes
<1>4. wsTree' \in WsTrees
  BY <1>1, <1>2, <1>3, WsAssumption DEF WsTrees
<1>5. /\ wsRoll'.at = "read" /\ wsRoll'.to = to /\ wsRoll'.from = wsTree
      /\ wsRoll'.kept = {p \in WsIgnored : wsIndex[p] = 0 /\ to[p] = 0}
      /\ wsRoll' \in [at : {"none", "read", "done"}, to : WsTrees, from : WsTrees, kept : SUBSET WsIgnored,
                      alone : BOOLEAN]
  BY <1>1, <1>2, <1>3
<1>6. \A p \in WsPaths : to[p] # 0 => wsTree'[p] = to[p]
  BY <1>2
<1>7. \A p \in WsIgnored : wsIndex[p] = 0 /\ to[p] = 0 => wsTree'[p] = wsTree[p]
  BY <1>2, WsAssumption
<1>8. WsTypes'
  BY <1>1, <1>2, <1>4, <1>5 DEF WsInv, WsTypes
<1>9. WsRead' /\ WsRollbackRestores'
  BY <1>2, <1>5, <1>6, <1>7 DEF WsRead, WsRollbackRestores
<1> QED
  BY <1>8, <1>9 DEF WsInv

LEMMA WsRollCleanKeeps == ASSUME WsInv, WsRollClean PROVE WsInv'
<1>1. /\ wsTree' = [p \in WsPaths |-> IF wsIndex[p] = 0 /\ p \notin WsIgnored THEN 0 ELSE wsTree[p]]
      /\ wsRoll' = [wsRoll EXCEPT !.at = "done"] /\ wsRoll.at = "read"
      /\ UNCHANGED <<wsIndex, wsHead, wsRefs, wsTaking>>
  BY DEF WsRollClean, WsCleaned
<1>2. wsRoll' \in [at : {"none", "read", "done"}, to : WsTrees, from : WsTrees, kept : SUBSET WsIgnored,
                   alone : BOOLEAN]
      /\ wsRoll'.at = "done" /\ wsRoll'.to = wsRoll.to /\ wsRoll'.from = wsRoll.from
      /\ wsRoll'.kept = wsRoll.kept /\ wsRoll'.alone = wsRoll.alone /\ wsRoll.kept \subseteq WsIgnored
  BY <1>1 DEF WsInv, WsTypes
<1>3. wsTree' \in WsTrees
  BY <1>1, WsAssumption DEF WsInv, WsTypes, WsTrees
<1>4. WsTypes'
  BY <1>1, <1>2, <1>3 DEF WsInv, WsTypes
<1>5. ASSUME wsRoll.alone
      PROVE  /\ \A p \in WsPaths \ WsIgnored : wsTree'[p] = wsRoll.to[p]
             /\ \A p \in wsRoll.kept : wsTree'[p] = wsRoll.from[p]
  <2>1. /\ wsIndex = wsRoll.to
        /\ \A p \in WsPaths : wsRoll.to[p] # 0 => wsTree[p] = wsRoll.to[p]
        /\ \A p \in wsRoll.kept : wsTree[p] = wsRoll.from[p]
    BY <1>1, <1>5 DEF WsInv, WsRead
  <2> QED
    BY <1>1, <1>2, <2>1, WsAssumption
<1>6. WsRollbackRestores'
  BY <1>2, <1>5 DEF WsRollbackRestores
<1>7. WsRead'
  BY <1>2 DEF WsRead
<1> QED
  BY <1>4, <1>6, <1>7 DEF WsInv

LEMMA WsStepKeeps == WsInv /\ [WsNext]_wsVars => WsInv'
<1> SUFFICES ASSUME WsInv, [WsNext]_wsVars PROVE WsInv'
  OBVIOUS
<1>1. /\ wsTree \in WsTrees /\ wsIndex \in WsTrees /\ wsHead.tree \in WsTrees /\ wsTaking.tree \in WsTrees
      /\ (\A r \in DOMAIN wsRefs : wsRefs[r] \in WsTrees) /\ WsNothing \in WsTrees
  BY WsAssumption DEF WsInv, WsTypes, WsNothing, WsTrees
<1>2. CASE WsWrite
  <2>1. wsTree' \in WsTrees
    BY <1>1, <1>2 DEF WsWrite, WsTrees
  <2> QED
    BY <1>1, <1>2, <2>1, WsMeanwhileKeeps DEF WsWrite
<1>3. CASE WsStage
  <2>1. wsIndex' \in WsTrees
    BY <1>1, <1>3 DEF WsStage, WsTrees
  <2> QED
    BY <1>1, <1>3, <2>1, WsMeanwhileKeeps DEF WsStage
<1>4. ASSUME NEW ref \in WsRefNames, WsTake(ref) PROVE WsInv'
  <2>1. wsTaking'.tree \in WsTrees
    BY <1>1, <1>4, WsAddAllTyped DEF WsTake, WsInv
  <2> QED
    BY <1>1, <1>4, <2>1, WsAsideKeeps DEF WsTake
<1>5. ASSUME NEW ref \in WsRefNames, WsRollRead(ref) PROVE WsInv'
  BY <1>5, WsRollReadKeeps
<1>6. ASSUME NEW ok \in BOOLEAN, WsNamed(ok) PROVE WsInv'
  <2>1. wsTaking'.tree \in WsTrees
    BY <1>1, <1>6 DEF WsNamed, WsNoTake
  <2>2. \A r \in DOMAIN wsRefs' : wsRefs'[r] \in WsTrees
    BY <1>1, <1>6 DEF WsNamed
  <2> QED
    BY <1>1, <1>6, <2>1, <2>2, WsAsideKeeps DEF WsNamed
<1>7. ASSUME NEW ok \in BOOLEAN, WsCommitMade(ok) PROVE WsInv'
  <2>1. wsHead'.tree \in WsTrees
    BY <1>1, <1>7 DEF WsCommitMade
  <2> QED
    BY <1>1, <1>7, <2>1, WsAsideKeeps DEF WsCommitMade
<1>8. CASE WsPrune
  <2>1. \A r \in DOMAIN wsRefs' : wsRefs'[r] \in WsTrees
    BY <1>1, <1>8 DEF WsPrune, WsPruned
  <2> QED
    BY <1>1, <1>8, <2>1, WsAsideKeeps DEF WsPrune, WsNoTake
<1>9. CASE WsRollClean
  BY <1>9, WsRollCleanKeeps
<1>10. CASE WsRollFails
  <2>1. wsRoll' = WsNoRoll /\ UNCHANGED <<wsTree, wsIndex, wsHead, wsRefs, wsTaking>>
    BY <1>10 DEF WsRollFails
  <2>2. wsRoll' \in [at : {"none", "read", "done"}, to : WsTrees, from : WsTrees, kept : SUBSET WsIgnored,
                     alone : BOOLEAN] /\ wsRoll'.at = "none"
    BY <1>1, <2>1 DEF WsNoRoll
  <2> QED
    BY <1>1, <2>1, <2>2 DEF WsInv, WsTypes, WsRead, WsRollbackRestores
<1>11. CASE WsCommitStage
  <2>1. wsIndex' \in WsTrees
    BY <1>1, <1>11, WsAddAllTyped DEF WsCommitStage, WsInv
  <2> QED
    BY <1>1, <1>11, <2>1, WsMeanwhileKeeps DEF WsCommitStage
<1>12. CASE WsPush
  BY <1>1, <1>12, WsAsideKeeps DEF WsPush
<1>13. CASE UNCHANGED wsVars
  BY <1>1, <1>13, WsAsideKeeps DEF wsVars
<1> QED
  BY <1>2, <1>3, <1>4, <1>5, <1>6, <1>7, <1>8, <1>9, <1>10, <1>11, <1>12, <1>13 DEF WsNext

(* git commit and git status look at the same three trees.                    *)
LEMMA WsStatusRight == WsTypes => WsStatusTells
<1> SUFFICES ASSUME WsTypes PROVE WsStatusTells
  OBVIOUS
<1> DEFINE added == WsAddAll(wsIndex)
<1>1. /\ \A p \in WsPaths : wsTree[p] \in 0..WsTexts /\ wsIndex[p] \in 0..WsTexts /\ wsHead.tree[p] \in 0..WsTexts
      /\ wsHead.tree = [p \in WsPaths |-> wsHead.tree[p]] /\ wsIndex = [p \in WsPaths |-> wsIndex[p]]
  BY DEF WsTypes, WsTrees
<1>2. \A p \in WsPaths : added[p] = IF p \in WsIgnored /\ wsIndex[p] = 0 THEN 0 ELSE wsTree[p]
  BY DEF WsAddAll
<1>3. WsDrafted = "clean" <=> WsStatus = {}
  BY DEF WsDrafted
<1>4. ASSUME added # wsHead.tree PROVE WsStatus # {}
  <2>1. PICK p \in WsPaths : added[p] # wsHead.tree[p]
    BY <1>1, <1>4 DEF WsAddAll
  <2>2. p \in WsSomewhere
    BY <1>1, <1>2, <2>1 DEF WsSomewhere
  <2>3. PICK status \in {"deleted", "added", "modified", "untracked"} : WsListed(p, status)
    BY <1>1, <1>2, <2>1 DEF WsListed
  <2>4. <<p, status>> \in WsSomewhere \X {"deleted", "added", "modified", "untracked"}
    BY <2>2, <2>3
  <2>5. <<p, status>> \in WsStatus
    BY <2>3, <2>4 DEF WsStatus
  <2> QED
    BY <2>5
<1>5. ASSUME wsIndex = wsHead.tree, added = wsHead.tree, WsStatus # {} PROVE FALSE
  <2>1. PICK p \in WsSomewhere, status \in {"deleted", "added", "modified", "untracked"} : WsListed(p, status)
    BY <1>5 DEF WsStatus
  <2>2. p \in WsPaths /\ added[p] = wsHead.tree[p] /\ wsIndex[p] = wsHead.tree[p]
    BY <1>5 DEF WsSomewhere
  <2> QED
    BY <1>1, <1>2, <2>1, <2>2 DEF WsListed
<1> QED
  BY <1>3, <1>4, <1>5 DEF WsStatusTells

(* Whatever paths there are, whatever .gitignore names, and whoever writes,   *)
(* stages, commits and prunes between the commands: a roll-back nobody        *)
(* disturbed restores the checkpoint (checkpoint.rs, rollback_to_checkpoint), *)
(* and the git bar offers a commit whenever git_commit would make one.     *)
THEOREM WsBarHolds == WsSpec => []WsBarTrue
<1>1. WsInit => WsInv
  BY WsStarts
<1>2. WsInv /\ [WsNext]_wsVars => WsInv'
  BY WsStepKeeps
<1>3. WsInv => WsBarTrue
  BY WsStatusRight DEF WsInv, WsBarTrue
<1> QED
  BY <1>1, <1>2, <1>3, PTL DEF WsSpec

-----------------------------------------------------------------------------
(* Attachments.  The size is settled before anything is stored, and nothing   *)
(* is recorded before its file was written.                                   *)
UpStored ==
  /\ upRecord => upFaults > 0 \/ upFile # NoFile
  /\ upRecord /\ ~upTorn => upFile = WholeFile /\ upSize <= UpCap
UpInv ==
  /\ upSize \in 0..UpMaxSize /\ upFaults \in Nat /\ upTorn \in BOOLEAN /\ upRecord \in BOOLEAN
  /\ UpStored

LEMMA UpWholeIsAFile == ASSUME UpInv PROVE WholeFile # NoFile
<1>1. UpTotal >= 1 /\ UpTotal \in Nat
  BY UpAssumption DEF UpInv, UpTotal
<1>2. WholeFile[1] = 0 /\ NoFile[1] = UpMaxSize + 2
  BY <1>1 DEF WholeFile, NoFile, Cut
<1> QED
  BY <1>2, UpAssumption

LEMMA UpStepKeeps == UpInv /\ [UpNext]_upVars => UpInv'
<1> SUFFICES ASSUME UpInv, [UpNext]_upVars PROVE UpInv'
  OBVIOUS
<1>1. UpMaxSize \in Nat /\ UpCap \in Nat /\ WholeFile # NoFile
  BY UpAssumption, UpWholeIsAFile
<1>2. upSize' = upSize => WholeFile' = WholeFile
  BY DEF WholeFile, UpTotal
<1>3. CASE UpChooseSize
  BY <1>1, <1>3 DEF UpChooseSize, UpInv, UpStored
<1>4. ASSUME NEW s \in UpSenders, UpSend(s) PROVE UpInv'
  <2>1. upSize' = upSize
    BY <1>4 DEF UpSend
  <2>2. \A fly : UpKeep(fly) => UpInv'
    BY <1>2, <2>1 DEF UpKeep, UpInv, UpStored
  <2>3. ASSUME NEW fly, UpAssembles(fly), UpStoreFile PROVE UpInv'
    BY <1>1, <1>2, <2>1, <2>3 DEF UpAssembles, UpStoreFile, UpInv, UpStored
  <2>4. ASSUME NEW fly, UpAssembles(fly), UpStoreFails(fly) PROVE UpInv'
    <3>1. upFaults \in Nat /\ upFaults' = upFaults + 1 /\ upRecord' = upRecord
      BY <2>4 DEF UpStoreFails, UpInv
    <3>2. upFaults' \in Nat /\ upFaults' > 0
      BY <3>1
    <3>3. CASE upFile' = WholeFile /\ upTorn' = FALSE
      BY <1>1, <1>2, <2>1, <2>4, <3>1, <3>2, <3>3 DEF UpAssembles, UpInv, UpStored
    <3>4. CASE upTorn' = TRUE
      BY <2>1, <3>1, <3>2, <3>4 DEF UpInv, UpStored
    <3> QED
      BY <2>4, <3>3, <3>4 DEF UpStoreFails
  <2> QED
    BY <1>4, <2>2, <2>3, <2>4 DEF UpSend, PutChunk
<1>5. ASSUME NEW s \in UpSenders, UpCut(s) PROVE UpInv'
  BY <1>2, <1>5 DEF UpCut, UpInv, UpStored
<1>6. CASE UpCrash
  BY <1>2, <1>6 DEF UpCrash, UpInv, UpStored
<1>7. CASE UNCHANGED upVars
  BY <1>2, <1>7 DEF upVars, UpInv, UpStored
<1> QED
  BY <1>3, <1>4, <1>5, <1>6, <1>7 DEF UpNext

(* However many senders there are, whatever size and cap, and however often   *)
(* file, store, connections and server fail: a record has its whole file,     *)
(* unless a later rewrite of it failed (put_chunk of attachment.rs).          *)
THEOREM UpRecordsWhole == UpSpec => []UpRecordIsWhole
<1>1. UpInit => UpInv
  <2> SUFFICES ASSUME UpInit PROVE UpInv
    OBVIOUS
  <2>1. upSize = UpMaxSize /\ upFaults = 0 /\ upTorn = FALSE /\ upRecord = FALSE /\ UpMaxSize \in Nat
    BY UpAssumption DEF UpInit
  <2>2. UpStored
    BY <2>1, Zenon DEF UpStored
  <2>3. upSize \in 0..UpMaxSize /\ upFaults \in Nat
    BY <2>1
  <2>4. upTorn \in BOOLEAN /\ upRecord \in BOOLEAN
    BY <2>1, Zenon
  <2> QED
    BY <2>2, <2>3, <2>4 DEF UpInv
<1>2. UpInv /\ [UpNext]_upVars => UpInv'
  BY UpStepKeeps
<1>3. UpInv => UpRecordIsWhole
  BY DEF UpInv, UpStored, UpRecordIsWhole
<1> QED
  BY <1>1, <1>2, <1>3, PTL DEF UpSpec

-----------------------------------------------------------------------------
(* What is told of the providers' health.                                     *)
HlConfigRecs == [kind : HlKinds, named : {"none", "file", "gone"}, key : BOOLEAN, enabled : BOOLEAN]
HlMachines ==
  [programs : SUBSET AllPrograms, logins : SUBSET (1..HlInstances), env : SUBSET HlKeyKinds,
   answers : BOOLEAN]
HlReportRecs ==
  [installed : BOOLEAN, status : {"unavailable", "healthy", "degraded", "unauthenticated"},
   seen : HlConfigRecs \X HlMachines]

(* A report is what the probe of its instance made of what it saw.            *)
HlReport(i, config, machine) ==
  [installed |-> Probed(i, config, machine).installed,
   status |-> StatusTold(Probed(i, config, machine)), seen |-> <<config, machine>>]
HlMadeOf(made) ==
  /\ made \in Seq(HlReportRecs)
  /\ \A i \in DOMAIN made : made[i] = HlReport(i, made[i].seen[1], made[i].seen[2])

HlInv ==
  /\ hlConfig \in [1..HlInstances -> HlConfigRecs]
  /\ hlMachine \in HlMachines
  /\ hlAsked \in [waiting : Nat, checking : BOOLEAN]
  /\ hlAsked.checking \/ hlCheck.up => hlAsked.waiting > 0
  /\ hlCheck \in [up : BOOLEAN, read : Seq(HlConfigRecs), made : Seq(HlReportRecs)]
  /\ hlCheck.up => Len(hlCheck.read) = HlInstances /\ Len(hlCheck.made) <= HlInstances
  /\ HlMadeOf(hlCheck.made)
  /\ HlMadeOf(hlShown) /\ Len(hlShown) \in {0, HlInstances}

\* There is a program for the instance, and a login or a key of its own.
HlThere(config, machine) ==
  config.named = "file" \/ ToSet(ProgramNames(config.kind)) \cap machine.programs # {}
HlKnown(i, config, machine) ==
  \/ i \in machine.logins
  \/ config.kind \in HlKeyKinds /\ (config.key \/ config.kind \in machine.env)

(* What resolve_binary finds, for a configuration and a machine.              *)
LEMMA HlFinds ==
  ASSUME NEW config \in HlConfigRecs, NEW machine
  PROVE  FirstFound(config, machine) # "nothing" <=> HlThere(config, machine)
<1> DEFINE names == ProgramNames(config.kind)
           found == {n \in DOMAIN names : names[n] \in machine.programs}
<1>1. config.kind \in {"claude", "codex", "cursor", "grok", "opencode", "antigravity"}
  BY HlAssumption DEF HlConfigRecs
<1>2. DOMAIN names \subseteq {1, 2} /\ \A n \in DOMAIN names : names[n] # "nothing"
  BY <1>1 DEF ProgramNames
<1>3. ToSet(names) = {names[n] : n \in DOMAIN names}
  BY DEF ToSet
<1>4. ToSet(names) \cap machine.programs # {} <=> found # {}
  BY <1>3
<1>5. ASSUME found # {} PROVE Min(found) \in DOMAIN names
  <2>1. \E n \in found : \A m \in found : n <= m
    BY <1>2, <1>5
  <2> QED
    BY <2>1 DEF Min
<1> QED
  BY <1>2, <1>4, <1>5 DEF FirstFound, HlThere

(* What probe tells, for each of the drivers.                                 *)
LEMMA HlProbes ==
  ASSUME NEW i, NEW config \in HlConfigRecs, NEW machine \in HlMachines
  PROVE  LET snapshot == Probed(i, config, machine)
             there    == HlThere(config, machine)
             known    == HlKnown(i, config, machine)
         IN /\ snapshot.installed \in BOOLEAN /\ (snapshot.installed <=> there)
            /\ StatusTold(snapshot) \in {"unavailable", "healthy", "degraded", "unauthenticated"}
            /\ (StatusTold(snapshot) = "unavailable") <=> ~there
            /\ StatusTold(snapshot) = "healthy" => known
            /\ there /\ known /\ machine.answers => StatusTold(snapshot) = "healthy"
<1> DEFINE there == HlThere(config, machine)
           snapshot == Probed(i, config, machine)
<1>1. FirstFound(config, machine) # "nothing" <=> there
  BY HlFinds
<1>2. config.kind \in HlKinds /\ config.kind \in {"claude", "codex", "cursor", "grok", "opencode", "antigravity"}
  BY HlAssumption DEF HlConfigRecs
<1>3. config.kind \in HlKeyKinds <=> config.kind \in {"cursor", "grok", "opencode"}
  BY <1>2 DEF HlKeyKinds
<1>4. machine.answers \in BOOLEAN /\ config.key \in BOOLEAN /\ machine.env \subseteq HlKeyKinds
  BY DEF HlMachines, HlConfigRecs
<1>5. CASE ~there
  BY <1>1, <1>5 DEF Probed, Missing, Snapshot, StatusTold
<1>6. CASE there /\ config.kind = "claude"
  BY <1>1, <1>3, <1>4, <1>6 DEF Probed, HlKnown, ClaudeProbe, Snapshot, StatusTold
<1>7. CASE there /\ config.kind = "codex"
  BY <1>1, <1>3, <1>4, <1>7 DEF Probed, HlKnown, CodexProbe, Snapshot, StatusTold
<1>8. CASE there /\ config.kind = "antigravity"
  BY <1>1, <1>3, <1>4, <1>8 DEF Probed, HlKnown, AntigravityProbe, Keyed, Snapshot, StatusTold
<1>9. CASE there /\ config.kind \in {"cursor", "grok", "opencode"}
  <2>1. snapshot = Keyed(HasKey(i, config, machine))
    BY <1>1, <1>9 DEF Probed, CursorProbe, GrokProbe, OpenCodeProbe
  <2>2. \/ ~HasKey(i, config, machine) /\ snapshot = Snapshot(TRUE, "no", "degraded")
        \/ HasKey(i, config, machine) /\ snapshot = Snapshot(TRUE, "yes", "healthy")
    BY <2>1 DEF Keyed
  <2>3. /\ snapshot.installed = TRUE
        /\ StatusTold(snapshot) = IF HasKey(i, config, machine) THEN "healthy" ELSE "degraded"
    BY <2>2 DEF Snapshot, StatusTold
  <2> QED
    BY <2>3, <1>3, <1>9 DEF HasKey, HlKnown
<1> QED
  BY <1>2, <1>5, <1>6, <1>7, <1>8, <1>9

LEMMA HlReportTyped ==
  ASSUME NEW i, NEW config \in HlConfigRecs, NEW machine \in HlMachines
  PROVE  HlReport(i, config, machine) \in HlReportRecs
<1>1. /\ Probed(i, config, machine).installed \in BOOLEAN
      /\ StatusTold(Probed(i, config, machine)) \in {"unavailable", "healthy", "degraded", "unauthenticated"}
  BY HlProbes
<1> QED
  BY <1>1 DEF HlReport, HlReportRecs

LEMMA HlStarts == HlInit => HlInv
<1> SUFFICES ASSUME HlInit PROVE HlInv
  OBVIOUS
<1>1. hlConfig \in [1..HlInstances -> HlConfigRecs]
  BY DEF HlInit, HlConfigRecs
<1>2. hlMachine \in HlMachines
  BY DEF HlInit, HlMachines
<1>3. /\ << >> \in Seq(HlConfigRecs) /\ << >> \in Seq(HlReportRecs) /\ HlMadeOf(<< >>)
      /\ Len(<< >>) = 0 /\ 0 \in {0, HlInstances}
  BY DEF HlMadeOf
<1>4. hlCheck = [up |-> FALSE, read |-> << >>, made |-> << >>] /\ hlShown = << >>
  BY DEF HlInit, NoCheck
<1>5. hlAsked = [waiting |-> 0, checking |-> FALSE]
  BY DEF HlInit
<1> QED
  BY <1>1, <1>2, <1>3, <1>4, <1>5 DEF HlInv

(* The next instance is probed: its report is added.                          *)
LEMMA HlProbeKeeps == ASSUME HlInv, HlProbe PROVE HlInv'
<1> DEFINE made == hlCheck.made
           i == Len(made) + 1
           config == hlCheck.read[i]
           report == HlReport(i, config, hlMachine)
<1>1. /\ hlCheck.up /\ Len(made) < Len(hlCheck.read)
      /\ made \in Seq(HlReportRecs) /\ hlCheck.read \in Seq(HlConfigRecs)
      /\ Len(hlCheck.read) = HlInstances /\ HlMadeOf(made)
  BY DEF HlInv, HlProbe
<1>2. Len(made) \in Nat /\ HlInstances \in Nat /\ DOMAIN made = 1..Len(made)
  BY <1>1, HlAssumption, LenProperties
<1>3. config \in HlConfigRecs
  <2>1. i \in 1..Len(hlCheck.read)
    BY <1>1, <1>2
  <2> HIDE DEF i
  <2> QED
    BY <1>1, <2>1, ElementOfSeq
<1>4. hlMachine \in HlMachines
  BY DEF HlInv
<1>5. report \in HlReportRecs /\ report.seen = <<config, hlMachine>>
  BY <1>3, <1>4, HlReportTyped DEF HlReport
<1>6. hlCheck' = [hlCheck EXCEPT !.made = Append(made, report)]
  BY DEF HlProbe, HlReport
<1>7. /\ UNCHANGED <<hlConfig, hlMachine, hlAsked, hlShown>>
  BY DEF HlProbe
<1> HIDE DEF report
<1> DEFINE more == Append(made, report)
<1>8. /\ more \in Seq(HlReportRecs) /\ Len(more) = Len(made) + 1
      /\ \A n \in 1..Len(made) : more[n] = made[n]
      /\ more[Len(made) + 1] = report /\ DOMAIN more = 1..(Len(made) + 1)
  BY <1>1, <1>2, <1>5, AppendProperties, LenProperties
<1>9. HlMadeOf(more)
  <2>1. \A n \in 1..Len(made) : more[n] = HlReport(n, more[n].seen[1], more[n].seen[2])
    BY <1>1, <1>2, <1>8 DEF HlMadeOf
  <2>2. more[i] = HlReport(i, more[i].seen[1], more[i].seen[2])
    BY <1>5, <1>8 DEF report
  <2>3. DOMAIN more = 1..Len(made) \cup {i}
    BY <1>2, <1>8
  <2> HIDE DEF i
  <2> QED
    BY <1>8, <2>1, <2>2, <2>3 DEF HlMadeOf
<1> HIDE DEF more
<1>10. /\ hlCheck' \in [up : BOOLEAN, read : Seq(HlConfigRecs), made : Seq(HlReportRecs)]
       /\ hlCheck'.up = hlCheck.up /\ hlCheck'.read = hlCheck.read /\ hlCheck'.made = more
  BY <1>6, <1>8 DEF HlInv, more
<1>11. Len(more) <= HlInstances
  BY <1>1, <1>2, <1>8
<1> QED
  BY <1>1, <1>7, <1>9, <1>10, <1>11 DEF HlInv

LEMMA HlStepKeeps == HlInv /\ [HlNext]_hlVars => HlInv'
<1> SUFFICES ASSUME HlInv, [HlNext]_hlVars PROVE HlInv'
  OBVIOUS
<1>1. << >> \in Seq(HlConfigRecs) /\ << >> \in Seq(HlReportRecs) /\ HlMadeOf(<< >>) /\ Len(<< >>) = 0
  BY DEF HlMadeOf
<1>2. CASE HlAsk
  BY <1>2 DEF HlAsk, HlInv
<1>3. CASE HlRead
  <2>1. hlConfig \in Seq(HlConfigRecs) /\ Len(hlConfig) = HlInstances
    BY HlAssumption DEF HlInv
  <2>2. hlCheck' = [up |-> TRUE, read |-> hlConfig, made |-> << >>]
    BY <1>3 DEF HlRead
  <2>3. 0 <= HlInstances
    BY HlAssumption
  <2>4. UNCHANGED <<hlConfig, hlMachine, hlAsked, hlShown>> /\ hlAsked.waiting > 0
    BY <1>3 DEF HlRead
  <2> QED
    BY <1>1, <2>1, <2>2, <2>3, <2>4 DEF HlInv
<1>4. CASE HlProbe
  BY <1>4, HlProbeKeeps
<1>5. CASE HlAnswered
  <2>1. hlCheck' = [up |-> FALSE, read |-> << >>, made |-> << >>]
    BY <1>5 DEF HlAnswered, NoCheck
  <2>2. /\ hlShown' = hlCheck.made /\ HlMadeOf(hlCheck.made) /\ Len(hlCheck.made) = HlInstances
        /\ hlAsked' = [waiting |-> hlAsked.waiting - 1, checking |-> FALSE]
        /\ hlAsked.waiting \in Nat /\ hlAsked.waiting > 0
        /\ UNCHANGED <<hlConfig, hlMachine>>
    BY <1>5 DEF HlAnswered, HlInv
  <2>3. hlAsked.waiting - 1 \in Nat
    BY <2>2
  <2> QED
    BY <1>1, <2>1, <2>2, <2>3 DEF HlInv
<1>6. CASE HlLost
  BY <1>1, <1>6 DEF HlLost, NoCheck, HlInv
<1>7. CASE HlChange
  <2>1. UNCHANGED <<hlAsked, hlCheck, hlShown>>
    BY <1>7 DEF HlChange
  <2>2. hlConfig' \in [1..HlInstances -> HlConfigRecs]
    <3>1. CASE hlConfig' = hlConfig
      BY <3>1 DEF HlInv
    <3>2. ASSUME NEW i \in 1..HlInstances, NEW config \in HlConfigRecs, hlConfig' = [hlConfig EXCEPT ![i] = config]
          PROVE  hlConfig' \in [1..HlInstances -> HlConfigRecs]
      BY <3>2 DEF HlInv
    <3>3. ASSUME NEW i \in 1..HlInstances,
                 \/ \E named \in {"file", "gone"} : hlConfig' = [hlConfig EXCEPT ![i].named = named]
                 \/ hlConfig' = [hlConfig EXCEPT ![i].key = TRUE]
                 \/ hlConfig' = [hlConfig EXCEPT ![i].enabled = FALSE]
          PROVE  \E config \in HlConfigRecs : hlConfig' = [hlConfig EXCEPT ![i] = config]
      <4> DEFINE old == hlConfig[i]
      <4>1. hlConfig[i] \in HlConfigRecs
        BY DEF HlInv
      <4>2. /\ \A named \in {"file", "gone"} : [old EXCEPT !.named = named] \in HlConfigRecs
            /\ [old EXCEPT !.key = TRUE] \in HlConfigRecs /\ [old EXCEPT !.enabled = FALSE] \in HlConfigRecs
        BY <4>1 DEF HlConfigRecs
      <4> QED
        BY <3>3, <4>2
    <3> QED
      BY <1>7, <3>1, <3>2, <3>3 DEF HlChange
  <2>3. hlMachine' \in HlMachines
    <3>1. hlMachine \in HlMachines
      BY DEF HlInv
    <3>2. \A p \in AllPrograms : [hlMachine EXCEPT !.programs = SymDiff(@, {p})] \in HlMachines
      BY <3>1 DEF HlMachines, SymDiff
    <3>3. \A i \in 1..HlInstances : [hlMachine EXCEPT !.logins = SymDiff(@, {i})] \in HlMachines
      BY <3>1 DEF HlMachines, SymDiff
    <3>4. [hlMachine EXCEPT !.answers = FALSE] \in HlMachines
      BY <3>1 DEF HlMachines
    <3> QED
      BY <1>7, <3>1, <3>2, <3>3, <3>4 DEF HlChange
  <2> QED
    BY <2>1, <2>2, <2>3 DEF HlInv
<1>8. CASE UNCHANGED hlVars
  BY <1>8 DEF hlVars, HlInv
<1> QED
  BY <1>2, <1>3, <1>4, <1>5, <1>6, <1>7, <1>8 DEF HlNext

LEMMA HlInvShows == HlInv => HlReportTrue
<1> SUFFICES ASSUME HlInv PROVE HlReportTrue
  OBVIOUS
<1>1. ASSUME NEW i \in DOMAIN hlShown, hlShown[i].seen = <<hlConfig[i], hlMachine>>
      PROVE  LET report == hlShown[i]
                 config == hlConfig[i]
                 there  == config.named = "file" \/ ToSet(ProgramNames(config.kind)) \cap hlMachine.programs # {}
                 known  == \/ i \in hlMachine.logins
                           \/ config.kind \in HlKeyKinds /\ (config.key \/ config.kind \in hlMachine.env)
             IN /\ report.installed = there
                /\ (report.status = "unavailable") = ~there
                /\ report.status = "healthy" => known
                /\ there /\ known /\ hlMachine.answers => report.status = "healthy"
                /\ config.named # "file" =>
                     (FirstFound(SessionConfig(config), hlMachine) # "nothing") = report.installed
  <2> DEFINE config == hlConfig[i]
  <2>1. config \in HlConfigRecs /\ hlMachine \in HlMachines
    <3>1. i \in 1..HlInstances
      BY HlAssumption DEF HlInv, HlMadeOf
    <3> QED
      BY <3>1 DEF HlInv
  <2>2. hlShown[i] = HlReport(i, config, hlMachine)
    BY <1>1 DEF HlInv, HlMadeOf
  <2>3. /\ hlShown[i].installed = Probed(i, config, hlMachine).installed
        /\ hlShown[i].status = StatusTold(Probed(i, config, hlMachine))
    BY <2>2 DEF HlReport
  <2> DEFINE session == SessionConfig(config)
  <2>4. session \in HlConfigRecs /\ session.named = "none" /\ session.kind = config.kind
    BY <2>1 DEF SessionConfig, HlConfigRecs
  <2> HIDE DEF session
  <2>5. config.named # "file" => (HlThere(session, hlMachine) <=> HlThere(config, hlMachine))
    BY <2>4 DEF HlThere
  <2>6. FirstFound(session, hlMachine) # "nothing" <=> HlThere(session, hlMachine)
    BY <2>4, HlFinds
  <2> HIDE DEF config
  <2>7. /\ hlShown[i].installed \in BOOLEAN /\ (hlShown[i].installed <=> HlThere(config, hlMachine))
        /\ (hlShown[i].status = "unavailable") <=> ~HlThere(config, hlMachine)
        /\ hlShown[i].status = "healthy" => HlKnown(i, config, hlMachine)
        /\ HlThere(config, hlMachine) /\ HlKnown(i, config, hlMachine) /\ hlMachine.answers
             => hlShown[i].status = "healthy"
    BY <2>1, <2>3, HlProbes
  <2> QED
    BY <2>5, <2>6, <2>7 DEF session, config, HlThere, HlKnown
<1>2. (hlAsked.checking => hlAsked.waiting > 0) /\ Len(hlShown) \in {0, HlInstances}
  BY DEF HlInv
<1> QED
  BY <1>1, <1>2 DEF HlReportTrue

(* For any number of instances, of any of the providers, and whatever changes *)
(* on the machine and in the settings while a check is under way: what the    *)
(* page shows of an instance is right unless something changed since.         *)
THEOREM HlReportsTrue == HlSpec => []HlReportTrue
<1>1. HlInit => HlInv
  BY HlStarts
<1>2. HlInv /\ [HlNext]_hlVars => HlInv'
  BY HlStepKeeps
<1>3. HlInv => HlReportTrue
  BY HlInvShows
<1> QED
  BY <1>1, <1>2, <1>3, PTL DEF HlSpec

-----------------------------------------------------------------------------
(* Connections to other machines and what is installed there.                 *)
(* ShOneConnection is not inductive: that a dial adds no second connection    *)
(* needs that the mutex of a slot says where its holder is, and that a slot   *)
(* whose mutex is held is empty, so that nothing of that host is live.  Nor   *)
(* is ShInstalledIsVerified: it needs what a caller about to move its upload  *)
(* into place knows of it.                                                    *)
ShCommands == {"detect", "mkdir", "check", "upload", "prepare", "clean", "move",
               "discover", "alive", "launch", "poll", "again"}
ShDaemons == ShUsers \cup {"none", Older}
ShPlaces == {"idle", "want", "wantJump", "dialJump", "through", "ready", "ended"}
ShOwners == {"none", "Discovered", "LauncherOwned"}
ShRecords == [stage : ShCommands \cup {"done", "failed"}, at : ShPlaces, conn : Nat,
              saw : ShDaemons, owner : ShOwners]
ShNodes ==
  [binary : {"none", "good", "bad"}, temps : [ShUsers -> {"none", "good", "bad"}],
   runtime : ShDaemons, daemons : SUBSET ShDaemons]

ShTypes ==
  /\ shSlot \in [ShHosts -> [by : ShUsers \cup {NoUser}, conn : Nat]]
  /\ shDials \in Nat
  /\ shLive \in SUBSET [conn : Nat, via : Nat]
  /\ shCall \in [ShUsers -> ShRecords]
  /\ \A u \in ShUsers : shCall[u].at # "ended" => shCall[u].stage \in ShCommands

\* Where the holder of a mutex is.
ShHolding ==
  \A u \in ShUsers :
    /\ (shCall[u].at \in {"wantJump", "dialJump", "through"}) <=> (shSlot["node"].by = u)
    /\ (shCall[u].at = "dialJump") <=> (shSlot["jump"].by = u)

\* A slot is emptied when its mutex is taken to dial.
ShEmptied == \A h \in ShHosts : shSlot[h].by # NoUser => shSlot[h].conn = 0

\* What lives is pooled.
ShHostOf(l) == IF l.via = 0 THEN "jump" ELSE "node"
ShPooled == \A l \in shLive : l.conn # 0 /\ l.conn = shSlot[ShHostOf(l)].conn

ShInv == ShTypes /\ ShHolding /\ ShEmptied /\ ShPooled

LEMMA ShStarts == ShInit => ShInv
BY ShAssumption DEF ShInit, ShInv, ShTypes, ShHolding, ShEmptied, ShPooled, ShHosts, ShCommands, ShPlaces,
   ShOwners, ShRecords, ShDaemons, NoUser

\* A caller that has, or uses, connection c.
ShWith(q, at, c) == [q EXCEPT !.at = at, !.conn = c]

LEMMA ShWithTyped ==
  ASSUME NEW q \in ShRecords, NEW at \in ShPlaces, NEW c \in Nat
  PROVE  ShWith(q, at, c) \in ShRecords /\ ShWith(q, at, c).stage = q.stage /\ ShWith(q, at, c).at = at
BY DEF ShRecords, ShWith

LEMMA ShCallTyped ==
  ASSUME ShTypes, NEW u \in ShUsers, NEW r \in ShRecords, shCall' = [shCall EXCEPT ![u] = r],
         r.at # "ended" => r.stage \in ShCommands,
         shSlot' \in [ShHosts -> [by : ShUsers \cup {NoUser}, conn : Nat]], shDials' \in Nat,
         shLive' \in SUBSET [conn : Nat, via : Nat]
  PROVE  ShTypes'
BY DEF ShTypes

(* What stays true when connections are lost and the slots are left alone.    *)
LEMMA ShFewerLive ==
  ASSUME ShPooled, ShEmptied, shSlot' = shSlot, shLive' \subseteq shLive
  PROVE  ShPooled' /\ ShEmptied'
BY DEF ShPooled, ShEmptied, ShHostOf

(* Steps of a caller who holds no mutex before and after.                     *)
LEMMA ShFreeStep ==
  ASSUME ShInv, shSlot' = shSlot, shLive' \subseteq shLive, shDials' = shDials,
         NEW u \in ShUsers, shCall[u].at \notin {"wantJump", "dialJump", "through"},
         NEW r \in ShRecords,
         shCall' = [shCall EXCEPT ![u] = r],
         r.at \notin {"wantJump", "dialJump", "through"},
         r.at # "ended" => r.stage \in ShCommands
  PROVE  ShInv'
<1>1. ShTypes'
  BY DEF ShInv, ShTypes, ShRecords
<1>2. \A v \in ShUsers : shCall'[v] = IF v = u THEN r ELSE shCall[v]
  BY DEF ShInv, ShTypes, ShRecords
<1>3. ShHolding'
  BY <1>2 DEF ShInv, ShHolding
<1> QED
  BY <1>1, <1>3, ShFewerLive DEF ShInv

LEMMA ShBeginKeeps == ASSUME ShInv, NEW u \in ShUsers, ShBegin(u) PROVE ShInv'
<1> DEFINE r == [shCall[u] EXCEPT !.at = "want"]
<1>1. /\ shCall' = [shCall EXCEPT ![u] = r] /\ shCall[u].at = "idle"
      /\ UNCHANGED <<shSlot, shLive, shDials>>
  BY DEF ShBegin, ShAt, GoTo
<1>2. /\ r \in ShRecords
      /\ r.at = "want" /\ r.stage \in ShCommands
  BY <1>1 DEF ShInv, ShTypes, ShPlaces, ShRecords
<1> HIDE DEF r
<1> QED
  BY <1>1, <1>2, ShFreeStep

(* acquire: the mutex of the node's slot.                                     *)
LEMMA ShLockNodeKeeps == ASSUME ShInv, NEW u \in ShUsers, ShLockNode(u) PROVE ShInv'
<1>1. /\ shCall[u].at = "want" /\ shSlot["node"].by = NoUser
      /\ UNCHANGED <<shLive, shDials>>
  BY DEF ShLockNode, ShAt
<1>2. CASE ConnLive(shSlot["node"].conn)
  <2> DEFINE c == shSlot["node"].conn
             r == ShWith(shCall[u], "ready", c)
  <2>1. shCall' = [shCall EXCEPT ![u] = r] /\ shSlot' = shSlot
    BY <1>2 DEF ShLockNode, ShInv, ShTypes, ShRecords, ShWith
  <2>2. /\ r \in ShRecords
        /\ r.at = "ready" /\ r.stage \in ShCommands
    <3>1. c \in Nat /\ "ready" \in ShPlaces /\ shCall[u] \in ShRecords /\ shCall[u].stage \in ShCommands
      BY <1>1 DEF ShInv, ShTypes, ShPlaces, ShHosts
    <3> HIDE DEF c
    <3> QED BY <3>1, ShWithTyped
  <2> HIDE DEF r
  <2> QED
    BY <1>1, <2>1, <2>2, ShFreeStep
<1>3. CASE ~ConnLive(shSlot["node"].conn)
  <2>1. /\ shSlot' = [shSlot EXCEPT !["node"] = [by |-> u, conn |-> 0]]
        /\ shCall' = [shCall EXCEPT ![u].at = "wantJump"]
    BY <1>3 DEF ShLockNode, GoTo
  <2>2. /\ shSlot'["node"] = [by |-> u, conn |-> 0] /\ shSlot'["jump"] = shSlot["jump"]
        /\ shCall'[u].at = "wantJump" /\ shCall'[u].stage = shCall[u].stage
        /\ \A v \in ShUsers : v # u => shCall'[v] = shCall[v]
    BY <2>1 DEF ShInv, ShTypes, ShHosts, ShRecords
  <2>3. ShTypes'
    BY <1>1, <2>1, <2>2 DEF ShInv, ShTypes, ShHosts, ShPlaces, ShRecords
  <2>4. ShHolding'
    BY <1>1, <2>2, ShAssumption DEF ShInv, ShHolding
  <2>5. ShEmptied'
    BY <2>2 DEF ShInv, ShEmptied, ShHosts
  <2>6. \A l \in shLive : l.via = 0
    BY <1>3 DEF ShInv, ShPooled, ShHostOf, ConnLive
  <2>7. ShPooled'
    BY <1>1, <2>2, <2>6 DEF ShInv, ShPooled, ShHostOf
  <2> QED BY <2>3, <2>4, <2>5, <2>7 DEF ShInv
<1> QED
  BY <1>2, <1>3

(* ... and of the bastion's, while the node's is held.                        *)
LEMMA ShLockJumpKeeps == ASSUME ShInv, NEW u \in ShUsers, ShLockJump(u) PROVE ShInv'
<1>1. /\ shCall[u].at = "wantJump" /\ shSlot["jump"].by = NoUser /\ shSlot["node"].by = u
      /\ UNCHANGED <<shLive, shDials>>
  BY DEF ShLockJump, ShAt, ShInv, ShHolding
<1>2. CASE ConnLive(shSlot["jump"].conn)
  <2>1. /\ shCall' = [shCall EXCEPT ![u].at = "through", ![u].conn = shSlot["jump"].conn]
        /\ shSlot' = shSlot
    BY <1>2 DEF ShLockJump
  <2>2. /\ shCall'[u].at = "through" /\ shCall'[u].stage = shCall[u].stage
        /\ \A v \in ShUsers : v # u => shCall'[v] = shCall[v]
    BY <2>1 DEF ShInv, ShTypes, ShRecords
  <2>3. ShTypes'
    <3> DEFINE c == shSlot["jump"].conn
               r == ShWith(shCall[u], "through", c)
    <3>1. shCall' = [shCall EXCEPT ![u] = r]
      BY <2>1 DEF ShInv, ShTypes, ShRecords, ShWith
    <3>2. r \in ShRecords /\ r.stage \in ShCommands
      <4>1. c \in Nat /\ "through" \in ShPlaces /\ shCall[u] \in ShRecords /\ shCall[u].stage \in ShCommands
        BY <1>1 DEF ShInv, ShTypes, ShPlaces, ShHosts
      <4> HIDE DEF c
      <4> QED BY <4>1, ShWithTyped
    <3> HIDE DEF r
    <3> QED BY <1>1, <2>1, <3>1, <3>2, ShCallTyped DEF ShInv, ShTypes
  <2>4. ShHolding'
    <3>1. shSlot["jump"].by # u /\ shSlot["node"].by = u
      BY <1>1 DEF ShInv, ShHolding
    <3> SUFFICES ASSUME NEW v \in ShUsers
                 PROVE  /\ (shCall'[v].at \in {"wantJump", "dialJump", "through"}) <=> (shSlot["node"].by = v)
                        /\ (shCall'[v].at = "dialJump") <=> (shSlot["jump"].by = v)
      BY <2>1 DEF ShHolding
    <3>2. CASE v = u
      BY <2>2, <3>1, <3>2
    <3>3. CASE v # u
      <4>1. shCall'[v] = shCall[v]
        BY <2>2, <3>3
      <4> QED BY <4>1 DEF ShInv, ShHolding
    <3> QED BY <3>2, <3>3
  <2>5. ShEmptied' /\ ShPooled'
    BY <1>1, <2>1, ShFewerLive DEF ShInv
  <2> QED BY <2>3, <2>4, <2>5 DEF ShInv
<1>3. CASE ~ConnLive(shSlot["jump"].conn)
  <2>1. /\ shSlot' = [shSlot EXCEPT !["jump"] = [by |-> u, conn |-> 0]]
        /\ shCall' = [shCall EXCEPT ![u].at = "dialJump"]
    BY <1>3 DEF ShLockJump, GoTo
  <2>2. /\ shSlot'["jump"] = [by |-> u, conn |-> 0] /\ shSlot'["node"] = shSlot["node"]
        /\ shCall'[u].at = "dialJump" /\ shCall'[u].stage = shCall[u].stage
        /\ \A v \in ShUsers : v # u => shCall'[v] = shCall[v]
    BY <2>1 DEF ShInv, ShTypes, ShHosts, ShRecords
  <2>3. ShTypes'
    BY <1>1, <2>1, <2>2 DEF ShInv, ShTypes, ShHosts, ShPlaces, ShRecords
  <2>4. ShHolding'
    BY <1>1, <2>2, ShAssumption DEF ShInv, ShHolding
  <2>5. ShEmptied'
    BY <2>2 DEF ShInv, ShEmptied, ShHosts
  <2>6. \A l \in shLive : l.via # 0
    BY <1>3 DEF ShInv, ShPooled, ShHostOf, ConnLive
  <2>7. ShPooled'
    BY <1>1, <2>2, <2>6 DEF ShInv, ShPooled, ShHostOf
  <2> QED BY <2>3, <2>4, <2>5, <2>7 DEF ShInv
<1> QED
  BY <1>2, <1>3

(* A dial: the slot was empty, so that no other connection of the host lives. *)
LEMMA ShDialJumpKeeps == ASSUME ShInv, NEW u \in ShUsers, ShDialJump(u) PROVE ShInv'
<1>1. /\ shCall[u].at = "dialJump" /\ shSlot["jump"].by = u /\ shSlot["node"].by = u
      /\ shSlot["jump"].conn = 0 /\ u # NoUser /\ shDials \in Nat
  BY ShAssumption DEF ShDialJump, ShAt, ShInv, ShHolding, ShEmptied, ShTypes, ShHosts
<1>2. /\ shDials' = shDials + 1 /\ shLive' = shLive \cup {[conn |-> shDials + 1, via |-> 0]}
      /\ shSlot' = [shSlot EXCEPT !["jump"] = [by |-> NoUser, conn |-> shDials + 1]]
      /\ shCall' = [shCall EXCEPT ![u].at = "through", ![u].conn = shDials + 1]
  BY DEF ShDialJump, Dialled
<1>3. /\ shSlot'["jump"] = [by |-> NoUser, conn |-> shDials + 1] /\ shSlot'["node"] = shSlot["node"]
      /\ shCall'[u].at = "through" /\ shCall'[u].stage = shCall[u].stage
      /\ \A v \in ShUsers : v # u => shCall'[v] = shCall[v]
  BY <1>2 DEF ShInv, ShTypes, ShHosts, ShRecords
<1>4. ShTypes'
  <2> DEFINE c == shDials + 1
             r == ShWith(shCall[u], "through", c)
  <2>1. shCall' = [shCall EXCEPT ![u] = r]
    BY <1>2 DEF ShInv, ShTypes, ShRecords, ShWith
  <2>2. r \in ShRecords /\ r.stage \in ShCommands
    <3>1. c \in Nat /\ "through" \in ShPlaces /\ shCall[u] \in ShRecords /\ shCall[u].stage \in ShCommands
      BY <1>1 DEF ShInv, ShTypes, ShPlaces
    <3> HIDE DEF c
    <3> QED BY <3>1, ShWithTyped
  <2> HIDE DEF r
  <2>3. shSlot' \in [ShHosts -> [by : ShUsers \cup {NoUser}, conn : Nat]]
    <3> DEFINE free == [by |-> NoUser, conn |-> shDials + 1]
    <3>1. free \in [by : ShUsers \cup {NoUser}, conn : Nat]
      BY <1>1
    <3> HIDE DEF free
    <3>2. shSlot' = [shSlot EXCEPT !["jump"] = free]
      BY <1>2 DEF free
    <3> QED BY <3>1, <3>2 DEF ShInv, ShTypes
  <2>4. shDials' \in Nat /\ [conn |-> shDials + 1, via |-> 0] \in [conn : Nat, via : Nat]
    BY <1>1, <1>2
  <2>5. shLive' \in SUBSET [conn : Nat, via : Nat]
    BY <1>2, <2>4 DEF ShInv, ShTypes
  <2> QED BY <2>1, <2>2, <2>3, <2>4, <2>5, ShCallTyped DEF ShInv
<1>5. ShHolding'
  BY <1>1, <1>3, ShAssumption DEF ShInv, ShHolding
<1>6. ShEmptied'
  BY <1>3 DEF ShInv, ShEmptied, ShHosts
<1>7. \A l \in shLive : l.via # 0
  BY <1>1 DEF ShInv, ShPooled, ShHostOf
<1>8. ShPooled'
  BY <1>1, <1>2, <1>3, <1>7 DEF ShInv, ShPooled, ShHostOf
<1> QED
  BY <1>4, <1>5, <1>6, <1>8 DEF ShInv

LEMMA ShDialNodeKeeps == ASSUME ShInv, NEW u \in ShUsers, ShDialNode(u) PROVE ShInv'
<1> DEFINE via == shCall[u].conn
<1>1. /\ shCall[u].at = "through" /\ shSlot["node"].by = u
      /\ shSlot["node"].conn = 0 /\ u # NoUser /\ shDials \in Nat
  BY ShAssumption DEF ShDialNode, ShAt, ShInv, ShHolding, ShEmptied, ShTypes, ShHosts
<1>2. via \in Nat /\ via # 0
  BY DEF ShDialNode, ConnLive, ShInv, ShPooled, ShTypes
<1>3. /\ shDials' = shDials + 1 /\ shLive' = shLive \cup {[conn |-> shDials + 1, via |-> via]}
      /\ shSlot' = [shSlot EXCEPT !["node"] = [by |-> NoUser, conn |-> shDials + 1]]
      /\ shCall' = [shCall EXCEPT ![u].at = "ready", ![u].conn = shDials + 1]
  BY DEF ShDialNode, Dialled
<1> HIDE DEF via
<1>4. /\ shSlot'["node"] = [by |-> NoUser, conn |-> shDials + 1] /\ shSlot'["jump"] = shSlot["jump"]
      /\ shCall'[u].at = "ready" /\ shCall'[u].stage = shCall[u].stage
      /\ \A v \in ShUsers : v # u => shCall'[v] = shCall[v]
  BY <1>3 DEF ShInv, ShTypes, ShHosts, ShRecords
<1>5. ShTypes'
  <2> DEFINE c == shDials + 1
             r == ShWith(shCall[u], "ready", c)
  <2>1. shCall' = [shCall EXCEPT ![u] = r]
    BY <1>3 DEF ShInv, ShTypes, ShRecords, ShWith
  <2>2. r \in ShRecords /\ r.stage \in ShCommands
    <3>1. c \in Nat /\ "ready" \in ShPlaces /\ shCall[u] \in ShRecords /\ shCall[u].stage \in ShCommands
      BY <1>1 DEF ShInv, ShTypes, ShPlaces
    <3> HIDE DEF c
    <3> QED BY <3>1, ShWithTyped
  <2> HIDE DEF r
  <2>3. shSlot' \in [ShHosts -> [by : ShUsers \cup {NoUser}, conn : Nat]]
    <3> DEFINE free == [by |-> NoUser, conn |-> shDials + 1]
    <3>1. free \in [by : ShUsers \cup {NoUser}, conn : Nat]
      BY <1>1
    <3> HIDE DEF free
    <3>2. shSlot' = [shSlot EXCEPT !["node"] = free]
      BY <1>2, <1>3 DEF free
    <3> QED BY <3>1, <3>2 DEF ShInv, ShTypes
  <2>4. shDials' \in Nat /\ [conn |-> shDials + 1, via |-> via] \in [conn : Nat, via : Nat]
    BY <1>1, <1>2, <1>3
  <2>5. shLive' \in SUBSET [conn : Nat, via : Nat]
    BY <1>2, <1>3, <2>4 DEF ShInv, ShTypes
  <2> QED BY <2>1, <2>2, <2>3, <2>4, <2>5, ShCallTyped DEF ShInv
<1>6. ShHolding'
  BY <1>1, <1>4, ShAssumption DEF ShInv, ShHolding
<1>7. ShEmptied'
  BY <1>4 DEF ShInv, ShEmptied, ShHosts
<1>8. \A l \in shLive : l.via = 0
  BY <1>1 DEF ShInv, ShPooled, ShHostOf
<1>9. ShPooled'
  BY <1>1, <1>2, <1>3, <1>4, <1>8 DEF ShInv, ShPooled, ShHostOf
<1> QED
  BY <1>5, <1>6, <1>7, <1>9 DEF ShInv

(* A failed dial gives every mutex back, with empty slots.                    *)
LEMMA ShDialFailsKeeps == ASSUME ShInv, NEW u \in ShUsers, ShDialFails(u) PROVE ShInv'
<1>1. /\ shCall[u].at \in {"dialJump", "through"} /\ u # NoUser
      /\ shSlot' = [h \in ShHosts |-> IF shSlot[h].by = u THEN [by |-> NoUser, conn |-> 0] ELSE shSlot[h]]
      /\ shCall' = [shCall EXCEPT ![u].at = "ended", ![u].stage = "failed"]
      /\ UNCHANGED <<shDials, shLive>>
  BY ShAssumption DEF ShDialFails, ShAt, FailCall
<1>2. /\ \A h \in ShHosts : shSlot'[h].conn = shSlot[h].conn /\ shSlot'[h].by # u
      /\ \A h \in ShHosts : shSlot'[h].by # NoUser => shSlot'[h] = shSlot[h]
      /\ \A h \in ShHosts : shSlot[h].by # u => shSlot'[h] = shSlot[h]
  BY <1>1 DEF ShInv, ShEmptied, ShTypes
<1>3. /\ shCall'[u].at = "ended"
      /\ \A v \in ShUsers : v # u => shCall'[v] = shCall[v]
  BY <1>1 DEF ShInv, ShTypes, ShRecords
<1>4. ShTypes'
  <2> DEFINE r == [shCall[u] EXCEPT !.at = "ended", !.stage = "failed"]
  <2>1. shCall' = [shCall EXCEPT ![u] = r]
    BY <1>1 DEF ShInv, ShTypes, ShRecords
  <2>2. r \in ShRecords /\ r.at = "ended"
    BY <1>1 DEF ShInv, ShTypes, ShPlaces, ShRecords
  <2> HIDE DEF r
  <2>3. shSlot' \in [ShHosts -> [by : ShUsers \cup {NoUser}, conn : Nat]]
    BY <1>1 DEF ShInv, ShTypes
  <2> QED BY <1>1, <2>1, <2>2, <2>3, ShCallTyped DEF ShInv, ShTypes
<1>5. ShHolding'
  <2> SUFFICES ASSUME NEW v \in ShUsers
               PROVE  /\ (shCall'[v].at \in {"wantJump", "dialJump", "through"}) <=> (shSlot'["node"].by = v)
                      /\ (shCall'[v].at = "dialJump") <=> (shSlot'["jump"].by = v)
    BY DEF ShHolding
  <2>1. CASE v = u
    BY <1>2, <1>3, <2>1 DEF ShHosts
  <2>2. CASE v # u
    <3>1. \A h \in ShHosts : shSlot'[h].by = v <=> shSlot[h].by = v
      BY <1>2, <2>2, ShAssumption
    <3> QED BY <1>3, <2>2, <3>1 DEF ShInv, ShHolding, ShHosts
  <2> QED BY <2>1, <2>2
<1>6. ShEmptied' /\ ShPooled'
  BY <1>1, <1>2 DEF ShInv, ShEmptied, ShPooled, ShHostOf, ShHosts
<1> QED
  BY <1>4, <1>5, <1>6 DEF ShInv

(* Commands: the table of stages leads from commands to commands or an end.   *)
LEMMA ShStages ==
  ASSUME NEW u, shCall[u].stage \in ShCommands, NEW ok
  PROVE  NextStage(u, ok) \in ShCommands \cup {"done", "failed"}
BY DEF NextStage, ShCommands

LEMMA ShExecKeeps == ASSUME ShInv, shNode \in ShNodes, NEW u \in ShUsers, ShExec(u) PROVE ShInv'
<1>1. /\ shCall[u].at = "ready" /\ shCall[u].stage \in ShCommands
      /\ UNCHANGED <<shSlot, shDials>>
  BY DEF ShExec, ShAt, ShInv, ShTypes
<1>2. shLive' \subseteq shLive
  BY DEF ShExec
<1>3. CASE FailCall(u)
  <2> DEFINE r == [shCall[u] EXCEPT !.at = "ended", !.stage = "failed"]
  <2>1. shCall' = [shCall EXCEPT ![u] = r]
    BY <1>3 DEF FailCall, ShInv, ShTypes, ShRecords
  <2>2. r \in ShRecords /\ r.at = "ended"
    BY DEF ShInv, ShTypes, ShPlaces, ShRecords
  <2> HIDE DEF r
  <2> QED BY <1>1, <1>2, <2>1, <2>2, ShFreeStep
<1>4. ASSUME NEW ok, Advance(u, ok) PROVE ShInv'
  <2> DEFINE next == NextStage(u, ok)
             saw == IF shCall[u].stage \in {"discover", "poll", "again"} THEN shNode.runtime
                    ELSE shCall[u].saw
             r == [stage |-> next, conn |-> 0, owner |-> Owner(u, next), saw |-> saw,
                   at |-> IF next \in {"done", "failed"} THEN "ended" ELSE "want"]
  <2>1. shCall' = [shCall EXCEPT ![u] = r]
    BY <1>4 DEF Advance
  <2>2. next \in ShCommands \cup {"done", "failed"}
    BY <1>1, ShStages
  <2> HIDE DEF next
  <2>3. Owner(u, next) \in ShOwners
    BY DEF Owner, ShOwners
  <2>4. saw \in ShDaemons
    BY DEF ShNodes, ShInv, ShTypes, ShRecords
  <2> HIDE DEF saw
  <2>5. r \in ShRecords /\ r.at \in {"ended", "want"} /\ (r.at # "ended" => r.stage \in ShCommands)
    BY <2>2, <2>3, <2>4 DEF ShPlaces, ShRecords
  <2> HIDE DEF r
  <2> QED BY <1>1, <1>2, <2>1, <2>5, ShFreeStep
<1>5. \/ FailCall(u)
      \/ \E ok : Advance(u, ok)
  BY DEF ShExec
<1> QED
  BY <1>3, <1>4, <1>5

LEMMA ShOpenFailsKeeps == ASSUME ShInv, NEW u \in ShUsers, ShOpenFails(u) PROVE ShInv'
<1> DEFINE r == [shCall[u] EXCEPT !.at = "ended", !.stage = "failed"]
<1>1. /\ shCall' = [shCall EXCEPT ![u] = r] /\ shCall[u].at = "ready"
      /\ UNCHANGED <<shSlot, shLive, shDials>>
  BY DEF ShOpenFails, ShAt, FailCall, ShInv, ShTypes, ShRecords
<1>2. /\ r \in ShRecords
      /\ r.at = "ended"
  BY DEF ShInv, ShTypes, ShPlaces, ShRecords
<1> HIDE DEF r
<1> QED
  BY <1>1, <1>2, ShFreeStep

LEMMA ShStepKeeps == ShInv /\ shNode \in ShNodes /\ [ShNext]_shVars => ShInv'
<1> SUFFICES ASSUME ShInv, shNode \in ShNodes, [ShNext]_shVars PROVE ShInv'
  OBVIOUS
<1>1. CASE /\ UNCHANGED <<shSlot, shDials, shCall>>
           /\ shLive' \subseteq shLive
  <2>1. ShTypes' /\ ShHolding'
    BY <1>1 DEF ShInv, ShTypes, ShHolding
  <2> QED BY <1>1, <2>1, ShFewerLive DEF ShInv
<1>2. CASE ShLose
  BY <1>1, <1>2 DEF ShLose
<1>3. ASSUME NEW u \in ShUsers, ShBegin(u) \/ ShUserStep(u) PROVE ShInv'
  BY <1>3, ShBeginKeeps, ShLockNodeKeeps, ShLockJumpKeeps, ShDialJumpKeeps, ShDialNodeKeeps,
     ShDialFailsKeeps, ShExecKeeps, ShOpenFailsKeeps DEF ShUserStep
<1>4. CASE \/ \E u \in ShUsers : ShDaemonReady(u)
           \/ \E d \in ShUsers \cup {Older} : ShDaemonDies(d)
  BY <1>1, <1>4 DEF ShDaemonReady, ShDaemonDies
<1>5. CASE UNCHANGED shVars
  BY <1>1, <1>5 DEF shVars
<1> QED
  BY <1>2, <1>3, <1>4, <1>5 DEF ShNext

-----------------------------------------------------------------------------
(* The installation                                                           *)

ShInstalled == {"discover", "alive", "launch", "poll", "again", "done"}

(* Why it is so: who is about to move its upload into place has had its hash  *)
(* verified, and nobody else writes that temporary file.                      *)
ShVerified ==
  /\ shLost \in Nat /\ shNode \in ShNodes
  /\ shLost = 0 =>
       /\ shNode.binary # "bad"
       /\ \A u \in ShUsers :
            /\ shCall[u].stage \in ShInstalled => shNode.binary = "good"
            /\ shCall[u].stage = "move" => shNode.temps[u] = "good"

(* What a command changes and answers.                                        *)
LEMMA ShCommandDoes ==
  ASSUME NEW u \in ShUsers, shNode \in ShNodes, shCall[u].stage \in ShCommands, NEW c \in Command(u)
  PROVE  /\ c.node \in ShNodes
         /\ \A v \in ShUsers : v # u => c.node.temps[v] = shNode.temps[v]
         /\ IF shCall[u].stage = "move" THEN c.node.binary = shNode.temps[u]
            ELSE c.node.binary = shNode.binary
         /\ shCall[u].stage = "check" => (c.ok <=> shNode.binary = "good")
         /\ shCall[u].stage = "prepare" =>
              /\ c.ok <=> shNode.temps[u] = "good"
              /\ c.node = shNode
<1> DEFINE keep(ok) == [ok |-> ok, node |-> shNode]
<1>1. CASE shCall[u].stage = "upload"
  <2>1. PICK b \in {"good", "bad"} : c = [ok |-> TRUE, node |-> [shNode EXCEPT !.temps[u] = b]]
    BY <1>1 DEF Command
  <2>2. c.node = [shNode EXCEPT !.temps[u] = b]
    BY <2>1
  <2>3. /\ c.node \in ShNodes /\ c.node.binary = shNode.binary
        /\ \A v \in ShUsers : v # u => c.node.temps[v] = shNode.temps[v]
    BY <2>2 DEF ShNodes
  <2> QED
    BY <1>1, <2>3
<1>2. CASE shCall[u].stage = "move"
  <2>1. c = [ok |-> TRUE, node |-> [shNode EXCEPT !.binary = shNode.temps[u], !.temps[u] = "none"]]
    BY <1>2 DEF Command
  <2>2. c.node = [shNode EXCEPT !.binary = shNode.temps[u], !.temps[u] = "none"]
    BY <2>1
  <2>3. /\ c.node \in ShNodes /\ c.node.binary = shNode.temps[u]
        /\ \A v \in ShUsers : v # u => c.node.temps[v] = shNode.temps[v]
    <3> DEFINE b == shNode.temps[u]
               t == [shNode.temps EXCEPT ![u] = "none"]
    <3>1. c.node = [shNode EXCEPT !.binary = b, !.temps = t]
      BY <2>2 DEF ShNodes
    <3>2. b \in {"none", "good", "bad"} /\ t \in [ShUsers -> {"none", "good", "bad"}]
      BY DEF ShNodes
    <3>3. \A v \in ShUsers : v # u => t[v] = shNode.temps[v]
      BY DEF ShNodes
    <3> HIDE DEF b, t
    <3>4. c.node \in ShNodes /\ c.node.binary = b /\ c.node.temps = t
      BY <3>1, <3>2 DEF ShNodes
    <3> QED
      BY <3>3, <3>4 DEF b
  <2> QED
    BY <1>2, <2>3
<1>3. CASE shCall[u].stage = "launch"
  <2>1. c = [ok |-> TRUE, node |-> [shNode EXCEPT !.daemons = shNode.daemons \cup {u}]]
    BY <1>3 DEF Command
  <2> DEFINE d == shNode.daemons \cup {u}
  <2>2. c.node = [shNode EXCEPT !.daemons = d]
    BY <2>1
  <2>3. d \in SUBSET ShDaemons
    BY DEF ShNodes, ShDaemons
  <2> HIDE DEF d
  <2>4. c.node \in ShNodes /\ c.node.binary = shNode.binary /\ c.node.temps = shNode.temps
    BY <2>2, <2>3 DEF ShNodes
  <2> QED
    BY <1>3, <2>4
<1>4. CASE shCall[u].stage = "check"
  <2>1. c = keep(shNode.binary = "good")
    BY <1>4 DEF Command
  <2> QED
    BY <1>4, <2>1
<1>5. CASE shCall[u].stage = "prepare"
  <2>1. c = keep(shNode.temps[u] = "good")
    BY <1>5 DEF Command
  <2> QED
    BY <1>5, <2>1
<1>6. CASE shCall[u].stage \in {"detect", "mkdir", "discover", "alive", "poll", "again"}
  <2>1. c.node = shNode
    BY <1>6 DEF Command
  <2> QED
    BY <1>6, <2>1
<1>7. CASE shCall[u].stage = "clean"
  <2>1. c = [ok |-> TRUE, node |-> [shNode EXCEPT !.temps[u] = "none"]]
    BY <1>7 DEF Command
  <2>2. c.node = [shNode EXCEPT !.temps[u] = "none"]
    BY <2>1
  <2>3. /\ c.node \in ShNodes /\ c.node.binary = shNode.binary
        /\ \A v \in ShUsers : v # u => c.node.temps[v] = shNode.temps[v]
    BY <2>2 DEF ShNodes
  <2> QED
    BY <1>7, <2>3
<1> QED
  BY <1>1, <1>2, <1>3, <1>4, <1>5, <1>6, <1>7 DEF ShCommands

(* From where a caller gets to the move, and to the daemon.                   *)
LEMMA ShNextStages ==
  ASSUME NEW u, shCall[u].stage \in ShCommands, NEW ok
  PROVE  /\ NextStage(u, ok) = "move" => shCall[u].stage = "prepare" /\ ok
         /\ NextStage(u, ok) \in ShInstalled =>
              \/ shCall[u].stage = "check" /\ ok
              \/ shCall[u].stage = "move"
              \/ shCall[u].stage \in ShInstalled
BY DEF NextStage, ShCommands, ShInstalled

(* Steps after which no caller is further than before.                        *)
LEMMA ShNoStage ==
  ASSUME ShVerified, shLost' \in {shLost, shLost + 1}, shNode' \in ShNodes,
         shNode'.binary = shNode.binary, shNode'.temps = shNode.temps,
         \A v \in ShUsers : shCall'[v].stage \in {shCall[v].stage, "failed"}
  PROVE  ShVerified'
<1>1. shLost' \in Nat /\ (shLost' = 0 => shLost = 0)
  BY DEF ShVerified
<1> QED
  BY <1>1 DEF ShVerified, ShInstalled

LEMMA ShExecVerified == ASSUME ShInv, ShVerified, NEW u \in ShUsers, ShExec(u) PROVE ShVerified'
<1>1. PICK c \in Command(u) :
        \/ Advance(u, c.ok) /\ shNode' = c.node /\ UNCHANGED shLost
        \/ shLost' = shLost + 1 /\ shNode' \in {shNode, c.node}
  BY DEF ShExec
<1>2. /\ shCall[u].stage \in ShCommands /\ shLost \in Nat /\ shNode \in ShNodes
      /\ shCall \in [ShUsers -> ShRecords]
  BY DEF ShExec, ShAt, ShInv, ShTypes, ShVerified
<1>3. /\ c.node \in ShNodes
      /\ \A v \in ShUsers : v # u => c.node.temps[v] = shNode.temps[v]
      /\ shCall[u].stage = "move" => c.node.binary = shNode.temps[u]
      /\ shCall[u].stage # "move" => c.node.binary = shNode.binary
      /\ shCall[u].stage = "check" => (c.ok <=> shNode.binary = "good")
      /\ shCall[u].stage = "prepare" => (c.ok <=> shNode.temps[u] = "good") /\ c.node = shNode
  BY <1>2, ShCommandDoes
<1>4. CASE Advance(u, c.ok) /\ shNode' = c.node /\ UNCHANGED shLost
  <2> DEFINE next == NextStage(u, c.ok)
  <2>1. shCall'[u].stage = next /\ \A v \in ShUsers : v # u => shCall'[v] = shCall[v]
    BY <1>2, <1>4 DEF Advance
  <2>2. /\ next = "move" => shCall[u].stage = "prepare" /\ c.ok
        /\ next \in ShInstalled => \/ shCall[u].stage = "check" /\ c.ok
                                   \/ shCall[u].stage = "move"
                                   \/ shCall[u].stage \in ShInstalled
    BY <1>2, ShNextStages
  <2> HIDE DEF next
  <2>3. ASSUME shLost = 0
        PROVE  /\ shNode'.binary # "bad"
               /\ \A v \in ShUsers :
                    /\ shCall'[v].stage \in ShInstalled => shNode'.binary = "good"
                    /\ shCall'[v].stage = "move" => shNode'.temps[v] = "good"
    <3>1. shCall[u].stage = "move" => shNode'.binary = "good"
      BY <1>3, <1>4, <2>3 DEF ShVerified
    <3>2. shNode'.binary = "good" \/ shNode'.binary = shNode.binary
      BY <1>3, <1>4, <3>1
    <3>3. shNode.binary = "good" => shNode'.binary = "good"
      BY <3>2
    <3>4. shNode'.binary # "bad"
      BY <2>3, <3>2 DEF ShVerified
    <3>5. ASSUME NEW v \in ShUsers
          PROVE  /\ shCall'[v].stage \in ShInstalled => shNode'.binary = "good"
                 /\ shCall'[v].stage = "move" => shNode'.temps[v] = "good"
      <4>1. CASE v # u
        BY <1>3, <1>4, <2>1, <2>3, <3>3, <4>1 DEF ShVerified
      <4>2. CASE v = u
        <5>1. next \in ShInstalled => shNode'.binary = "good"
          BY <1>3, <1>4, <2>2, <2>3, <3>1, <3>3 DEF ShVerified
        <5>2. next = "move" => shNode'.temps[u] = "good"
          BY <1>3, <1>4, <2>2
        <5> QED
          BY <2>1, <4>2, <5>1, <5>2
      <4> QED
        BY <4>1, <4>2
    <3> QED
      BY <3>4, <3>5
  <2> QED
    BY <1>2, <1>3, <1>4, <2>3 DEF ShVerified
<1>5. CASE shLost' = shLost + 1 /\ shNode' \in {shNode, c.node}
  <2>1. shLost' \in Nat /\ shLost' # 0 /\ shNode' \in ShNodes
    BY <1>2, <1>3, <1>5
  <2> QED
    BY <2>1 DEF ShVerified
<1> QED
  BY <1>1, <1>4, <1>5

LEMMA ShStepVerified == ShInv /\ ShVerified /\ [ShNext]_shVars => ShVerified'
<1> SUFFICES ASSUME ShInv, ShVerified, [ShNext]_shVars PROVE ShVerified'
  OBVIOUS
<1>1. shNode \in ShNodes /\ shLost \in Nat /\ shCall \in [ShUsers -> ShRecords]
  BY DEF ShVerified, ShInv, ShTypes
<1>2. ASSUME shNode' = shNode, shLost' \in {shLost, shLost + 1},
             \A v \in ShUsers : shCall'[v].stage \in {shCall[v].stage, "failed"}
      PROVE  ShVerified'
  BY <1>1, <1>2, ShNoStage
<1>3. CASE ShLose
  BY <1>2, <1>3 DEF ShLose
<1>4. ASSUME NEW u \in ShUsers, \/ ShBegin(u) \/ ShLockNode(u) \/ ShLockJump(u) \/ ShDialJump(u)
                                \/ ShDialNode(u) \/ ShDialFails(u) \/ ShOpenFails(u)
      PROVE  ShVerified'
  <2>1. shNode' = shNode /\ shLost' \in {shLost, shLost + 1}
    BY <1>4 DEF ShBegin, ShLockNode, ShLockJump, ShDialJump, ShDialNode, ShDialFails, ShOpenFails
  <2>2. \/ \E at : shCall' = [shCall EXCEPT ![u].at = at]
        \/ \E at, c : shCall' = [shCall EXCEPT ![u].at = at, ![u].conn = c]
        \/ shCall' = [shCall EXCEPT ![u].at = "ended", ![u].stage = "failed"]
    BY <1>4 DEF ShBegin, ShLockNode, ShLockJump, ShDialJump, ShDialNode, ShDialFails, ShOpenFails,
                GoTo, FailCall
  <2>3. \A v \in ShUsers : shCall'[v].stage \in {shCall[v].stage, "failed"}
    <3>1. ASSUME NEW at, shCall' = [shCall EXCEPT ![u].at = at]
          PROVE  \A v \in ShUsers : shCall'[v].stage = shCall[v].stage
      BY <1>1, <3>1 DEF ShRecords
    <3>2. ASSUME NEW at, NEW c, shCall' = [shCall EXCEPT ![u].at = at, ![u].conn = c]
          PROVE  \A v \in ShUsers : shCall'[v].stage = shCall[v].stage
      BY <1>1, <3>2 DEF ShRecords
    <3>3. ASSUME shCall' = [shCall EXCEPT ![u].at = "ended", ![u].stage = "failed"]
          PROVE  \A v \in ShUsers : shCall'[v].stage \in {shCall[v].stage, "failed"}
      BY <1>1, <3>3 DEF ShRecords
    <3> QED
      BY <2>2, <3>1, <3>2, <3>3
  <2> QED
    BY <1>2, <2>1, <2>3
<1>5. ASSUME NEW u \in ShUsers, ShExec(u) PROVE ShVerified'
  BY <1>5, ShExecVerified
<1>6. ASSUME \/ \E u \in ShUsers : ShDaemonReady(u)
             \/ \E d \in ShUsers \cup {Older} : ShDaemonDies(d)
      PROVE  ShVerified'
  <2>1. /\ shNode' \in ShNodes /\ shNode'.binary = shNode.binary /\ shNode'.temps = shNode.temps
        /\ shLost' \in {shLost, shLost + 1} /\ shCall' = shCall
    BY <1>1, <1>6 DEF ShDaemonReady, ShDaemonDies, ShNodes, ShDaemons
  <2> QED
    BY <2>1, ShNoStage
<1>7. CASE UNCHANGED shVars
  BY <1>2, <1>7 DEF shVars
<1> QED
  BY <1>3, <1>4, <1>5, <1>6, <1>7 DEF ShNext, ShUserStep

(* What holds of every state.                                                 *)
LEMMA ShHolds == ShSpec => [](ShInv /\ ShVerified)
<1>1. ShInit => ShVerified
  BY DEF ShInit, ShVerified, ShNodes, ShInstalled, ShDaemons
<1>2. ShVerified => shNode \in ShNodes
  BY DEF ShVerified
<1> QED
  BY <1>1, <1>2, ShStarts, ShStepKeeps, ShStepVerified, PTL DEF ShSpec

(* Callers that need a host at once share one connection to it: whatever is   *)
(* lost, refused or dialled again, SshConnectionPool::acquire never leaves a  *)
(* second live connection beside the pooled one.                              *)
THEOREM ShOneConnectionHolds == ShSpec => []ShOneConnection
<1>1. ShInv => ShOneConnection
  BY DEF ShInv, ShPooled, ShHostOf, ShOneConnection, ShHosts
<1> QED
  BY <1>1, ShHolds, PTL

(* However many installations of the server interleave on a node, each step   *)
(* of each at any moment: as long as no connection was lost, what is at the   *)
(* install path has the manifest's hash, and is there for every caller that   *)
(* goes on to look for the daemon.                                            *)
THEOREM ShInstallsVerified == ShSpec => []ShInstalledIsVerified
<1>1. ShVerified => ShInstalledIsVerified
  BY DEF ShVerified, ShInstalledIsVerified, ShInstalled
<1> QED
  BY <1>1, ShHolds, PTL
=============================================================================
