--------------------------- MODULE Desktop_proofs ---------------------------
(* The desktop's window, for every number of threads, items and calls: what   *)
(* it shows of the selected thread, the position in the transcript, and the   *)
(* draft of the next message.                                                 *)
EXTENDS DesktopApp, Timeline, Composer, SequenceLemmas

-----------------------------------------------------------------------------
(* The window.  The calls under way and what they are about are followed as   *)
(* DtShowsActive says; nothing is asked of a thread that is none, and only    *)
(* threads of the window have tabs.                                           *)
DtCallRecs ==
  [kind : {"create", "tell", "action", "status", "list", "read"}, thread : DtThreads \cup {Nobody},
   path : {NoFilePath} \cup ((DtThreads \cup {Nobody}) \X DtPaths)]
DtUnderOf(calls, kind) == {n \in DOMAIN calls : calls[n].kind = kind}
DtNewestOf(calls, kind) == {n \in DtUnderOf(calls, kind) : \A m \in DtUnderOf(calls, kind) : m <= n}

DtRight(calls, active, git, files, file, missed) ==
  /\ \A n \in DOMAIN calls : calls[n].kind \in {"status", "list"} => calls[n].thread # Nobody
  /\ \A kind \in {"status", "list"} :
       /\ \A n \in DtNewestOf(calls, kind) : calls[n].thread = active
       /\ DtUnderOf(calls, kind) = {} =>
            (IF kind = "status" THEN git ELSE files) \in {Nobody, active} \/ kind \in missed
  /\ \A n \in DtNewestOf(calls, "read") : calls[n].path = file.path
  /\ DtUnderOf(calls, "read") = {} => file.shows = file.path \/ "read" \in missed

DtTypes ==
  /\ dtRail \in DtRails /\ dtOrder \in Seq(DtThreads)
  /\ dtActive \in ToSet(dtOrder) \cup {Nobody}
  /\ dtCalls \in Seq(DtCallRecs)
  /\ dtPanel = [open |-> dtPanel.open, tab |-> dtPanel.tab, tabs |-> dtPanel.tabs,
                term |-> dtPanel.term, terms |-> dtPanel.terms]
  /\ DOMAIN dtPanel.tabs \subseteq ToSet(dtOrder)
  /\ dtFile = [path |-> dtFile.path, shows |-> dtFile.shows]
DtTabKept == dtActive \in DOMAIN dtPanel.tabs => dtPanel.tab = dtPanel.tabs[dtActive]
DtInv == DtTypes /\ DtTabKept /\ DtRight(dtCalls, dtActive, dtGit, dtFiles, dtFile, dtMissed)

(* The queue without its first call.                                          *)
LEMMA DtTail ==
  ASSUME NEW calls \in Seq(DtCallRecs), calls # << >>, NEW kind
  PROVE  LET rest == Tail(calls)
         IN /\ rest \in Seq(DtCallRecs) /\ Head(calls) = calls[1]
            /\ \A n \in DOMAIN rest : n + 1 \in DOMAIN calls /\ rest[n] = calls[n + 1]
            /\ \A n \in DtNewestOf(rest, kind) : n + 1 \in DtNewestOf(calls, kind) /\ rest[n] = calls[n + 1]
            /\ DtUnderOf(rest, kind) = {} =>
                 IF calls[1].kind = kind THEN 1 \in DtNewestOf(calls, kind) ELSE DtUnderOf(calls, kind) = {}
<1> DEFINE rest == Tail(calls)
<1>1. /\ Len(calls) \in Nat /\ Len(calls) >= 1 /\ DOMAIN calls = 1..Len(calls)
      /\ rest \in Seq(DtCallRecs) /\ Len(rest) = Len(calls) - 1 /\ DOMAIN rest = 1..(Len(calls) - 1)
      /\ \A n \in 1..(Len(calls) - 1) : rest[n] = calls[n + 1]
      /\ Head(calls) = calls[1]
  BY HeadTailProperties, LenProperties, EmptySeq
<1> HIDE DEF rest
<1>2. \A n \in DOMAIN rest : n \in Int /\ n + 1 \in DOMAIN calls /\ rest[n] = calls[n + 1]
  BY <1>1
<1>3. \A m \in DOMAIN calls : m = 1 \/ (m \in Int /\ m - 1 \in DOMAIN rest /\ rest[m - 1] = calls[m])
  BY <1>1
<1>4. ASSUME NEW n \in DtNewestOf(rest, kind) PROVE n + 1 \in DtNewestOf(calls, kind)
  <2>1. n \in DOMAIN rest /\ rest[n].kind = kind /\ n \in Int /\ n >= 1
    BY <1>1, <1>4 DEF DtNewestOf, DtUnderOf
  <2>2. \A m \in DOMAIN rest : rest[m].kind = kind => m <= n
    BY <1>4 DEF DtNewestOf, DtUnderOf
  <2>3. n + 1 \in DtUnderOf(calls, kind)
    BY <1>2, <2>1 DEF DtUnderOf
  <2>4. ASSUME NEW m \in DtUnderOf(calls, kind) PROVE m <= n + 1
    <3>1. m \in DOMAIN calls /\ calls[m].kind = kind /\ m \in Int
      BY <1>1 DEF DtUnderOf
    <3>2. m = 1 \/ (m - 1 \in DOMAIN rest /\ rest[m - 1].kind = kind)
      BY <1>3, <3>1
    <3>3. m = 1 \/ m - 1 <= n
      BY <2>2, <3>2
    <3> QED
      BY <2>1, <3>1, <3>3
  <2> QED
    BY <2>3, <2>4 DEF DtNewestOf
<1>5. ASSUME DtUnderOf(rest, kind) = {}
      PROVE  IF calls[1].kind = kind THEN 1 \in DtNewestOf(calls, kind) ELSE DtUnderOf(calls, kind) = {}
  <2>1. \A m \in DtUnderOf(calls, kind) : m = 1
    BY <1>3, <1>5 DEF DtUnderOf
  <2> QED
    BY <1>1, <2>1 DEF DtNewestOf, DtUnderOf
<1>6. \A n \in DtNewestOf(rest, kind) : n \in DOMAIN rest
  BY DEF DtNewestOf, DtUnderOf
<1> QED
  BY <1>1, <1>2, <1>4, <1>5, <1>6 DEF rest

(* The queue with more calls.                                                 *)
LEMMA DtMore ==
  ASSUME NEW calls \in Seq(DtCallRecs), NEW more \in Seq(DtCallRecs)
  PROVE  LET all == calls \o more
         IN /\ all \in Seq(DtCallRecs) /\ Len(calls) \in Nat
            /\ \A n \in DOMAIN calls : n \in DOMAIN all /\ all[n] = calls[n] /\ n \in Int /\ n <= Len(calls)
            /\ \A m \in DOMAIN more :
                 /\ m \in Int /\ m >= 1
                 /\ m + Len(calls) \in DOMAIN all /\ all[m + Len(calls)] = more[m]
            /\ \A n \in DOMAIN all :
                 \/ n \in DOMAIN calls /\ all[n] = calls[n]
                 \/ n - Len(calls) \in DOMAIN more /\ all[n] = more[n - Len(calls)]
<1> DEFINE all == calls \o more
           L == Len(calls)
<1>1. /\ L \in Nat /\ Len(more) \in Nat
      /\ DOMAIN calls = 1..L /\ DOMAIN more = 1..Len(more) /\ all \in Seq(DtCallRecs)
      /\ DOMAIN all = 1..(L + Len(more))
      /\ \A n \in 1..(L + Len(more)) : all[n] = IF n <= L THEN calls[n] ELSE more[n - L]
  BY ConcatProperties, LenProperties
<1> HIDE DEF all, L
<1>2. \A n \in DOMAIN calls : n \in DOMAIN all /\ all[n] = calls[n] /\ n \in Int /\ n <= L
  BY <1>1
<1>3. \A m \in DOMAIN more : m \in Int /\ m >= 1 /\ m + L \in DOMAIN all /\ all[m + L] = more[m]
  BY <1>1
<1>4. \A n \in DOMAIN all : \/ n \in DOMAIN calls /\ all[n] = calls[n]
                            \/ n - L \in DOMAIN more /\ all[n] = more[n - L]
  BY <1>1
<1> QED
  BY <1>1, <1>2, <1>3, <1>4 DEF all, L

LEMMA DtMoreOfOthers ==
  ASSUME NEW calls \in Seq(DtCallRecs), NEW more \in Seq(DtCallRecs), NEW kind, DtUnderOf(more, kind) = {}
  PROVE  LET all == calls \o more
         IN /\ DtUnderOf(all, kind) = DtUnderOf(calls, kind)
            /\ \A n \in DtNewestOf(all, kind) : n \in DtNewestOf(calls, kind) /\ all[n] = calls[n]
<1> DEFINE all == calls \o more
<1>1. /\ \A n \in DOMAIN calls : n \in DOMAIN all /\ all[n] = calls[n]
      /\ \A n \in DOMAIN all : \/ n \in DOMAIN calls /\ all[n] = calls[n]
                               \/ n - Len(calls) \in DOMAIN more /\ all[n] = more[n - Len(calls)]
  BY DtMore
<1> HIDE DEF all
<1>2. DtUnderOf(all, kind) = DtUnderOf(calls, kind)
  BY <1>1 DEF DtUnderOf
<1>3. \A n \in DtNewestOf(all, kind) : n \in DtNewestOf(calls, kind) /\ all[n] = calls[n]
  BY <1>1, <1>2 DEF DtNewestOf, DtUnderOf
<1> QED
  BY <1>2, <1>3 DEF all

LEMMA DtMoreOfKind ==
  ASSUME NEW calls \in Seq(DtCallRecs), NEW more \in Seq(DtCallRecs), NEW kind, DtUnderOf(more, kind) # {}
  PROVE  LET all == calls \o more
         IN /\ DtUnderOf(all, kind) # {}
            /\ \A n \in DtNewestOf(all, kind) : \E m \in DtUnderOf(more, kind) : all[n] = more[m]
<1> DEFINE all == calls \o more
           L == Len(calls)
<1>1. /\ L \in Nat
      /\ \A n \in DOMAIN calls : n \in Int /\ n <= L
      /\ \A m \in DOMAIN more : m \in Int /\ m >= 1 /\ m + L \in DOMAIN all /\ all[m + L] = more[m]
      /\ \A n \in DOMAIN all : n \in DOMAIN calls \/ (n - L \in DOMAIN more /\ all[n] = more[n - L])
  BY DtMore
<1> HIDE DEF all, L
<1>2. PICK m \in DOMAIN more : more[m].kind = kind
  BY DEF DtUnderOf
<1>3. m + L \in DtUnderOf(all, kind)
  BY <1>1, <1>2 DEF DtUnderOf
<1>4. ASSUME NEW n \in DtNewestOf(all, kind) PROVE \E k \in DtUnderOf(more, kind) : all[n] = more[k]
  <2>1. n \in DOMAIN all /\ all[n].kind = kind /\ m + L <= n
    BY <1>3 DEF DtNewestOf, DtUnderOf
  <2>2. n \notin DOMAIN calls
    BY <1>1, <1>2, <2>1
  <2>3. n - L \in DOMAIN more /\ all[n] = more[n - L]
    BY <1>1, <2>1, <2>2
  <2> QED
    BY <2>1, <2>3 DEF DtUnderOf
<1> QED
  BY <1>3, <1>4 DEF all

(* Calls are made: about the thread that is active from then on, and the file *)
(* selected then.                                                             *)
LEMMA DtSent ==
  ASSUME NEW calls \in Seq(DtCallRecs), NEW more \in Seq(DtCallRecs),
         NEW old, NEW active, NEW git, NEW files, NEW was, NEW file, NEW missed,
         DtRight(calls, old, git, files, was, missed),
         \A m \in DOMAIN more :
           /\ more[m].kind \in {"status", "list"} => more[m].thread = active /\ active # Nobody
           /\ more[m].kind = "read" => more[m].path = file.path,
         active = old \/ (DtUnderOf(more, "status") # {} /\ DtUnderOf(more, "list") # {}),
         file = was \/ DtUnderOf(more, "read") # {}
  PROVE  DtRight(calls \o more, active, git, files, file, missed)
<1> DEFINE all == calls \o more
<1>1. \A n \in DOMAIN all : all[n].kind \in {"status", "list"} => all[n].thread # Nobody
  BY DtMore DEF DtRight
<1>2. ASSUME NEW kind \in {"status", "list"}
      PROVE  /\ \A n \in DtNewestOf(all, kind) : all[n].thread = active
             /\ DtUnderOf(all, kind) = {} =>
                  (IF kind = "status" THEN git ELSE files) \in {Nobody, active} \/ kind \in missed
  <2>1. CASE DtUnderOf(more, kind) = {}
    <3>1. active = old
      BY <2>1
    <3>2. /\ DtUnderOf(all, kind) = DtUnderOf(calls, kind)
          /\ \A n \in DtNewestOf(all, kind) : n \in DtNewestOf(calls, kind) /\ all[n] = calls[n]
      BY <2>1, DtMoreOfOthers
    <3> HIDE DEF all
    <3> QED
      BY <3>1, <3>2 DEF DtRight
  <2>2. CASE DtUnderOf(more, kind) # {}
    <3>1. \A m \in DtUnderOf(more, kind) : more[m].thread = active
      BY DEF DtUnderOf
    <3>2. /\ DtUnderOf(all, kind) # {}
          /\ \A n \in DtNewestOf(all, kind) : \E m \in DtUnderOf(more, kind) : all[n] = more[m]
      BY <2>2, DtMoreOfKind
    <3> HIDE DEF all
    <3> QED
      BY <3>1, <3>2
  <2> QED
    BY <2>1, <2>2
<1>3. /\ \A n \in DtNewestOf(all, "read") : all[n].path = file.path
      /\ DtUnderOf(all, "read") = {} => file.shows = file.path \/ "read" \in missed
  <2>1. CASE DtUnderOf(more, "read") = {}
    <3>1. /\ DtUnderOf(all, "read") = DtUnderOf(calls, "read")
          /\ \A n \in DtNewestOf(all, "read") : n \in DtNewestOf(calls, "read") /\ all[n] = calls[n]
      BY <2>1, DtMoreOfOthers
    <3>2. file = was
      BY <2>1
    <3> HIDE DEF all
    <3> QED
      BY <3>1, <3>2 DEF DtRight
  <2>2. CASE DtUnderOf(more, "read") # {}
    <3>1. \A m \in DtUnderOf(more, "read") : more[m].path = file.path
      BY DEF DtUnderOf
    <3>2. /\ DtUnderOf(all, "read") # {}
          /\ \A n \in DtNewestOf(all, "read") : \E m \in DtUnderOf(more, "read") : all[n] = more[m]
      BY <2>2, DtMoreOfKind
    <3> HIDE DEF all
    <3> QED
      BY <3>1, <3>2
  <2> QED
    BY <2>1, <2>2
<1> QED
  BY <1>1, <1>2, <1>3 DEF DtRight

(* The first call is answered, or missed.                                     *)
LEMMA DtHeard ==
  ASSUME NEW calls \in Seq(DtCallRecs), calls # << >>, NEW active,
         NEW git, NEW files, NEW file, NEW missed, NEW git2, NEW files2, NEW file2, NEW missed2,
         DtRight(calls, active, git, files, file, missed),
         IF calls[1].kind = "status" THEN git2 = calls[1].thread \/ "status" \in missed2
         ELSE git2 = git /\ ("status" \in missed => "status" \in missed2),
         IF calls[1].kind = "list" THEN files2 = calls[1].thread \/ "list" \in missed2
         ELSE files2 = files /\ ("list" \in missed => "list" \in missed2),
         file2.path = file.path,
         IF calls[1].kind = "read" THEN file2.shows = calls[1].path \/ "read" \in missed2
         ELSE file2.shows = file.shows /\ ("read" \in missed => "read" \in missed2)
  PROVE  DtRight(Tail(calls), active, git2, files2, file2, missed2)
<1> DEFINE rest == Tail(calls)
<1>1. \A n \in DOMAIN rest : rest[n].kind \in {"status", "list"} => rest[n].thread # Nobody
  BY DtTail DEF DtRight
<1>2. ASSUME NEW kind \in {"status", "list"}
      PROVE  /\ \A n \in DtNewestOf(rest, kind) : rest[n].thread = active
             /\ DtUnderOf(rest, kind) = {} =>
                  (IF kind = "status" THEN git2 ELSE files2) \in {Nobody, active} \/ kind \in missed2
  <2>1. \A n \in DtNewestOf(rest, kind) : rest[n].thread = active
    <3>1. \A n \in DtNewestOf(rest, kind) : n + 1 \in DtNewestOf(calls, kind) /\ rest[n] = calls[n + 1]
      BY DtTail
    <3> HIDE DEF rest
    <3> QED
      BY <3>1 DEF DtRight
  <2>2. ASSUME DtUnderOf(rest, kind) = {}
        PROVE  (IF kind = "status" THEN git2 ELSE files2) \in {Nobody, active} \/ kind \in missed2
    <3>1. CASE calls[1].kind = kind
      <4>1. calls[1].thread = active
        BY <2>2, <3>1, DtTail DEF DtRight
      <4> QED
        BY <3>1, <4>1
    <3>2. CASE calls[1].kind # kind
      <4>1. DtUnderOf(calls, kind) = {}
        BY <2>2, <3>2, DtTail
      <4>2. (IF kind = "status" THEN git ELSE files) \in {Nobody, active} \/ kind \in missed
        BY <4>1 DEF DtRight
      <4> QED
        BY <3>2, <4>2
    <3> QED
      BY <3>1, <3>2
  <2> QED
    BY <2>1, <2>2
<1>3. \A n \in DtNewestOf(rest, "read") : rest[n].path = file2.path
  <2>1. \A n \in DtNewestOf(rest, "read") : n + 1 \in DtNewestOf(calls, "read") /\ rest[n] = calls[n + 1]
    BY DtTail
  <2> HIDE DEF rest
  <2> QED
    BY <2>1 DEF DtRight
<1>4. ASSUME DtUnderOf(rest, "read") = {} PROVE file2.shows = file2.path \/ "read" \in missed2
  <2>1. CASE calls[1].kind = "read"
    <3>1. calls[1].path = file.path
      BY <1>4, <2>1, DtTail DEF DtRight
    <3> QED
      BY <2>1, <3>1
  <2>2. CASE calls[1].kind # "read"
    <3>1. DtUnderOf(calls, "read") = {}
      BY <1>4, <2>2, DtTail
    <3> QED
      BY <2>2, <3>1 DEF DtRight
  <2> QED
    BY <2>1, <2>2
<1> QED
  BY <1>1, <1>2, <1>3, <1>4 DEF DtRight

(* A click on the window offers what it says.                                 *)
LEMMA DtSelectedThere == ASSUME NEW t, dtRail \in DtRails, DtClick(<<"select", t>>) PROVE t \in ToSet(dtOrder)
<1>1. <<"select", t>> \in DtOffers
  BY DEF DtClick
<1>2. \/ <<"select", t>> \in DtSidebarOffers
      \/ <<"select", t>> \in DtPaletteOffers
  BY <1>1 DEF DtOffers, DtToastOffers, DtRailOffers, DtTitlebarOffers, DtMainOffers, DtGitOffers,
              DtPanelOffers, DtFilesOffers
<1>3. <<"select", t>> \in DtSidebarOffers => t \in ToSet(dtOrder)
  BY DEF DtSidebarOffers, DtRails
<1>4. <<"select", t>> \in DtPaletteOffers => t \in ToSet(dtOrder)
  BY DEF DtPaletteOffers
<1> QED
  BY <1>2, <1>3, <1>4

LEMMA DtStarts == DtInit => DtInv
<1> SUFFICES ASSUME DtInit PROVE DtInv
  OBVIOUS
<1>1. DtTypes
  BY DEF DtInit, DtTypes, DtRails, ToSet
<1>2. DtTabKept
  BY DEF DtInit, DtTabKept
<1>3. DtRight(dtCalls, dtActive, dtGit, dtFiles, dtFile, dtMissed)
  BY DEF DtInit, DtRight, DtNewestOf, DtUnderOf
<1> QED
  BY <1>1, <1>2, <1>3 DEF DtInv

(* Nothing is sent, or calls that are about the active thread.                *)
LEMMA DtCallTyped ==
  ASSUME NEW kind \in {"create", "tell", "action", "status", "list", "read"}, NEW t \in DtThreads \cup {Nobody},
         NEW path \in {NoFilePath} \cup ((DtThreads \cup {Nobody}) \X DtPaths)
  PROVE  /\ DtCall(kind, t, path) \in DtCallRecs
         /\ <<DtCall(kind, t, path)>> \in Seq(DtCallRecs)
         /\ DOMAIN <<DtCall(kind, t, path)>> = {1}
         /\ LET c == <<DtCall(kind, t, path)>>[1] IN c.kind = kind /\ c.thread = t /\ c.path = path
<1>1. DtCall(kind, t, path) \in DtCallRecs
  BY DEF DtCall, DtCallRecs
<1> QED
  BY <1>1 DEF DtCall

(* Steps that only send.                                                      *)
LEMMA DtOnlySends ==
  ASSUME DtInv, NEW more \in Seq(DtCallRecs), dtCalls' = dtCalls \o more,
         \A m \in DOMAIN more :
           /\ more[m].kind \in {"status", "list"} => more[m].thread = dtActive /\ dtActive # Nobody
           /\ more[m].kind # "read",
         UNCHANGED <<dtOrder, dtActive, dtGit, dtFiles, dtFile, dtMissed>>, dtRail' \in DtRails, DtTabKept',
         dtPanel' = [open |-> dtPanel'.open, tab |-> dtPanel'.tab, tabs |-> dtPanel'.tabs,
                     term |-> dtPanel'.term, terms |-> dtPanel'.terms],
         DOMAIN dtPanel'.tabs \subseteq ToSet(dtOrder)
  PROVE  DtInv'
<1>1. dtCalls \in Seq(DtCallRecs) /\ DtRight(dtCalls, dtActive, dtGit, dtFiles, dtFile, dtMissed)
  BY DEF DtInv, DtTypes
<1>2. dtCalls' \in Seq(DtCallRecs)
  BY <1>1, DtMore
<1>3. DtRight(dtCalls \o more, dtActive, dtGit, dtFiles, dtFile, dtMissed)
  BY <1>1, DtSent
<1>4. DtTypes'
  BY <1>2 DEF DtInv, DtTypes
<1> QED
  BY <1>3, <1>4 DEF DtInv

(* Steps that do not touch what the window follows.                           *)
LEMMA DtAside ==
  ASSUME DtInv, UNCHANGED <<dtOrder, dtActive, dtGit, dtFiles, dtFile, dtCalls, dtMissed>>, dtRail' \in DtRails,
         dtPanel' = [open |-> dtPanel'.open, tab |-> dtPanel.tab, tabs |-> dtPanel.tabs,
                     term |-> dtPanel'.term, terms |-> dtPanel'.terms]
  PROVE  DtInv'
<1>1. dtPanel'.tab = dtPanel.tab /\ dtPanel'.tabs = dtPanel.tabs
  OBVIOUS
<1>2. DtTypes' /\ DtTabKept'
  BY <1>1 DEF DtInv, DtTypes, DtTabKept
<1>3. DtRight(dtCalls', dtActive', dtGit', dtFiles', dtFile', dtMissed')
  BY DEF DtInv
<1> QED
  BY <1>2, <1>3 DEF DtInv

(* What is asked about a thread.                                              *)
LEMMA DtAskedOf ==
  ASSUME NEW t \in DtThreads \cup {Nobody}, NEW more \in {<< >>, DtStatusOf(t), DtListOf(t)}
  PROVE  /\ more \in Seq(DtCallRecs)
         /\ \A m \in DOMAIN more :
              /\ more[m].kind \in {"status", "list"} => more[m].thread = t /\ t # Nobody
              /\ more[m].kind # "read"
<1>1. CASE more = << >>
  BY <1>1
<1>2. CASE t # Nobody /\ \E kind \in {"status", "list"} : more = <<DtCall(kind, t, NoFilePath)>>
  BY <1>2, DtCallTyped
<1> QED
  BY <1>1, <1>2 DEF DtStatusOf, DtListOf

LEMMA DtToldOf ==
  ASSUME NEW t \in DtThreads \cup {Nobody}, NEW kind \in {"create", "tell", "action"}
  PROVE  /\ <<DtCall(kind, t, NoFilePath)>> \in Seq(DtCallRecs)
         /\ \A m \in DOMAIN <<DtCall(kind, t, NoFilePath)>> :
              <<DtCall(kind, t, NoFilePath)>>[m].kind \notin {"status", "list", "read"}
BY DtCallTyped

LEMMA DtSelectThreadKeeps == ASSUME DtInv, DtSelectThread PROVE DtInv'
<1>1. PICK t \in DtThreads :
        /\ DtClick(<<"select", t>>)
        /\ dtActive' = t
        /\ dtPanel' = DtRestored(t)
        /\ DtSend(DtListOf(t) \o DtStatusOf(t))
        /\ UNCHANGED <<dtOrder, dtRail, dtGit, dtBusy, dtFiles, dtFile, dtToasts, dtMissed>>
  BY DEF DtSelectThread
<1>2. t \in ToSet(dtOrder) /\ t # Nobody
  BY <1>1, DtSelectedThere, DtAssumption DEF DtInv, DtTypes
<1> DEFINE list == DtCall("list", t, NoFilePath)
           status == DtCall("status", t, NoFilePath)
           more == <<list, status>>
<1>3. dtCalls' = dtCalls \o more
  BY <1>1, <1>2 DEF DtSend, DtListOf, DtStatusOf
<1>4. /\ list \in DtCallRecs /\ list.kind = "list" /\ list.thread = t
      /\ status \in DtCallRecs /\ status.kind = "status" /\ status.thread = t
  BY DEF DtCall, DtCallRecs
<1> HIDE DEF list, status
<1>5. /\ more \in Seq(DtCallRecs) /\ DOMAIN more = {1, 2} /\ more[1] = list /\ more[2] = status
  BY <1>4
<1> HIDE DEF more
<1>6. /\ DtUnderOf(more, "status") # {} /\ DtUnderOf(more, "list") # {}
      /\ \A m \in DOMAIN more :
           /\ more[m].kind \in {"status", "list"} => more[m].thread = t /\ t # Nobody
           /\ more[m].kind = "read" => more[m].path = dtFile.path
  BY <1>2, <1>4, <1>5 DEF DtUnderOf
<1>7. dtCalls \in Seq(DtCallRecs) /\ DtRight(dtCalls, dtActive, dtGit, dtFiles, dtFile, dtMissed)
  BY DEF DtInv, DtTypes
<1>8. DtRight(dtCalls \o more, t, dtGit, dtFiles, dtFile, dtMissed)
  BY <1>5, <1>6, <1>7, DtSent
<1>9. dtCalls' \in Seq(DtCallRecs)
  BY <1>3, <1>5, <1>7, DtMore
<1>10. /\ dtPanel' = [open |-> dtPanel'.open, tab |-> dtPanel'.tab, tabs |-> dtPanel'.tabs,
                      term |-> dtPanel'.term, terms |-> dtPanel'.terms]
       /\ dtPanel'.tabs = dtPanel.tabs
       /\ t \in DOMAIN dtPanel.tabs => dtPanel'.tab = dtPanel.tabs[t]
  <2>1. dtPanel = [open |-> dtPanel.open, tab |-> dtPanel.tab, tabs |-> dtPanel.tabs,
                   term |-> dtPanel.term, terms |-> dtPanel.terms]
    BY DEF DtInv, DtTypes
  <2>2. dtPanel' = [dtPanel EXCEPT !.tab  = IF t \in DOMAIN dtPanel.tabs THEN dtPanel.tabs[t] ELSE dtPanel.tab,
                                   !.term = IF t \in dtPanel.terms THEN t ELSE dtPanel.term]
    BY <1>1 DEF DtRestored
  <2> QED
    BY <2>1, <2>2
<1>11. DtTypes' /\ DtTabKept'
  BY <1>1, <1>2, <1>9, <1>10 DEF DtInv, DtTypes, DtTabKept
<1> QED
  BY <1>1, <1>3, <1>8, <1>11 DEF DtInv

DtNewTabs(tabs, tab) ==
  IF dtActive = Nobody THEN tabs
  ELSE [x \in DOMAIN tabs \cup {dtActive} |-> IF x = dtActive THEN tab ELSE tabs[x]]

DtPanelOf(open, tab, tabs, term, terms) ==
  [open |-> open, tab |-> tab, tabs |-> tabs, term |-> term, terms |-> terms]

LEMMA DtTerminalMade ==
  ASSUME NEW open, NEW tab, NEW tabs, NEW term, NEW terms
  PROVE  \E u, v : DtWithTerminal(DtPanelOf(open, tab, tabs, term, terms)) = DtPanelOf(open, tab, tabs, u, v)
<1>1. CASE term # Nobody
  <2>1. DtWithTerminal(DtPanelOf(open, tab, tabs, term, terms)) = DtPanelOf(open, tab, tabs, term, terms)
    BY <1>1 DEF DtWithTerminal, DtPanelOf
  <2> QED
    BY <2>1
<1>2. CASE term = Nobody /\ dtActive = Nobody
  <2>1. DtWithTerminal(DtPanelOf(open, tab, tabs, term, terms)) = DtPanelOf(open, tab, tabs, "home", terms)
    BY <1>2 DEF DtWithTerminal, DtPanelOf
  <2> QED
    BY <2>1
<1>3. CASE term = Nobody /\ dtActive # Nobody
  <2>1. DtWithTerminal(DtPanelOf(open, tab, tabs, term, terms))
          = DtPanelOf(open, tab, tabs, dtActive, terms \cup {dtActive})
    BY <1>3 DEF DtWithTerminal, DtPanelOf
  <2> QED
    BY <2>1
<1> QED
  BY <1>1, <1>2, <1>3

LEMMA DtTabShown ==
  ASSUME NEW open, NEW tab, NEW old, NEW tabs, NEW term, NEW terms
  PROVE  \E u, v : DtWithTab(DtPanelOf(open, old, tabs, term, terms), tab)
                     = DtPanelOf(open, tab, DtNewTabs(tabs, tab), u, v)
<1> DEFINE shown == DtPanelOf(open, tab, DtNewTabs(tabs, tab), term, terms)
<1>1. [DtPanelOf(open, old, tabs, term, terms) EXCEPT !.tab = tab, !.tabs = DtNewTabs(tabs, tab)] = shown
  <2> DEFINE x == DtNewTabs(tabs, tab)
  <2> HIDE DEF x
  <2>1. [DtPanelOf(open, old, tabs, term, terms) EXCEPT !.tab = tab] = DtPanelOf(open, tab, tabs, term, terms)
    BY DEF DtPanelOf
  <2>2. [DtPanelOf(open, tab, tabs, term, terms) EXCEPT !.tabs = x] = DtPanelOf(open, tab, x, term, terms)
    BY DEF DtPanelOf
  <2>3. [DtPanelOf(open, old, tabs, term, terms) EXCEPT !.tab = tab, !.tabs = x] = DtPanelOf(open, tab, x, term, terms)
    BY <2>1, <2>2
  <2> QED
    BY <2>3 DEF x
<1>2. DtPanelOf(open, old, tabs, term, terms).tabs = tabs
  BY DEF DtPanelOf
<1>3. DtWithTab(DtPanelOf(open, old, tabs, term, terms), tab)
        = IF tab = "terminal" THEN DtWithTerminal(shown) ELSE shown
  BY <1>1, <1>2 DEF DtWithTab, DtNewTabs
<1>4. \E u, v : DtWithTerminal(shown) = DtPanelOf(open, tab, DtNewTabs(tabs, tab), u, v)
  BY DtTerminalMade
<1> QED
  BY <1>3, <1>4

(* A tab opened is the active thread's from then on.                          *)
LEMMA DtShowTabKeeps ==
  ASSUME DtInv, dtRail' \in DtRails, NEW tab, NEW open, DtShowTab([dtPanel EXCEPT !.open = open], tab)
  PROVE  DtInv'
<1> DEFINE more == IF tab = "files" THEN DtListOf(dtActive) ELSE << >>
           tabs == DtNewTabs(dtPanel.tabs, tab)
<1>1. /\ dtCalls' = dtCalls \o more
      /\ UNCHANGED <<dtOrder, dtActive, dtGit, dtFiles, dtFile, dtMissed>>
  BY DEF DtShowTab, DtSend
<1>2. dtActive \in DtThreads \cup {Nobody}
  <2>1. ToSet(dtOrder) \subseteq DtThreads
    BY DEF DtInv, DtTypes, ToSet
  <2> QED
    BY <2>1 DEF DtInv, DtTypes
<1>3. /\ more \in Seq(DtCallRecs)
      /\ \A m \in DOMAIN more :
           /\ more[m].kind \in {"status", "list"} => more[m].thread = dtActive /\ dtActive # Nobody
           /\ more[m].kind # "read"
  <2>1. CASE tab = "files"
    BY <1>2, <2>1, DtAskedOf
  <2>2. CASE tab # "files"
    BY <1>2, <2>2, DtAskedOf
  <2> QED
    BY <2>1, <2>2
<1>4. [dtPanel EXCEPT !.open = open] = DtPanelOf(open, dtPanel.tab, dtPanel.tabs, dtPanel.term, dtPanel.terms)
  BY DEF DtInv, DtTypes, DtPanelOf
<1>5. dtPanel' = DtWithTab(DtPanelOf(open, dtPanel.tab, dtPanel.tabs, dtPanel.term, dtPanel.terms), tab)
  BY <1>4 DEF DtShowTab
<1>6. PICK u, v : dtPanel' = DtPanelOf(open, tab, tabs, u, v)
  BY <1>5, DtTabShown
<1>7. /\ dtPanel' = [open |-> dtPanel'.open, tab |-> dtPanel'.tab, tabs |-> dtPanel'.tabs,
                     term |-> dtPanel'.term, terms |-> dtPanel'.terms]
      /\ dtPanel'.tab = tab /\ dtPanel'.tabs = tabs
  <2> HIDE DEF tabs
  <2> QED
    BY <1>6 DEF DtPanelOf
<1>8. DOMAIN tabs \subseteq ToSet(dtOrder) /\ (dtActive \in DOMAIN tabs => tabs[dtActive] = tab)
  <2>1. CASE dtActive = Nobody
    <3>1. Nobody \notin ToSet(dtOrder)
      BY DtAssumption DEF DtInv, DtTypes, ToSet
    <3> QED
      BY <2>1, <3>1 DEF DtInv, DtTypes, DtNewTabs
  <2>2. CASE dtActive # Nobody
    <3>1. dtActive \in ToSet(dtOrder) /\ DOMAIN dtPanel.tabs \subseteq ToSet(dtOrder)
      BY <2>2 DEF DtInv, DtTypes
    <3>2. DOMAIN tabs = DOMAIN dtPanel.tabs \cup {dtActive} /\ tabs[dtActive] = tab
      BY <2>2 DEF DtNewTabs
    <3> QED
      BY <3>1, <3>2
  <2> QED
    BY <2>1, <2>2
<1>9. DtTabKept' /\ DOMAIN dtPanel'.tabs \subseteq ToSet(dtOrder)
  BY <1>1, <1>7, <1>8 DEF DtTabKept
<1> HIDE DEF more
<1> QED
  BY <1>1, <1>3, <1>7, <1>9, DtOnlySends

LEMMA DtSelectFileKeeps == ASSUME DtInv, DtSelectFile PROVE DtInv'
<1>1. PICK p \in DtPaths :
        /\ dtFile' = [dtFile EXCEPT !.path = <<dtActive, p>>]
        /\ DtSend(<<DtCall("read", dtActive, <<dtActive, p>>)>>)
        /\ UNCHANGED <<dtOrder, dtActive, dtRail, dtPanel, dtGit, dtBusy, dtFiles, dtToasts, dtMissed>>
  BY DEF DtSelectFile
<1> DEFINE call == DtCall("read", dtActive, <<dtActive, p>>)
           more == <<call>>
<1>2. dtActive \in DtThreads \cup {Nobody}
  <2>1. ToSet(dtOrder) \subseteq DtThreads
    BY DEF DtInv, DtTypes, ToSet
  <2> QED
    BY <2>1 DEF DtInv, DtTypes
<1>3. call \in DtCallRecs /\ call.kind = "read" /\ call.path = <<dtActive, p>>
  BY <1>2 DEF DtCall, DtCallRecs
<1> HIDE DEF call
<1>4. more \in Seq(DtCallRecs) /\ DOMAIN more = {1} /\ more[1] = call /\ dtCalls' = dtCalls \o more
  BY <1>1, <1>3 DEF DtSend, call
<1> HIDE DEF more
<1>5. dtFile' = [path |-> <<dtActive, p>>, shows |-> dtFile.shows]
  BY <1>1 DEF DtInv, DtTypes
<1>6. /\ DtUnderOf(more, "read") # {}
      /\ \A m \in DOMAIN more :
           /\ more[m].kind \in {"status", "list"} => more[m].thread = dtActive /\ dtActive # Nobody
           /\ more[m].kind = "read" => more[m].path = dtFile'.path
  BY <1>3, <1>4, <1>5 DEF DtUnderOf
<1>7. dtCalls \in Seq(DtCallRecs) /\ DtRight(dtCalls, dtActive, dtGit, dtFiles, dtFile, dtMissed)
  BY DEF DtInv, DtTypes
<1>8. DtRight(dtCalls \o more, dtActive, dtGit, dtFiles, dtFile', dtMissed)
  BY <1>4, <1>6, <1>7, DtSent
<1>9. dtCalls' \in Seq(DtCallRecs)
  BY <1>4, <1>7, DtMore
<1>10. DtTypes' /\ DtTabKept'
  BY <1>1, <1>5, <1>9 DEF DtInv, DtTypes, DtTabKept
<1> QED
  BY <1>1, <1>4, <1>8, <1>10 DEF DtInv

(* The first thread of the window becomes the active one; nothing was asked   *)
(* of any before.                                                             *)
LEMMA DtCreatedKeeps == ASSUME DtInv, DtCreated PROVE DtInv'
<1>1. PICK t \in DtThreads \ ToSet(dtOrder) :
        /\ dtOrder' = Append(dtOrder, t)
        /\ dtActive' = IF dtActive = Nobody THEN t ELSE dtActive
  BY DEF DtCreated
<1>2. /\ dtCalls # << >> /\ DtFirst.kind = "create" /\ dtCalls' = Tail(dtCalls)
      /\ UNCHANGED <<dtRail, dtPanel, dtGit, dtFiles, dtFile, dtMissed>>
  BY DEF DtCreated, DtAnswered
<1>3. dtCalls \in Seq(DtCallRecs) /\ DtRight(dtCalls, dtActive, dtGit, dtFiles, dtFile, dtMissed)
  BY DEF DtInv, DtTypes
<1>4. dtCalls' \in Seq(DtCallRecs) /\ dtCalls[1] = DtFirst
  BY <1>2, <1>3, DtTail DEF DtFirst
<1>5. DtRight(dtCalls', dtActive, dtGit, dtFiles, dtFile, dtMissed)
  BY <1>2, <1>3, <1>4, DtHeard
<1>6. DtRight(dtCalls', dtActive', dtGit, dtFiles, dtFile, dtMissed)
  <2>1. CASE dtActive # Nobody
    BY <1>1, <1>5, <2>1
  <2>2. CASE dtActive = Nobody
    <3>1. ASSUME NEW kind \in {"status", "list"} PROVE DtNewestOf(dtCalls', kind) = {}
      BY <1>5, <2>2 DEF DtRight, DtNewestOf, DtUnderOf
    <3> QED
      BY <1>5, <2>2, <3>1 DEF DtRight
  <2> QED
    BY <2>1, <2>2
<1>7. dtOrder' \in Seq(DtThreads) /\ ToSet(dtOrder') = ToSet(dtOrder) \cup {t}
  <2>1. dtOrder \in Seq(DtThreads)
    BY DEF DtInv, DtTypes
  <2>2. /\ dtOrder' \in Seq(DtThreads) /\ Len(dtOrder') = Len(dtOrder) + 1 /\ Len(dtOrder) \in Nat
        /\ \A i \in 1..Len(dtOrder) : dtOrder'[i] = dtOrder[i]
        /\ dtOrder'[Len(dtOrder) + 1] = t
    BY <1>1, <2>1, AppendProperties, LenProperties
  <2>3. DOMAIN dtOrder' = 1..Len(dtOrder) \cup {Len(dtOrder) + 1} /\ DOMAIN dtOrder = 1..Len(dtOrder)
    BY <2>1, <2>2, LenProperties
  <2> QED
    BY <2>2, <2>3 DEF ToSet
<1>8. DtTypes'
  BY <1>1, <1>2, <1>4, <1>7 DEF DtInv, DtTypes
<1>9. DtTabKept'
  BY <1>1, <1>2 DEF DtInv, DtTypes, DtTabKept
<1> QED
  BY <1>2, <1>6, <1>8, <1>9 DEF DtInv

(* An answer of another kind comes, or none.                                  *)
LEMMA DtAnsweredKeeps ==
  ASSUME DtInv, dtCalls # << >>, dtCalls' = Tail(dtCalls),
         UNCHANGED <<dtRail, dtOrder, dtActive, dtPanel>>,
         IF DtFirst.kind = "status" THEN dtGit' = DtFirst.thread \/ "status" \in dtMissed'
         ELSE dtGit' = dtGit /\ ("status" \in dtMissed => "status" \in dtMissed'),
         IF DtFirst.kind = "list" THEN dtFiles' = DtFirst.thread \/ "list" \in dtMissed'
         ELSE dtFiles' = dtFiles /\ ("list" \in dtMissed => "list" \in dtMissed'),
         dtFile' = [path |-> dtFile.path, shows |-> dtFile'.shows],
         IF DtFirst.kind = "read" THEN dtFile'.shows = DtFirst.path \/ "read" \in dtMissed'
         ELSE dtFile'.shows = dtFile.shows /\ ("read" \in dtMissed => "read" \in dtMissed')
  PROVE  DtInv'
<1>1. dtCalls \in Seq(DtCallRecs) /\ DtRight(dtCalls, dtActive, dtGit, dtFiles, dtFile, dtMissed)
  BY DEF DtInv, DtTypes
<1>2. dtCalls' \in Seq(DtCallRecs) /\ dtCalls[1] = DtFirst
  BY <1>1, DtTail DEF DtFirst
<1>3. dtFile'.path = dtFile.path
  OBVIOUS
<1>4. DtRight(dtCalls', dtActive, dtGit', dtFiles', dtFile', dtMissed')
  BY <1>1, <1>2, <1>3, DtHeard
<1>5. DtTypes' /\ DtTabKept'
  BY <1>2, <1>3 DEF DtInv, DtTypes, DtTabKept
<1> QED
  BY <1>4, <1>5 DEF DtInv

(* A git action is done, and the status of the active thread asked for.       *)
LEMMA DtGitDoneKeeps == ASSUME DtInv, DtGitDone PROVE DtInv'
<1> DEFINE rest == Tail(dtCalls)
<1>1. /\ dtCalls # << >> /\ DtFirst.kind = "action" /\ dtCalls' \in {rest, rest \o DtStatusOf(dtActive)}
      /\ UNCHANGED <<dtRail, dtOrder, dtActive, dtPanel, dtGit, dtFiles, dtFile, dtMissed>>
  BY DEF DtGitDone, DtAnswered
<1>2. /\ dtCalls \in Seq(DtCallRecs) /\ DtRight(dtCalls, dtActive, dtGit, dtFiles, dtFile, dtMissed)
      /\ dtActive \in DtThreads \cup {Nobody}
  BY DEF DtInv, DtTypes, ToSet
<1>3. rest \in Seq(DtCallRecs) /\ dtCalls[1] = DtFirst
  BY <1>1, <1>2, DtTail DEF DtFirst
<1>4. DtRight(rest, dtActive, dtGit, dtFiles, dtFile, dtMissed)
  BY <1>1, <1>2, <1>3, DtHeard
<1> HIDE DEF rest
<1> DEFINE more == DtStatusOf(dtActive)
<1>5. /\ more \in Seq(DtCallRecs)
      /\ \A m \in DOMAIN more :
           /\ more[m].kind \in {"status", "list"} => more[m].thread = dtActive /\ dtActive # Nobody
           /\ more[m].kind # "read"
  BY <1>2, DtAskedOf
<1> HIDE DEF more
<1>6. rest \o more \in Seq(DtCallRecs) /\ DtRight(rest \o more, dtActive, dtGit, dtFiles, dtFile, dtMissed)
  BY <1>3, <1>4, <1>5, DtMore, DtSent
<1>7. /\ dtCalls' \in Seq(DtCallRecs)
      /\ DtRight(dtCalls', dtActive, dtGit, dtFiles, dtFile, dtMissed)
  BY <1>1, <1>3, <1>4, <1>6 DEF more
<1>8. DtTypes' /\ DtTabKept'
  BY <1>1, <1>7 DEF DtInv, DtTypes, DtTabKept
<1> QED
  BY <1>1, <1>7, <1>8 DEF DtInv

LEMMA DtStepKeeps == DtInv /\ [DtNext]_dtVars => DtInv'
<1> SUFFICES ASSUME DtInv, [DtNext]_dtVars PROVE DtInv'
  OBVIOUS
<1>1. /\ dtRail \in DtRails /\ DtTabKept /\ DOMAIN dtPanel.tabs \subseteq ToSet(dtOrder)
      /\ dtPanel = [open |-> dtPanel.open, tab |-> dtPanel.tab, tabs |-> dtPanel.tabs,
                    term |-> dtPanel.term, terms |-> dtPanel.terms]
      /\ dtFile = [path |-> dtFile.path, shows |-> dtFile.shows]
      /\ dtActive \in DtThreads \cup {Nobody} /\ Nobody \in DtThreads \cup {Nobody}
  BY DEF DtInv, DtTypes, ToSet
<1>2. dtPanel' = dtPanel /\ dtActive' = dtActive => DtTabKept'
  BY <1>1 DEF DtTabKept
<1>3. CASE DtSelectRail
  BY <1>1, <1>3, DtAside DEF DtSelectRail
<1>4. CASE DtTogglePalette
  BY <1>1, <1>4, DtAside DEF DtTogglePalette
<1>5. CASE DtCreate
  <2>1. dtCalls' = dtCalls \o <<DtCall("create", Nobody, NoFilePath)>> /\ dtRail' \in DtRails
    BY <1>1, <1>5 DEF DtCreate, DtSend, DtRails
  <2> QED
    BY <1>1, <1>2, <1>5, <2>1, DtToldOf, DtOnlySends DEF DtCreate
<1>6. CASE DtSelectThread
  BY <1>6, DtSelectThreadKeeps
<1>7. CASE DtTell
  <2>1. dtCalls' = dtCalls \o <<DtCall("tell", dtActive, NoFilePath)>>
    BY <1>7 DEF DtTell, DtSend
  <2> QED
    BY <1>1, <1>2, <1>7, <2>1, DtToldOf, DtOnlySends DEF DtTell
<1>8. CASE DtTogglePanel
  <2>1. dtPanel' = [open |-> ~dtPanel.open, tab |-> dtPanel.tab, tabs |-> dtPanel.tabs,
                    term |-> dtPanel.term, terms |-> dtPanel.terms]
    BY <1>1, <1>8 DEF DtTogglePanel
  <2> QED
    BY <1>1, <1>8, <2>1, DtAside DEF DtTogglePanel
<1>9. CASE DtSetTab
  <2>1. PICK tab : DtShowTab(dtPanel, tab)
    BY <1>9 DEF DtSetTab
  <2>2. [dtPanel EXCEPT !.open = dtPanel.open] = dtPanel
    BY <1>1
  <2>3. DtShowTab([dtPanel EXCEPT !.open = dtPanel.open], tab)
    BY <2>1, <2>2
  <2>4. dtRail' = dtRail
    BY <2>1 DEF DtShowTab
  <2> QED
    BY <1>1, <2>3, <2>4, DtShowTabKeeps
<1>10. CASE DtOpenTab
  <2>1. PICK tab : DtShowTab([dtPanel EXCEPT !.open = TRUE], tab)
    BY <1>10 DEF DtOpenTab
  <2>2. dtRail' = dtRail
    BY <2>1 DEF DtShowTab
  <2> QED
    BY <1>1, <2>1, <2>2, DtShowTabKeeps
<1>11. CASE DtSelectFile
  BY <1>11, DtSelectFileKeeps
<1>12. CASE DtGitRefresh
  <2>1. dtCalls' = dtCalls \o DtStatusOf(dtActive)
    BY <1>12 DEF DtGitRefresh, DtSend
  <2> QED
    BY <1>1, <1>2, <1>12, <2>1, DtAskedOf, DtOnlySends DEF DtGitRefresh
<1>13. CASE DtGitAction
  <2>1. UNCHANGED <<dtOrder, dtActive, dtRail, dtPanel, dtGit, dtFiles, dtFile, dtMissed>>
    BY <1>13 DEF DtGitAction
  <2>2. CASE dtCalls' = dtCalls
    BY <1>1, <2>1, <2>2, DtAside
  <2>3. CASE dtCalls' = dtCalls \o <<DtCall("action", dtActive, NoFilePath)>>
    BY <1>1, <1>2, <2>1, <2>3, DtToldOf, DtOnlySends
  <2> QED
    BY <1>13, <2>2, <2>3 DEF DtGitAction, DtSend
<1>14. CASE DtDismiss
  BY <1>1, <1>14, DtAside DEF DtDismiss
<1>15. CASE DtCreated
  BY <1>15, DtCreatedKeeps
<1>16. CASE DtGotStatus
  BY <1>1, <1>16, DtAnsweredKeeps DEF DtGotStatus, DtAnswered
<1>17. CASE DtGotFiles
  BY <1>1, <1>17, DtAnsweredKeeps DEF DtGotFiles, DtAnswered
<1>18. CASE DtGotFile
  <2>1. dtFile' = [path |-> dtFile.path, shows |-> DtFirst.path]
    BY <1>1, <1>18 DEF DtGotFile
  <2> QED
    BY <1>18, <2>1, DtAnsweredKeeps DEF DtGotFile, DtAnswered
<1>19. CASE DtGitDone
  BY <1>19, DtGitDoneKeeps
<1>20. CASE DtToldBack
  BY <1>1, <1>20, DtAnsweredKeeps DEF DtToldBack, DtAnswered
<1>21. CASE DtFails
  BY <1>1, <1>21, DtAnsweredKeeps DEF DtFails, DtAnswered
<1>22. CASE DtEvent
  BY <1>1, <1>22, DtAside DEF DtEvent
<1>23. CASE UNCHANGED dtVars
  BY <1>1, <1>23, DtAside DEF dtVars
<1> QED
  BY <1>3, <1>4, <1>5, <1>6, <1>7, <1>8, <1>9, <1>10, <1>11, <1>12, <1>13, <1>14, <1>15, <1>16,
     <1>17, <1>18, <1>19, <1>20, <1>21, <1>22, <1>23 DEF DtNext

LEMMA DtInvShows == DtInv => DtShowsActive
<1>1. \A kind : DtUnderWay(kind) = DtUnderOf(dtCalls, kind) /\ DtNewest(kind) = DtNewestOf(dtCalls, kind)
  BY DEF DtUnderWay, DtUnderOf, DtNewest, DtNewestOf
<1> QED
  BY <1>1 DEF DtInv, DtTabKept, DtRight, DtShowsActive

(* For any threads, files, clicks, calls under way and answers lost: what the *)
(* window is going to show is what was selected last (app_view.rs).           *)
THEOREM DtFollowsSelection == DtSpec => []DtShowsActive
<1>1. DtInit => DtInv
  BY DtStarts
<1>2. DtInv /\ [DtNext]_dtVars => DtInv'
  BY DtStepKeeps
<1>3. DtInv => DtShowsActive
  BY DtInvShows
<1> QED
  BY <1>1, <1>2, <1>3, PTL DEF DtSpec

-----------------------------------------------------------------------------
(* The transcript.  While the thread shown was counted last, the position is  *)
(* the one that shows its end.                                                *)
TlItemRecs ==
  [kind : TlKinds, decision : {Undecided} \cup TlDecisions, steps : Seq({"Pending", "Completed", "Failed"}),
   status : {"Running", "Completed"}, about : {"destructive"}]
TlInv ==
  /\ tlItems \in [TlThreads -> Seq(TlItemRecs)]
  /\ tlShown \in TlThreads /\ tlScroll \in Nat
  /\ tlCounted = tlShown => tlScroll = JumpToBottom(Len(tlItems[tlShown]))

LEMMA Rounded ==
  ASSUME NEW a \in Nat, NEW b \in Nat \ {0}
  PROVE  a \div b \in Nat /\ (a \div b) * b <= a /\ a < (a \div b + 1) * b
  BY Z3

LEMMA Distributed ==
  ASSUME NEW h \in Nat, NEW a \in Nat, NEW b \in Nat, NEW n \in Nat, a <= b, b <= n
  PROVE  a * h + (b - a) * h + (n - b) * h = n * h
OBVIOUS

(* What of n items is drawn is a stretch of them.                             *)
LEMMA TlRangeWithin ==
  ASSUME NEW scroll \in Nat, NEW n \in Nat
  PROVE  LET r == VisibleRange(scroll, n)
         IN r.from \in Nat /\ r.upto \in Nat /\ r.from <= r.upto /\ r.upto <= n
<1> DEFINE first == scroll \div TlItemHeight
           tall == Ceiling(TlViewport, TlItemHeight)
           upto == Least(first + tall + 1 + TlOverscan, n)
           from == Least(Less(first, TlOverscan), n)
<1>1. TlItemHeight \in Nat \ {0} /\ TlViewport \in Nat /\ TlOverscan \in Nat
  BY TlAssumption
<1>2. first \in Nat
  BY <1>1, Rounded
<1>3. tall \in Nat
  <2>1. TlViewport + TlItemHeight - 1 \in Nat
    BY <1>1
  <2> QED
    BY <1>1, <2>1, Rounded DEF Ceiling
<1> HIDE DEF first, tall
<1>4. upto \in Nat /\ from \in Nat /\ upto <= n /\ from <= n
  BY <1>1, <1>2, <1>3 DEF Least, Less
<1>5. VisibleRange(scroll, n) = IF n = 0 THEN [from |-> 0, upto |-> 0]
                                ELSE [from |-> from, upto |-> IF upto < from THEN from ELSE upto]
  BY DEF VisibleRange, first, tall
<1> HIDE DEF upto, from
<1> QED
  BY <1>4, <1>5

(* At the end of n items all are drawn that fit, from the last one back.      *)
LEMMA TlRangeAtBottom ==
  ASSUME NEW n \in Nat, NEW i \in Less(n, TlViewport \div TlItemHeight) + 1 .. n
  PROVE  LET r == VisibleRange(JumpToBottom(n), n) IN r.from < i /\ i <= r.upto
<1> DEFINE h == TlItemHeight
           scroll == JumpToBottom(n)
           first == scroll \div h
           fit == TlViewport \div h
           tall == Ceiling(TlViewport, h)
           upto == Least(first + tall + 1 + TlOverscan, n)
           from == Least(Less(first, TlOverscan), n)
<1>1. h \in Nat \ {0} /\ TlViewport \in Nat /\ TlOverscan \in Nat
  BY TlAssumption
<1>2. n * h \in Nat
  BY <1>1
<1>3. /\ scroll \in Nat
      /\ n * h >= TlViewport => scroll = n * h - TlViewport
      /\ n * h < TlViewport => scroll = 0
  BY <1>1, <1>2 DEF JumpToBottom, Less
<1>4. fit \in Nat /\ fit * h <= TlViewport
  BY <1>1, Rounded
<1>5. tall \in Nat /\ TlViewport <= tall * h
  <2>1. TlViewport + h - 1 \in Nat
    BY <1>1
  <2>2. tall \in Nat /\ TlViewport + h - 1 < (tall + 1) * h
    BY <1>1, <2>1, Rounded DEF Ceiling
  <2>3. (tall + 1) * h = tall * h + h
    BY <1>1, <2>2
  <2> HIDE DEF tall, h
  <2>4. tall * h \in Nat
    BY <1>1, <2>2
  <2> QED
    BY <1>1, <2>2, <2>3, <2>4
<1> HIDE DEF scroll
<1>6. first \in Nat /\ first * h <= scroll /\ scroll < (first + 1) * h
  BY <1>1, <1>3, Rounded
<1>7. i \in Nat /\ i <= n /\ n >= 1 /\ (IF n > fit THEN i >= n - fit + 1 ELSE i >= 1)
  <2> HIDE DEF fit
  <2>1. i \in Less(n, fit) + 1 .. n
    BY DEF fit
  <2> QED
    BY <1>4, <2>1 DEF Less
<1> HIDE DEF first, fit, tall, h
<1>8. first < i
  <2>1. CASE n * h < TlViewport
    <3>1. first * h <= 0
      BY <1>3, <1>6, <2>1
    <3>2. first = 0
      BY <1>1, <1>6, <3>1
    <3> QED
      BY <1>4, <1>6, <1>7, <3>2
  <2>2. CASE n * h >= TlViewport
    <3>1. first * h + fit * h <= n * h
      BY <1>1, <1>2, <1>3, <1>4, <1>6, <2>2
    <3>2. (first + fit) * h <= n * h
      BY <1>1, <1>4, <1>6, <3>1
    <3>3. first + fit <= n
      BY <1>1, <1>4, <1>6, <3>2
    <3> QED
      BY <1>4, <1>6, <1>7, <3>3
  <2> QED
    BY <1>1, <1>2, <2>1, <2>2
<1>9. n <= first + tall
  <2>1. CASE n * h < TlViewport
    <3>1. n * h < tall * h
      BY <1>1, <1>2, <1>5, <2>1
    <3> QED
      BY <1>1, <1>5, <1>6, <3>1
  <2>2. CASE n * h >= TlViewport
    <3>1. n * h < (first + 1) * h + tall * h
      BY <1>1, <1>2, <1>3, <1>5, <1>6, <2>2
    <3>2. n * h < (first + 1 + tall) * h
      BY <1>1, <1>5, <1>6, <3>1
    <3> QED
      BY <1>1, <1>5, <1>6, <3>2
  <2> QED
    BY <1>1, <1>2, <2>1, <2>2
<1>10. upto = n /\ from <= first /\ from \in Nat /\ from <= n
  BY <1>1, <1>5, <1>6, <1>9 DEF Least, Less
<1>11. VisibleRange(scroll, n) = IF n = 0 THEN [from |-> 0, upto |-> 0]
                                 ELSE [from |-> from, upto |-> IF upto < from THEN from ELSE upto]
  BY DEF VisibleRange, first, tall, h
<1> HIDE DEF upto, from
<1> QED
  BY <1>6, <1>7, <1>8, <1>10, <1>11 DEF scroll

LEMMA TlInvReaches == TlInv => TlInReach
<1> SUFFICES ASSUME TlInv PROVE TlInReach
  OBVIOUS
<1> DEFINE items == tlItems[tlShown]
           n == Len(items)
           r == VisibleRange(tlScroll, n)
<1>1. items \in Seq(TlItemRecs) /\ n \in Nat /\ DOMAIN items = 1..n
  BY LenProperties DEF TlInv
<1>2. Len(VisibleItems(items)) = n /\ \A j \in 1..n : VisibleItems(items)[j] = <<j, items[j]>>
  BY <1>1 DEF VisibleItems
<1> HIDE DEF items, n
<1>3. r.from \in Nat /\ r.upto \in Nat /\ r.from <= r.upto /\ r.upto <= n
  BY <1>1, TlRangeWithin DEF TlInv
<1> HIDE DEF r
<1> DEFINE drawn == [k \in 1..(r.upto - r.from) |->
                       [place |-> r.from + k, card |-> Card(items[r.from + k]),
                        marked |-> r.from + k \in tlSelected]]
<1>4. TlDrawn = drawn
  <2>1. TlDrawn = [k \in 1..(r.upto - r.from) |->
                     LET v == VisibleItems(items)[r.from + k]
                     IN [place |-> v[1], card |-> Card(v[2]), marked |-> v[1] \in tlSelected]]
    BY <1>2 DEF TlDrawn, items, r
  <2>2. \A k \in 1..(r.upto - r.from) :
          r.from + k \in 1..n /\ VisibleItems(items)[r.from + k] = <<r.from + k, items[r.from + k]>>
    BY <1>1, <1>2, <1>3
  <2>3. \A k \in 1..(r.upto - r.from) :
          (LET v == VisibleItems(items)[r.from + k]
           IN [place |-> v[1], card |-> Card(v[2]), marked |-> v[1] \in tlSelected])
            = [place |-> r.from + k, card |-> Card(items[r.from + k]), marked |-> r.from + k \in tlSelected]
    <3> SUFFICES ASSUME NEW k \in 1..(r.upto - r.from)
                 PROVE  (LET v == VisibleItems(items)[r.from + k]
                         IN [place |-> v[1], card |-> Card(v[2]), marked |-> v[1] \in tlSelected])
                          = [place |-> r.from + k, card |-> Card(items[r.from + k]),
                             marked |-> r.from + k \in tlSelected]
      OBVIOUS
    <3>1. VisibleItems(items)[r.from + k][1] = r.from + k /\ VisibleItems(items)[r.from + k][2] = items[r.from + k]
      <4> DEFINE v == VisibleItems(items)[r.from + k]
                 place == r.from + k
                 item == items[r.from + k]
      <4>1. v = <<place, item>>
        BY <2>2
      <4> HIDE DEF v, place, item
      <4>2. v[1] = place /\ v[2] = item
        BY <4>1
      <4> QED
        BY <4>2 DEF v, place, item
    <3> QED
      BY <3>1, Zenon
  <2> QED
    BY <2>1, <2>3, Zenon
<1>5. Len(drawn) = r.upto - r.from /\ DOMAIN drawn = 1..(r.upto - r.from)
  BY <1>3
<1> HIDE DEF drawn
<1>6. TopSpacer(tlScroll, n) + Len(drawn) * TlItemHeight + BottomSpacer(tlScroll, n) = n * TlItemHeight
  <2>1. /\ TopSpacer(tlScroll, n) = r.from * TlItemHeight
        /\ BottomSpacer(tlScroll, n) = (n - r.upto) * TlItemHeight
    BY DEF TopSpacer, BottomSpacer, r
  <2>2. TlItemHeight \in Nat
    BY TlAssumption
  <2>3. r.from * TlItemHeight + (r.upto - r.from) * TlItemHeight + (n - r.upto) * TlItemHeight = n * TlItemHeight
    BY <1>1, <1>3, <2>2, Distributed
  <2> QED
    BY <1>5, <2>1, <2>3
<1>7. ASSUME tlCounted = tlShown, NEW i \in Less(n, TlViewport \div TlItemHeight) + 1 .. n
      PROVE  \E c \in ToSet(drawn) :
               /\ c.place = i
               /\ (items[i].kind = "approval" /\ items[i].decision = Undecided) => c.card.offers # {}
  <2>1. tlScroll = JumpToBottom(n)
    BY <1>7 DEF TlInv, items, n
  <2>2. r.from < i /\ i <= r.upto /\ i \in Int
    <3>1. i \in Int
      BY <1>1, TlAssumption, Rounded DEF Less
    <3> QED
      BY <1>1, <1>7, <2>1, <3>1, TlRangeAtBottom DEF r
  <2>3. i - r.from \in 1..(r.upto - r.from) /\ r.from + (i - r.from) = i
    BY <1>3, <2>2
  <2> DEFINE c == [place |-> i, card |-> Card(items[i]), marked |-> i \in tlSelected]
  <2>4. drawn[i - r.from] = c
    BY <2>3 DEF drawn
  <2>5. c \in ToSet(drawn)
    BY <1>5, <2>3, <2>4 DEF ToSet
  <2>6. (items[i].kind = "approval" /\ items[i].decision = Undecided) => Card(items[i]).offers # {}
    BY DEF Card, ApprovalCard, ApprovalOffers
  <2> HIDE DEF c
  <2>7. c.place = i /\ c.card = Card(items[i])
    BY DEF c
  <2> QED
    BY <2>5, <2>6, <2>7
<1> QED
  BY <1>4, <1>6, <1>7 DEF TlInReach, items, n

LEMMA TlStepKeeps == TlInv /\ [TlNext]_tlVars => TlInv'
<1> SUFFICES ASSUME TlInv, [TlNext]_tlVars PROVE TlInv'
  OBVIOUS
<1>1. \A n \in Nat : JumpToBottom(n) \in Nat
  BY TlAssumption DEF JumpToBottom, Less
\* An event counts the items of its thread, and the position follows their end.
<1>2. ASSUME NEW t \in TlThreads, NEW items \in Seq(TlItemRecs), tlItems' = [tlItems EXCEPT ![t] = items], TlCount(t)
      PROVE  TlInv'
  <2>1. tlItems' \in [TlThreads -> Seq(TlItemRecs)] /\ tlItems'[t] = items
    BY <1>2 DEF TlInv
  <2>2. Len(items) \in Nat
    OBVIOUS
  <2> QED
    BY <1>1, <1>2, <2>1, <2>2 DEF TlInv, TlCount
<1>3. CASE TlNewItem
  <2>1. PICK t \in TlThreads, kind \in TlKinds :
          tlItems' = [tlItems EXCEPT ![t] = Append(tlItems[t], TlItem(kind))] /\ TlCount(t)
    BY <1>3 DEF TlNewItem
  <2>2. TlItem(kind) \in TlItemRecs
    <3>1. /\ << >> \in Seq({"Pending", "Completed", "Failed"})
          /\ <<"Pending">> \in Seq({"Pending", "Completed", "Failed"})
      OBVIOUS
    <3> QED
      BY <3>1 DEF TlItem, TlItemRecs
  <2>3. Append(tlItems[t], TlItem(kind)) \in Seq(TlItemRecs)
    BY <2>2 DEF TlInv
  <2> QED
    BY <1>2, <2>1, <2>3
<1>4. CASE TlLastGrows
  <2>1. PICK t \in TlThreads :
          /\ tlItems[t] # << >>
          /\ \E item \in Grown(Last(tlItems[t])) : tlItems' = [tlItems EXCEPT ![t] = Front(tlItems[t]) \o <<item>>]
          /\ TlCount(t)
    BY <1>4 DEF TlLastGrows
  <2>2. PICK item \in Grown(Last(tlItems[t])) : tlItems' = [tlItems EXCEPT ![t] = Front(tlItems[t]) \o <<item>>]
    BY <2>1
  <2>3. /\ tlItems[t] \in Seq(TlItemRecs) /\ Len(tlItems[t]) \in Nat /\ Len(tlItems[t]) > 0
        /\ Last(tlItems[t]) \in TlItemRecs
    BY <2>1, LenProperties, EmptySeq DEF TlInv, Last
  <2>4. item \in TlItemRecs
    <3> DEFINE last == Last(tlItems[t])
    <3> HIDE DEF last
    <3>1. last \in TlItemRecs /\ item \in Grown(last)
      BY <2>3 DEF last
    <3>2. \/ item \in {[last EXCEPT !.steps[i] = s] : i \in {j \in DOMAIN last.steps : last.steps[j] = "Pending"},
                                                     s \in {"Completed", "Failed"}}
          \/ item = [last EXCEPT !.status = "Completed"]
      BY <3>1 DEF Grown
    <3>3. CASE item = [last EXCEPT !.status = "Completed"]
      BY <3>1, <3>3 DEF TlItemRecs
    <3>4. ASSUME NEW i \in DOMAIN last.steps, NEW s \in {"Completed", "Failed"}, item = [last EXCEPT !.steps[i] = s]
          PROVE  item \in TlItemRecs
      <4>1. last.steps \in Seq({"Pending", "Completed", "Failed"})
        BY <3>1 DEF TlItemRecs
      <4>2. [last.steps EXCEPT ![i] = s] \in Seq({"Pending", "Completed", "Failed"})
        BY <4>1, <3>4, ExceptSeq
      <4> DEFINE steps == [last.steps EXCEPT ![i] = s]
      <4>3. item = [last EXCEPT !.steps = steps]
        BY <3>4
      <4> HIDE DEF steps
      <4> QED
        BY <3>1, <4>2, <4>3 DEF TlItemRecs, steps
    <3> QED
      BY <3>2, <3>3, <3>4
  <2>5. Front(tlItems[t]) \o <<item>> \in Seq(TlItemRecs)
    <3>1. Front(tlItems[t]) \in Seq(TlItemRecs)
      BY <2>3, SubSeqProperties DEF Front
    <3>2. <<item>> \in Seq(TlItemRecs)
      BY <2>4
    <3> QED
      BY <3>1, <3>2, ConcatProperties
  <2> QED
    BY <1>2, <2>1, <2>2, <2>5
<1>5. CASE TlDecided
  <2>1. PICK t \in TlThreads, d \in TlDecisions :
          \E i \in DOMAIN tlItems[t] : tlItems' = [tlItems EXCEPT ![t][i].decision = d] /\ TlCount(t)
    BY <1>5 DEF TlDecided
  <2>2. PICK i \in DOMAIN tlItems[t] : tlItems' = [tlItems EXCEPT ![t][i].decision = d] /\ TlCount(t)
    BY <2>1
  <2>3. tlItems[t] \in Seq(TlItemRecs) /\ tlItems[t][i] \in TlItemRecs
    BY <2>2, ElementOfSeq, LenProperties DEF TlInv
  <2> DEFINE item == [tlItems[t][i] EXCEPT !.decision = d]
             items == [tlItems[t] EXCEPT ![i] = item]
  <2>4. item \in TlItemRecs
    BY <2>3 DEF TlItemRecs
  <2>5. tlItems' = [tlItems EXCEPT ![t] = items]
    BY <2>2
  <2> HIDE DEF item
  <2>6. items \in Seq(TlItemRecs)
    BY <2>2, <2>3, <2>4, ExceptSeq
  <2> HIDE DEF items
  <2> QED
    BY <1>2, <2>2, <2>5, <2>6
<1>6. CASE TlSelectThread
  <2>1. PICK t \in TlThreads :
          tlShown' = t /\ tlScroll' = JumpToBottom(Len(tlItems[t])) /\ tlCounted' = t /\ tlItems' = tlItems
    BY <1>6 DEF TlSelectThread
  <2>2. Len(tlItems[t]) \in Nat
    BY DEF TlInv
  <2> QED
    BY <1>1, <2>1, <2>2 DEF TlInv
<1>7. CASE UNCHANGED <<tlItems, tlShown, tlScroll, tlCounted>>
  BY <1>7 DEF TlInv
<1> QED
  BY <1>3, <1>4, <1>5, <1>6, <1>7 DEF TlNext, TlSelectItem, TlAnswer, tlVars

(* For any heights of an item and of the viewport, any items and threads: what *)
(* fits above the end of the shown transcript is drawn and can be answered,   *)
(* and drawn items and spacers make up its height (timeline.rs, app_view.rs). *)
THEOREM TlEndInReach == TlSpec => []TlInReach
<1>1. TlInit => TlInv
  BY TlAssumption DEF TlInit, TlInv, JumpToBottom, Less
<1>2. TlInv /\ [TlNext]_tlVars => TlInv'
  BY TlStepKeeps
<1>3. TlInv => TlInReach
  BY TlInvReaches
<1> QED
  BY <1>1, <1>2, <1>3, PTL DEF TlSpec

-----------------------------------------------------------------------------
(* The draft.  Attachments are known by the order in which they were made;    *)
(* each import is of another one, and none of those that were given up.       *)
CpOffered(p) == ToSet(CpModels[p])
CpTurnRecs ==
  [thread : CpThreads, files : Seq(Nat), provider : CpProviders, model : UNION {CpOffered(p) : p \in CpProviders}]
CpImporting == {i.file : i \in cpImports}

CpTypes ==
  /\ cpMade \in Nat /\ cpActive \in CpThreads
  /\ cpHas \in Seq(Nat) /\ ToSet(cpHas) \subseteq 1..cpMade
  /\ cpSent \in Seq(CpTurnRecs) /\ \A n \in DOMAIN cpSent : ToSet(cpSent[n].files) \subseteq 1..cpMade
  /\ cpGone \subseteq 1..cpMade /\ CpImporting \subseteq 1..cpMade
  /\ cpPick = [provider |-> cpPick.provider, model |-> cpPick.model, effort |-> cpPick.effort]
  /\ cpPick.provider \in CpProviders /\ cpPick.model \in CpOffered(cpPick.provider)
CpApart ==
  /\ \A i, j \in cpImports : i.file = j.file => i = j
  /\ CpImporting \cap cpGone = {}

\* CpSentOnce, of the draft and of the turns.
CpDraftOnce == IsInjective(cpHas) /\ ToSet(cpHas) \cap (cpGone \cup CpImporting) = {}
CpTurnsOnce ==
  \A n \in DOMAIN cpSent :
    /\ IsInjective(cpSent[n].files)
    /\ ToSet(cpSent[n].files) \cap (ToSet(cpHas) \cup cpGone \cup CpImporting) = {}
    /\ \A m \in DOMAIN cpSent \ {n} : ToSet(cpSent[n].files) \cap ToSet(cpSent[m].files) = {}
    /\ cpSent[n].model \in CpOffered(cpSent[n].provider)
CpInv == CpTypes /\ CpApart /\ CpDraftOnce /\ CpTurnsOnce

LEMMA CpInvOnce == CpInv => CpSentOnce
<1> SUFFICES ASSUME CpInv PROVE CpSentOnce
  OBVIOUS
<1>1. CpDraftOnce /\ CpTurnsOnce
  BY DEF CpInv
<1> QED
  BY <1>1 DEF CpSentOnce, CpDraftOnce, CpTurnsOnce, CpOffered, CpImporting

LEMMA CpRemainder ==
  ASSUME NEW a \in Nat, NEW b \in Nat \ {0}
  PROVE  (a % b) + 1 \in 1..b
BY Z3

\* The model or provider after one, whichever it is, is one of the list.
LEMMA CpAfterOffered ==
  ASSUME NEW seq, NEW x, Len(seq) \in Nat \ {0}, DOMAIN seq = 1..Len(seq)
  PROVE  CpAfter(seq, x) \in ToSet(seq)
<1> DEFINE at == {i \in DOMAIN seq : seq[i] = x}
           from == IF at = {} THEN 1 ELSE Min(at)
<1>1. from \in Nat
  <2>1. CASE at # {}
    <3>1. at \subseteq Nat
      OBVIOUS
    <3> HIDE DEF at
    <3>2. PICK k \in at : \A j \in at : k <= j
      BY <2>1, <3>1, Smallest
    <3>3. Min(at) \in at
      BY <3>2 DEF Min
    <3> QED
      BY <2>1, <3>1, <3>3
  <2>2. CASE at = {}
    BY <2>2
  <2> QED
    BY <2>1, <2>2
<1>2. CpAfter(seq, x) = seq[(from % Len(seq)) + 1]
  BY DEF CpAfter
<1> HIDE DEF from
<1>3. (from % Len(seq)) + 1 \in DOMAIN seq
  BY <1>1, CpRemainder
<1> QED
  BY <1>2, <1>3 DEF ToSet

LEMMA CpStarts == CpInit => CpInv
<1> SUFFICES ASSUME CpInit PROVE CpInv
  OBVIOUS
<1>1. 1 \in DOMAIN CpModels /\ 1 \in DOMAIN CpModels[1]
  BY CpAssumption
<1>2. CpModels[1][1] \in CpOffered(1)
  BY <1>1 DEF CpOffered, ToSet
<1>3. cpHas = << >> /\ cpSent = << >> /\ cpGone = {} /\ cpImports = {} /\ cpMade = 0 /\ cpActive \in CpThreads
  BY DEF CpInit
<1>4. ToSet(cpHas) = {} /\ IsInjective(cpHas) /\ CpImporting = {}
  BY <1>3 DEF ToSet, IsInjective, CpImporting
<1>5. CpTypes
  BY <1>1, <1>2, <1>3, <1>4 DEF CpTypes, CpInit, CpProviders
<1> QED
  BY <1>3, <1>4, <1>5 DEF CpInv, CpApart, CpDraftOnce, CpTurnsOnce

(* Files that are taken out of the draft, or of the imports, are gone.        *)
LEMMA CpTakenOut ==
  ASSUME CpInv, UNCHANGED <<cpActive, cpMade, cpPick, cpSent>>,
         cpHas' \in Seq(Nat), ToSet(cpHas') \subseteq ToSet(cpHas), IsInjective(cpHas'),
         cpImports' \subseteq cpImports,
         cpGone' \subseteq cpGone \cup (ToSet(cpHas) \ ToSet(cpHas')) \cup (CpImporting \ CpImporting')
  PROVE  CpInv'
<1>1. CpImporting' \subseteq CpImporting
  BY DEF CpImporting
<1>2. CpTypes'
  BY <1>1 DEF CpInv, CpTypes
<1>3. CpApart'
  BY <1>1 DEF CpInv, CpApart, CpDraftOnce
<1>4. CpDraftOnce'
  BY <1>1 DEF CpInv, CpDraftOnce, CpApart
<1>5. CpTurnsOnce'
  BY <1>1 DEF CpInv, CpTurnsOnce
<1> QED
  BY <1>2, <1>3, <1>4, <1>5 DEF CpInv

LEMMA CpWithout ==
  ASSUME NEW seq \in Seq(Nat), NEW n \in Nat, Len(seq) = n, NEW i \in 1..n
  PROVE  LET rest == RemoveAt(seq, i)
         IN /\ rest \in Seq(Nat) /\ Len(rest) = n - 1
            /\ \A k \in 1..(n - 1) : rest[k] = seq[IF k < i THEN k ELSE k + 1]
<1> DEFINE front == SubSeq(seq, 1, i - 1)
           back == SubSeq(seq, i + 1, n)
           rest == RemoveAt(seq, i)
<1>1. \A k \in 1..n : seq[k] \in Nat
  BY ElementOfSeq
<1>2. /\ front \in Seq(Nat) /\ Len(front) = i - 1
      /\ \A k \in 1..(i - 1) : front[k] = seq[k]
  <2>1. \A k \in 1..(i - 1) : seq[k] \in Nat
    BY <1>1
  <2>2. /\ front \in Seq(Nat) /\ Len(front) = IF 1 <= i - 1 THEN (i - 1) - 1 + 1 ELSE 0
        /\ \A k \in 1..((i - 1) - 1 + 1) : front[k] = seq[1 + k - 1]
    BY <2>1, SubSeqProperties
  <2> HIDE DEF front
  <2> QED
    BY <2>2
<1>3. back \in Seq(Nat) /\ Len(back) = n - i
      /\ \A k \in 1..(n - i) : back[k] = seq[i + k]
  <2>1. \A k \in (i + 1)..n : seq[k] \in Nat
    BY <1>1
  <2>2. /\ back \in Seq(Nat) /\ Len(back) = IF i + 1 <= n THEN n - (i + 1) + 1 ELSE 0
        /\ \A k \in 1..(n - (i + 1) + 1) : back[k] = seq[(i + 1) + k - 1]
    BY <2>1, SubSeqProperties
  <2> HIDE DEF back
  <2>3. Len(back) = n - i
    BY <2>2
  <2>4. ASSUME NEW k \in 1..(n - i) PROVE back[k] = seq[i + k]
    <3>1. k \in 1..(n - (i + 1) + 1) /\ (i + 1) + k - 1 = i + k
      OBVIOUS
    <3> QED
      BY <2>2, <3>1
  <2> QED
    BY <2>2, <2>3, <2>4
<1>4. rest = front \o back
  BY DEF RemoveAt
<1> HIDE DEF front, back, rest
<1>5. /\ rest \in Seq(Nat) /\ Len(rest) = Len(front) + Len(back)
      /\ \A k \in 1..(Len(front) + Len(back)) : rest[k] = IF k <= Len(front) THEN front[k] ELSE back[k - Len(front)]
  BY <1>2, <1>3, <1>4, ConcatProperties
<1>6. (i - 1) + (n - i) = n - 1
  OBVIOUS
<1>7. ASSUME NEW k \in 1..(n - 1) PROVE rest[k] = seq[IF k < i THEN k ELSE k + 1]
  <2>1. rest[k] = IF k <= i - 1 THEN front[k] ELSE back[k - (i - 1)]
    BY <1>2, <1>3, <1>5, <1>6
  <2>2. CASE k < i
    <3>1. k \in 1..(i - 1) /\ k <= i - 1
      BY <2>2
    <3> QED
      BY <1>2, <2>1, <2>2, <3>1
  <2>3. CASE ~(k < i)
    <3>1. k - (i - 1) \in 1..(n - i) /\ i + (k - (i - 1)) = k + 1 /\ ~(k <= i - 1)
      BY <2>3
    <3> QED
      BY <1>3, <2>1, <2>3, <3>1
  <2> QED
    BY <2>2, <2>3
<1> QED
  BY <1>2, <1>3, <1>5, <1>6, <1>7 DEF rest

LEMMA CpRemoveKeeps ==
  ASSUME CpInv, NEW i \in DOMAIN cpHas, CpRemove(i)
  PROVE  CpInv'
<1> DEFINE n == Len(cpHas)
           rest == RemoveAt(cpHas, i)
           old(k) == IF k < i THEN k ELSE k + 1
<1>1. cpHas \in Seq(Nat) /\ n \in Nat /\ DOMAIN cpHas = 1..n /\ i \in 1..n
  BY LenProperties DEF CpInv, CpTypes
<1>2. /\ cpHas' = rest /\ cpGone' = cpGone \cup {cpHas[i]}
      /\ UNCHANGED <<cpActive, cpText, cpMade, cpImports, cpPick, cpSent>>
  BY DEF CpRemove
<1>3. rest \in Seq(Nat) /\ Len(rest) = n - 1 /\ \A k \in 1..(n - 1) : rest[k] = cpHas[old(k)]
  BY <1>1, CpWithout
<1> HIDE DEF rest, n
<1>4. DOMAIN rest = 1..(n - 1)
  BY <1>3, LenProperties
<1>5. /\ \A k \in 1..(n - 1) : old(k) \in 1..n /\ old(k) # i
      /\ \A j, k \in 1..(n - 1) : old(j) = old(k) => j = k
  BY <1>1
<1> HIDE DEF old
<1>6. \A j, k \in 1..n : cpHas[j] = cpHas[k] => j = k
  BY <1>1 DEF CpInv, CpDraftOnce, IsInjective
<1>7. IsInjective(rest)
  BY <1>3, <1>4, <1>5, <1>6 DEF IsInjective
<1>8. ToSet(rest) \subseteq ToSet(cpHas)
  BY <1>1, <1>3, <1>4, <1>5 DEF ToSet
<1>9. cpHas[i] \notin ToSet(rest)
  BY <1>1, <1>3, <1>4, <1>5, <1>6 DEF ToSet
<1>10. cpHas[i] \in ToSet(cpHas)
  BY DEF ToSet
<1>11. CpImporting' = CpImporting
  BY <1>2 DEF CpImporting
<1> QED
  BY <1>2, <1>3, <1>7, <1>8, <1>9, <1>10, <1>11, CpTakenOut

LEMMA CpStepKeeps == CpInv /\ [CpNext]_cpVars => CpInv'
<1> SUFFICES ASSUME CpInv, [CpNext]_cpVars PROVE CpInv'
  OBVIOUS
<1>0. /\ cpHas \in Seq(Nat) /\ cpSent \in Seq(CpTurnRecs) /\ cpMade \in Nat /\ IsInjective(cpHas)
      /\ Len(cpSent) \in Nat /\ DOMAIN cpSent = 1..Len(cpSent) /\ Len(cpHas) \in Nat /\ DOMAIN cpHas = 1..Len(cpHas)
  BY LenProperties DEF CpInv, CpTypes, CpDraftOnce
<1>1. CASE \/ UNCHANGED cpVars \/ CpType
           \/ CpSelectThread
  <2>1. UNCHANGED <<cpHas, cpMade, cpGone, cpImports, cpPick, cpSent>> /\ cpActive' \in CpThreads
    BY <1>1 DEF cpVars, CpType, CpSelectThread, CpInv, CpTypes
  <2> QED
    BY <2>1 DEF CpInv, CpTypes, CpApart, CpDraftOnce, CpTurnsOnce, CpImporting
<1>2. CASE CpAttach
  <2> DEFINE new == [file |-> cpMade + 1, thread |-> cpActive]
  <2>1. /\ cpMade' = cpMade + 1 /\ cpImports' = cpImports \cup {new}
        /\ UNCHANGED <<cpActive, cpHas, cpGone, cpPick, cpSent>>
    BY <1>2 DEF CpAttach
  <2>2. CpImporting' = CpImporting \cup {cpMade + 1}
    <3>1. new.file = cpMade + 1
      OBVIOUS
    <3> HIDE DEF new
    <3> QED
      BY <2>1, <3>1 DEF CpImporting
  <2>3. 1..cpMade \subseteq 1..cpMade' /\ cpMade + 1 \notin 1..cpMade /\ cpMade + 1 \in 1..cpMade' /\ cpMade' \in Nat
    BY <1>0, <2>1
  <2>4. CpTypes'
    <3>1. CpImporting \subseteq 1..cpMade /\ cpGone \subseteq 1..cpMade /\ ToSet(cpHas) \subseteq 1..cpMade
      BY DEF CpInv, CpTypes
    <3>2. CpImporting' \subseteq 1..cpMade' /\ cpGone' \subseteq 1..cpMade' /\ ToSet(cpHas') \subseteq 1..cpMade'
      BY <2>1, <2>2, <2>3, <3>1
    <3>3. \A n \in DOMAIN cpSent' : ToSet(cpSent'[n].files) \subseteq 1..cpMade'
      BY <2>1, <2>3 DEF CpInv, CpTypes
    <3> QED
      BY <2>1, <2>3, <3>2, <3>3 DEF CpInv, CpTypes
  <2>5. CpApart'
    <3>1. \A i \in cpImports : i.file \in 1..cpMade
      BY DEF CpInv, CpTypes, CpImporting
    <3>2. new.file = cpMade + 1
      OBVIOUS
    <3> HIDE DEF new
    <3>3. \A i, j \in cpImports' : i.file = j.file => i = j
      BY <2>1, <2>3, <3>1, <3>2 DEF CpInv, CpApart
    <3> QED
      BY <2>1, <2>2, <2>3, <3>3 DEF CpInv, CpApart, CpTypes
  <2>6. CpDraftOnce' /\ CpTurnsOnce'
    <3>1. ToSet(cpHas) \subseteq 1..cpMade /\ \A n \in DOMAIN cpSent : ToSet(cpSent[n].files) \subseteq 1..cpMade
      BY DEF CpInv, CpTypes
    <3>2. CpDraftOnce'
      BY <2>1, <2>2, <2>3, <3>1 DEF CpInv, CpDraftOnce
    <3>3. CpTurnsOnce'
      BY <2>1, <2>2, <2>3, <3>1 DEF CpInv, CpTurnsOnce
    <3> QED
      BY <3>2, <3>3
  <2> QED
    BY <2>4, <2>5, <2>6 DEF CpInv
<1>3. CASE CpClear
  <2>1. cpHas' = << >> /\ cpGone' = cpGone \cup ToSet(cpHas) /\ UNCHANGED <<cpActive, cpMade, cpImports, cpPick, cpSent>>
    BY <1>3 DEF CpClear
  <2>2. ToSet(cpHas') = {} /\ IsInjective(cpHas') /\ cpHas' \in Seq(Nat)
    BY <2>1 DEF ToSet, IsInjective
  <2>3. CpImporting' = CpImporting
    BY <2>1 DEF CpImporting
  <2> QED
    BY <2>1, <2>2, <2>3, CpTakenOut
<1>4. CASE CpCycle
  <2>1. UNCHANGED <<cpActive, cpHas, cpMade, cpGone, cpImports, cpSent>>
    BY <1>4 DEF CpCycle
  <2>2. cpPick = [provider |-> cpPick.provider, model |-> cpPick.model, effort |-> cpPick.effort]
        /\ cpPick.provider \in CpProviders /\ cpPick.model \in CpOffered(cpPick.provider)
    BY DEF CpInv, CpTypes
  <2>3. \A p \in CpProviders : Len(CpModels[p]) \in Nat \ {0} /\ DOMAIN CpModels[p] = 1..Len(CpModels[p])
    BY CpAssumption DEF CpProviders
  <2>4. /\ cpPick' = [provider |-> cpPick'.provider, model |-> cpPick'.model, effort |-> cpPick'.effort]
        /\ cpPick'.provider \in CpProviders /\ cpPick'.model \in CpOffered(cpPick'.provider)
    <3> DEFINE p == (cpPick.provider % Len(CpModels)) + 1
               after == CpAfter(CpModels[cpPick.provider], cpPick.model)
               effort == CpAfter(CpEfforts, cpPick.effort)
    <3>1. \/ cpPick' = [cpPick EXCEPT !.provider = p, !.model = CpModels[p][1]]
          \/ cpPick' = [cpPick EXCEPT !.model = after]
          \/ cpPick' = [cpPick EXCEPT !.effort = effort]
      BY <1>4 DEF CpCycle
    <3>2. p \in CpProviders
      BY <2>2, CpAssumption, CpRemainder DEF CpProviders
    <3> HIDE DEF p
    <3>3. CpModels[p][1] \in CpOffered(p)
      BY <2>3, <3>2 DEF CpOffered, ToSet
    <3>4. after \in CpOffered(cpPick.provider)
      BY <2>2, <2>3, CpAfterOffered DEF CpOffered
    <3> HIDE DEF after, effort
    <3> DEFINE first == CpModels[p][1]
    <3> HIDE DEF first
    <3>5. CASE cpPick' = [cpPick EXCEPT !.provider = p, !.model = first]
      <4>1. cpPick' = [provider |-> p, model |-> first, effort |-> cpPick.effort]
        BY <2>2, <3>5
      <4> QED
        BY <3>2, <3>3, <4>1 DEF first
    <3>6. CASE cpPick' = [cpPick EXCEPT !.model = after]
      <4>1. cpPick' = [provider |-> cpPick.provider, model |-> after, effort |-> cpPick.effort]
        BY <2>2, <3>6
      <4> QED
        BY <2>2, <3>4, <4>1
    <3>7. CASE cpPick' = [cpPick EXCEPT !.effort = effort]
      <4>1. cpPick' = [provider |-> cpPick.provider, model |-> cpPick.model, effort |-> effort]
        BY <2>2, <3>7
      <4> QED
        BY <2>2, <4>1
    <3> QED
      BY <3>1, <3>5, <3>6, <3>7 DEF first
  <2> QED
    BY <2>1, <2>4 DEF CpInv, CpTypes, CpApart, CpDraftOnce, CpTurnsOnce, CpImporting
<1>5. CASE CpSend
  <2> DEFINE turn == [thread |-> cpActive, files |-> cpHas, provider |-> cpPick.provider, model |-> cpPick.model]
             last == Len(cpSent) + 1
  <2>1. /\ cpSent' = Append(cpSent, turn) /\ cpHas' = << >>
        /\ UNCHANGED <<cpActive, cpMade, cpGone, cpImports, cpPick>>
    BY <1>5 DEF CpSend, CpAfterSend
  <2>2. turn \in CpTurnRecs /\ turn.files = cpHas /\ turn.model \in CpOffered(turn.provider)
    BY DEF CpInv, CpTypes, CpTurnRecs
  <2> HIDE DEF turn
  <2>3. /\ cpSent' \in Seq(CpTurnRecs) /\ DOMAIN cpSent' = DOMAIN cpSent \cup {last} /\ last \notin DOMAIN cpSent
        /\ cpSent'[last] = turn /\ \A n \in DOMAIN cpSent : cpSent'[n] = cpSent[n]
    BY <1>0, <2>1, <2>2, AppendProperties
  <2> HIDE DEF last
  <2>4. ToSet(cpHas') = {} /\ IsInjective(cpHas') /\ cpHas' \in Seq(Nat) /\ CpImporting' = CpImporting
    BY <2>1 DEF ToSet, IsInjective, CpImporting
  <2>5. CpTypes'
    <3>1. \A n \in DOMAIN cpSent' : ToSet(cpSent'[n].files) \subseteq 1..cpMade'
      BY <2>1, <2>2, <2>3 DEF CpInv, CpTypes
    <3> QED
      BY <2>1, <2>3, <2>4, <3>1 DEF CpInv, CpTypes
  <2>6. CpApart' /\ CpDraftOnce'
    BY <2>1, <2>4 DEF CpInv, CpApart, CpDraftOnce
  <2>7. \A n \in DOMAIN cpSent : ToSet(cpSent[n].files) \cap ToSet(cpHas) = {}
    BY DEF CpInv, CpTurnsOnce
  <2>8. CpTurnsOnce'
    <3> SUFFICES ASSUME NEW n \in DOMAIN cpSent'
                 PROVE  /\ IsInjective(cpSent'[n].files)
                        /\ ToSet(cpSent'[n].files) \cap (cpGone \cup CpImporting) = {}
                        /\ \A m \in DOMAIN cpSent' \ {n} : ToSet(cpSent'[n].files) \cap ToSet(cpSent'[m].files) = {}
                        /\ cpSent'[n].model \in CpOffered(cpSent'[n].provider)
      BY <2>1, <2>4 DEF CpTurnsOnce
    <3>1. CASE n = last
      BY <2>2, <2>3, <2>7, <3>1 DEF CpInv, CpDraftOnce
    <3>2. CASE n # last
      BY <2>2, <2>3, <2>7, <3>2 DEF CpInv, CpTurnsOnce
    <3> QED
      BY <3>1, <3>2
  <2> QED
    BY <2>5, <2>6, <2>8 DEF CpInv
<1>6. ASSUME NEW i \in cpImports, CpAttached(i) PROVE CpInv'
  <2>1. /\ cpHas' = CpAdded(i.file) /\ cpImports' = cpImports \ {i}
        /\ UNCHANGED <<cpActive, cpMade, cpGone, cpPick, cpSent>>
    BY <1>6 DEF CpAttached
  <2>2. i.file \in CpImporting /\ i.file \in 1..cpMade /\ i.file \in Nat /\ i.file \notin ToSet(cpHas) /\ i.file \notin cpGone
    <3>1. i.file \in CpImporting
      BY DEF CpImporting
    <3>2. CpImporting \subseteq 1..cpMade /\ CpImporting \cap ToSet(cpHas) = {} /\ CpImporting \cap cpGone = {}
      BY DEF CpInv, CpTypes, CpDraftOnce, CpApart
    <3>3. i.file \in 1..cpMade /\ i.file \notin ToSet(cpHas) /\ i.file \notin cpGone
      BY <3>1, <3>2
    <3> QED
      BY <1>0, <3>1, <3>3
  <2>3. cpHas' = Append(cpHas, i.file)
    BY <2>1, <2>2 DEF CpAdded
  <2>4. CpImporting' = CpImporting \ {i.file}
    BY <2>1 DEF CpInv, CpImporting, CpApart
  <2>5. cpHas' \in Seq(Nat) /\ ToSet(cpHas') = ToSet(cpHas) \cup {i.file} /\ IsInjective(cpHas')
    <3>1. /\ cpHas' \in Seq(Nat) /\ DOMAIN cpHas' = DOMAIN cpHas \cup {Len(cpHas) + 1} /\ cpHas'[Len(cpHas) + 1] = i.file
          /\ \A k \in DOMAIN cpHas : cpHas'[k] = cpHas[k]
      BY <1>0, <2>2, <2>3, AppendProperties
    <3>2. \A k \in DOMAIN cpHas : cpHas[k] # i.file
      BY <2>2 DEF ToSet
    <3> QED
      BY <1>0, <3>1, <3>2 DEF ToSet, IsInjective
  <2>6. CpTypes' /\ CpApart' /\ CpDraftOnce' /\ CpTurnsOnce'
    <3>1. CpTypes'
      BY <2>1, <2>2, <2>4, <2>5 DEF CpInv, CpTypes
    <3>2. CpApart'
      BY <2>1, <2>4 DEF CpInv, CpApart
    <3>3. CpDraftOnce'
      BY <2>1, <2>2, <2>4, <2>5 DEF CpInv, CpDraftOnce
    <3>4. CpTurnsOnce'
      <4>1. ToSet(cpHas') \cup cpGone' \cup CpImporting' \subseteq ToSet(cpHas) \cup cpGone \cup CpImporting
        BY <2>1, <2>2, <2>4, <2>5
      <4> QED
        BY <2>1, <4>1 DEF CpInv, CpTurnsOnce
    <3> QED
      BY <3>1, <3>2, <3>3, <3>4
  <2> QED
    BY <2>6 DEF CpInv
<1>7. ASSUME NEW i \in cpImports, CpAttachFails(i) PROVE CpInv'
  <2>1. /\ cpImports' = cpImports \ {i} /\ cpGone' = cpGone \cup {i.file}
        /\ UNCHANGED <<cpActive, cpHas, cpMade, cpPick, cpSent>>
    BY <1>7 DEF CpAttachFails
  <2>2. i.file \in CpImporting \ CpImporting'
    BY <2>1 DEF CpInv, CpImporting, CpApart
  <2> QED
    BY <1>0, <2>1, <2>2, CpTakenOut
<1>8. ASSUME NEW i \in DOMAIN cpHas, CpRemove(i) PROVE CpInv'
  BY <1>8, CpRemoveKeeps
<1> QED
  BY <1>1, <1>2, <1>3, <1>4, <1>5, <1>6, <1>7, <1>8 DEF CpNext

(* For any threads, models, attachments and turns: however imports, edits and *)
(* sends cross, an attachment goes with one turn at most and never after it   *)
(* was taken out, and the model sent is the provider's (composer.rs,          *)
(* picker.rs).                                                                *)
THEOREM CpGoesOnce == CpSpec => []CpSentOnce
<1>1. CpInit => CpInv
  BY CpStarts
<1>2. CpInv /\ [CpNext]_cpVars => CpInv'
  BY CpStepKeeps
<1>3. CpInv => CpSentOnce
  BY CpInvOnce
<1> QED
  BY <1>1, <1>2, <1>3, PTL DEF CpSpec
=============================================================================
