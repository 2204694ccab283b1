------------------------------ MODULE MCProgress ------------------------------
(* Components whose threads, tasks and calls must come to an end: the calls   *)
(* on a thread, terminals, uploads, ssh remotes, provider processes.  They    *)
(* share no state, so a behaviour of this module is one of the component      *)
(* named "part"; the others stay at their initial states.                     *)
EXTENDS ThreadLifecycle, Terminals, AttachmentUpload, SshRemote, ProviderSession

VARIABLE part

Parts == {"thread", "terminals", "uploads", "ssh", "providers"}
allVars == <<vars, tVars, upVars, shVars, pvVars, part>>

PartsInit ==
  /\ part \in Parts
  /\ Init /\ TermInit /\ UpInit /\ ShInit /\ PvInit
  /\ part # "ssh" => shNode.runtime = "none"
  /\ part # "providers" => pvKind = "codex" /\ pvInstr

PartsNext ==
  /\ UNCHANGED part
  /\ \/ part = "thread"    /\ Next     /\ UNCHANGED <<tVars, upVars, shVars, pvVars>>
     \/ part = "terminals" /\ TermNext /\ UNCHANGED <<vars, upVars, shVars, pvVars>>
     \/ part = "uploads"   /\ UpNext   /\ UNCHANGED <<vars, tVars, shVars, pvVars>>
     \/ part = "ssh"       /\ ShNext   /\ UNCHANGED <<vars, tVars, upVars, pvVars>>
     \/ part = "providers" /\ PvNext   /\ UNCHANGED <<vars, tVars, upVars, shVars>>

-----------------------------------------------------------------------------
(* Fairness: threads, tasks and commands under way go on; clients, children   *)
(* and faults need not come.                                                  *)

(* The conjuncts of ThreadLifecycle's Fairness.                               *)
ThreadFair ==
  /\ \A t \in Turns : /\ WF_vars(part = "thread" /\ SendProgress(t))
                      /\ WF_vars(part = "thread" /\ Stream(t))
  /\ \A a \in Answers : WF_vars(part = "thread" /\ AnswerProgress(a))
  /\ \A c \in Cancels : WF_vars(part = "thread" /\ CancelProgress(c))
  /\ \A p \in Actors : WF_vars(part = "thread" /\ Broadcast(p))
  /\ WF_vars(part = "thread" /\ ProviderFinish)
  /\ WF_vars(part = "thread" /\ Restart)

(* The drain threads run, a blocked input returns once its child is gone.     *)
TermFair ==
  /\ \A g \in TermGens :
       /\ SF_tVars(part = "terminals" /\ TermDrainTop(g) /\ UNCHANGED <<tGen, tOpening, tSession, tInput, tView>>)
       /\ WF_tVars(part = "terminals" /\ TermDrainWait(g) /\ UNCHANGED <<tGen, tOpening, tSession, tInput, tView>>)
  /\ WF_tVars(/\ part = "terminals" /\ tInput # 0 /\ tTerm[tInput].child = "exited"
              /\ TermInputEnd)

(* A sender goes on to its next chunk.                                        *)
UpFair == \A s \in UpSenders : WF_upVars(part = "uploads" /\ UpSend(s))

(* Commands and dials end, and who waits for a slot's mutex gets it.          *)
ShFair == \A u \in ShUsers : WF_shVars(part = "ssh" /\ ShUserStep(u))

(* The parser task and the taker of its events run.                           *)
PvFair ==
  /\ WF_pvVars(part = "providers" /\ PvParse)
  /\ WF_pvVars(part = "providers" /\ PvParserEnds)
  /\ WF_pvVars(part = "providers" /\ PvTake)
  /\ WF_pvVars(part = "providers" /\ PvTakeEnd)

PartsSpec ==
  PartsInit /\ [][PartsNext]_allVars /\ ThreadFair /\ TermFair /\ UpFair /\ ShFair /\ PvFair
=============================================================================
