------------------------------- MODULE Composer -------------------------------
(* The composer of the desktop (pandamux-desktop/src/composer.rs, picker.rs,  *)
(* and the part of app_view.rs that sends from it): one draft and one picker  *)
(* for the whole window, whichever thread is active, and attachments that     *)
(* join the draft when the server has answered their import or upload.        *)
(*                                                                            *)
(* Left out: where a path comes from beyond "picked, dropped or pasted", and  *)
(* the chunks of an upload (AttachmentUpload).                                *)
EXTENDS Naturals, SequencesExt, FiniteSetsExt, Functions

CONSTANTS
  CpThreads,    \* threads of the window, the first is active at the start
  CpModels,     \* provider -> its models, in the picker's order
  CpMaxFiles,   \* bound: imports and uploads started
  CpMaxTurns    \* bound: turns sent

ASSUME CpAssumption ==
  /\ {CpMaxFiles, CpMaxTurns} \subseteq Nat
  /\ Len(CpModels) \in Nat \ {0} /\ DOMAIN CpModels = 1..Len(CpModels)
  /\ \A p \in DOMAIN CpModels : Len(CpModels[p]) \in Nat \ {0} /\ DOMAIN CpModels[p] = 1..Len(CpModels[p])

VARIABLES
  cpActive,   \* active_thread_id
  cpText,     \* composer.text says something
  cpHas,      \* composer.attachments, in order
  cpMade,     \* attachments made so far, each with an id of its own
  cpGone,     \* attachments taken out by the user or by Clear
  cpImports,  \* under way: attachment and the thread it was imported for
  cpPick,     \* provider, model and effort of the picker
  cpSent      \* turns sent: thread, attachments, provider of the picker, model

cpVars == <<cpActive, cpText, cpHas, cpMade, cpGone, cpImports, cpPick, cpSent>>

CpEfforts == <<"off", "low", "medium", "high", "max">>
CpProviders == DOMAIN CpModels
CpAfter(seq, x) ==
  LET at == {i \in DOMAIN seq : seq[i] = x}
  IN seq[((IF at = {} THEN 1 ELSE Min(at)) % Len(seq)) + 1]

CpInit ==
  /\ cpActive \in CpThreads
  /\ cpText = FALSE /\ cpHas = << >> /\ cpMade = 0 /\ cpGone = {} /\ cpImports = {} /\ cpSent = << >>
  /\ cpPick = [provider |-> 1, model |-> CpModels[1][1], effort |-> "high"]

-----------------------------------------------------------------------------
(* select_thread leaves the composer alone.                                  *)
CpSelectThread ==
  /\ cpActive' \in CpThreads \ {cpActive}
  /\ UNCHANGED <<cpText, cpHas, cpMade, cpGone, cpImports, cpPick, cpSent>>

CpType ==
  /\ cpText' = TRUE
  /\ UNCHANGED <<cpActive, cpHas, cpMade, cpGone, cpImports, cpPick, cpSent>>

(* Picked, dropped or pasted: import_attachment_path and                     *)
(* upload_attachment_chunked, for the thread that is active now.             *)
CpAttach ==
  /\ cpMade < CpMaxFiles
  /\ cpMade' = cpMade + 1
  /\ cpImports' = cpImports \cup {[file |-> cpMade + 1, thread |-> cpActive]}
  /\ UNCHANGED <<cpActive, cpText, cpHas, cpGone, cpPick, cpSent>>

(* add_attachment.                                                           *)
CpAdded(file) == IF file \in ToSet(cpHas) THEN cpHas ELSE Append(cpHas, file)

(* The answer joins the draft, whichever thread is active by now.            *)
CpAttached(i) ==
  /\ i \in cpImports
  /\ cpHas' = CpAdded(i.file)
  /\ cpImports' = cpImports \ {i}
  /\ UNCHANGED <<cpActive, cpText, cpMade, cpGone, cpPick, cpSent>>

CpAttachFails(i) ==
  /\ i \in cpImports
  /\ cpImports' = cpImports \ {i} /\ cpGone' = cpGone \cup {i.file}
  /\ UNCHANGED <<cpActive, cpText, cpHas, cpMade, cpPick, cpSent>>

(* remove_attachment, by an id that is there once.                           *)
CpRemove(i) ==
  /\ cpHas' = RemoveAt(cpHas, i)
  /\ cpGone' = cpGone \cup {cpHas[i]}
  /\ UNCHANGED <<cpActive, cpText, cpMade, cpImports, cpPick, cpSent>>

(* The Clear button, offered when there is something to clear.               *)
CpClear ==
  /\ cpText \/ cpHas # << >>
  /\ cpText' = FALSE /\ cpHas' = << >>
  /\ cpGone' = cpGone \cup ToSet(cpHas)
  /\ UNCHANGED <<cpActive, cpMade, cpImports, cpPick, cpSent>>

(* cycle_provider, which also picks that provider's first model, cycle_model *)
(* and cycle_effort.                                                         *)
CpCycle ==
  /\ \/ \E p \in {(cpPick.provider % Len(CpModels)) + 1} :
          cpPick' = [cpPick EXCEPT !.provider = p, !.model = CpModels[p][1]]
     \/ cpPick' = [cpPick EXCEPT !.model = CpAfter(CpModels[cpPick.provider], @)]
     \/ cpPick' = [cpPick EXCEPT !.effort = CpAfter(CpEfforts, @)]
  /\ UNCHANGED <<cpActive, cpText, cpHas, cpMade, cpGone, cpImports, cpSent>>

\* Mutant of CpAfterSend: only the text is cleared.
CpAfterSendText == cpText' = FALSE /\ UNCHANGED cpHas

(* composer.clear().                                                         *)
CpAfterSend == cpText' = FALSE /\ cpHas' = << >>

(* send_composer_turn: nothing to say, nothing sent; attachments alone go    *)
(* with a text of their own.  The draft is cleared before the server has it, *)
(* and nobody looks at the answer.  The model is the picker's, whatever      *)
(* provider the thread has.                                                  *)
CpSend ==
  /\ cpText \/ cpHas # << >>
  /\ Len(cpSent) < CpMaxTurns
  /\ cpSent' = Append(cpSent, [thread |-> cpActive, files |-> cpHas,
                               provider |-> cpPick.provider, model |-> cpPick.model])
  /\ CpAfterSend
  /\ UNCHANGED <<cpActive, cpMade, cpGone, cpImports, cpPick>>

CpNext ==
  \/ CpSelectThread \/ CpType \/ CpAttach \/ CpClear \/ CpCycle \/ CpSend
  \/ \E i \in cpImports : CpAttached(i) \/ CpAttachFails(i)
  \/ \E i \in DOMAIN cpHas : CpRemove(i)

CpSpec == CpInit /\ [][CpNext]_cpVars

-----------------------------------------------------------------------------
(* However imports, edits and sends cross, an attachment goes with one turn  *)
(* at most, never after it was taken out of the draft, and waits nowhere     *)
(* else; the model sent is one of the provider it was picked for.            *)
CpSentOnce ==
  LET out == cpGone \cup {i.file : i \in cpImports}
  IN /\ IsInjective(cpHas) /\ ToSet(cpHas) \cap out = {}
     /\ \A n \in DOMAIN cpSent :
          LET files == cpSent[n].files
          IN /\ IsInjective(files) /\ ToSet(files) \cap (ToSet(cpHas) \cup out) = {}
             /\ \A m \in DOMAIN cpSent \ {n} : ToSet(files) \cap ToSet(cpSent[m].files) = {}
             /\ cpSent[n].model \in ToSet(CpModels[cpSent[n].provider])
=============================================================================
