--------------------------- MODULE SystemConfigs ---------------------------
(***************************************************************************)
(* The system configuration (app/services/config_service.py).  Every save   *)
(* deactivates all stored versions and inserts a new one; every reader, an   *)
(* analysis too, that finds no active version stores the defaults.  Nothing *)
(* is locked, so requests overlap between any two Mongo commands.           *)
(*                                                                         *)
(* One step is one Mongo command with the code up to the next.  What a      *)
(* version holds is the set of the changes that went into it.               *)
(***************************************************************************)
EXTENDS Naturals, Sequences, FiniteSets

CONSTANTS Callers,     \* requests that may be in progress at once
          MaxCalls,    \* requests made
          MaxTroubles  \* Mongo commands that raise, and restarts

ASSUME ConfigConstants ==
    /\ IsFiniteSet(Callers) /\ MaxCalls \in Nat /\ MaxTroubles \in Nat

VARIABLES configs, \* system_configs: active, version and changes, in order of insertion
          files,   \* changes the JSON files of unified_config hold
          calls,   \* per caller: its place and the version it is about to store
          kept,    \* changes that must still be there (history)
          spent    \* requests made and troubles so far

configVars == <<configs, files, calls, kept, spent>>

-----------------------------------------------------------------------------
CallKinds == {"read", "llm", "settings", "other", "reorder", "import"}

\* `rec` is the stored version a reorder writes to, `making` that the defaults
\* are being stored first, `alone` that no other request overlapped (history).
NoCall == [n |-> 0, pc |-> "none", op |-> "read", version |-> 0, has |-> {},
           rec |-> 0, making |-> FALSE, alone |-> TRUE]

Calling(c) == calls[c].pc # "none"
NoCalls == \A c \in Callers : ~Calling(c)

Active == {i \in DOMAIN configs : configs[i].active}

\* find_one({"is_active": True}, sort=[("version", -1)]); equals come in any order.
Effective == {i \in Active : \A j \in Active : configs[j].version <= configs[i].version}

ConfigInit ==
    /\ configs = <<>>
    /\ files = {}
    /\ calls = [c \in Callers |-> NoCall]
    /\ kept = {}
    /\ spent = [calls |-> 0, troubles |-> 0]

\* The request goes on; or it is answered and forgotten.
Proceed(c, next) == calls' = [calls EXCEPT ![c] = next]
Answer(c) == Proceed(c, NoCall)

Trouble == /\ spent.troubles < MaxTroubles
           /\ spent' = [spent EXCEPT !.troubles = @ + 1]
           /\ kept' = {}

-----------------------------------------------------------------------------
(* get_system_config, and the changes made to what it returned              *)

\* A version is counted up when it is saved; a new object has version 1.
Edited(call, version, has) ==
    [call EXCEPT !.pc = "deactivate", !.making = FALSE,
                 !.version = version + 1, !.has = has \cup {call.n}]

Defaults(call) == [call EXCEPT !.pc = "deactivate", !.making = TRUE,
                               !.version = 2, !.has = {}]

\* An import saves without reading; a model is saved to the files first.
StartCall(c, op) ==
    /\ ~Calling(c)
    /\ spent.calls < MaxCalls
    /\ spent' = [spent EXCEPT !.calls = @ + 1]
    /\ LET call == [NoCall EXCEPT !.n = spent'.calls, !.op = op, !.pc = "find",
                                  !.alone = NoCalls]
       IN  /\ calls' = [d \in Callers |->
                          IF d # c THEN [calls[d] EXCEPT !.alone = ~Calling(d)]
                          ELSE IF op = "import" THEN Edited(call, 1, {}) ELSE call]
           /\ files' = IF op = "llm" THEN files \cup {call.n} ELSE files
    /\ kept' = IF NoCalls THEN kept ELSE {}
    /\ UNCHANGED configs

FindConfig(c) ==
    /\ calls[c].pc = "find"
    /\ \E i \in Effective :
         CASE calls[c].op = "read" -> Answer(c)
           [] calls[c].op = "reorder" ->
                Proceed(c, [Edited(calls[c], configs[i].version, configs[i].has)
                              EXCEPT !.pc = "reorder", !.rec = i])
           [] OTHER -> Proceed(c, Edited(calls[c], configs[i].version, configs[i].has))
    /\ UNCHANGED <<configs, files, kept, spent>>

\* Mutant: a reorder goes on without a version to write to.
FindNothing_GoesOn(c) ==
    /\ calls[c].pc = "find" /\ Active = {}
    /\ Proceed(c, IF calls[c].op = "reorder" THEN [calls[c] EXCEPT !.pc = "reorder"]
                  ELSE Defaults(calls[c]))
    /\ UNCHANGED <<configs, files, kept, spent>>

\* No active version: store the defaults (a reorder only gives up).
FindNothing(c) ==
    /\ calls[c].pc = "find" /\ Active = {}
    /\ IF calls[c].op = "reorder" THEN Answer(c) ELSE Proceed(c, Defaults(calls[c]))
    /\ UNCHANGED <<configs, files, kept, spent>>

\* The configuration is put together from the files instead.
FindRaises(c) ==
    /\ calls[c].pc = "find"
    /\ Trouble
    /\ IF calls[c].op \in {"read", "reorder"} THEN Answer(c)
       ELSE Proceed(c, Edited(calls[c], 1, files))
    /\ UNCHANGED <<configs, files>>

\* update_datasource_grouping, update_category_datasource_order: the version
\* found is changed in place, active or not.
Reorder(c) ==
    /\ calls[c].pc = "reorder"
    /\ configs' = [configs EXCEPT ![calls[c].rec].version = calls[c].version,
                                  ![calls[c].rec].has = calls[c].has]
    /\ kept' = IF calls[c].alone THEN kept \cup {calls[c].n} ELSE kept
    /\ Answer(c)
    /\ UNCHANGED <<files, spent>>

-----------------------------------------------------------------------------
(* save_system_config                                                      *)

\* Mutant: the older versions stay active.
Deactivate_Nothing(c) ==
    /\ calls[c].pc = "deactivate"
    /\ Proceed(c, [calls[c] EXCEPT !.pc = "insert"])
    /\ UNCHANGED <<configs, files, kept, spent>>

Deactivate(c) ==
    /\ calls[c].pc = "deactivate"
    /\ configs' = [i \in DOMAIN configs |-> [configs[i] EXCEPT !.active = FALSE]]
    /\ Proceed(c, [calls[c] EXCEPT !.pc = "insert"])
    /\ UNCHANGED <<files, kept, spent>>

\* Mutant: the new version is not marked active.
InsertConfig_Inactive(c) ==
    /\ calls[c].pc = "insert"
    /\ configs' = Append(configs, [active |-> FALSE, version |-> calls[c].version,
                                   has |-> calls[c].has])
    /\ Proceed(c, [calls[c] EXCEPT !.pc = "verify"])
    /\ UNCHANGED <<files, kept, spent>>

InsertConfig(c) ==
    /\ calls[c].pc = "insert"
    /\ configs' = Append(configs, [active |-> TRUE, version |-> calls[c].version,
                                   has |-> calls[c].has])
    /\ Proceed(c, [calls[c] EXCEPT !.pc = "verify"])
    /\ UNCHANGED <<files, kept, spent>>

\* The defaults are stored, or not: the request goes on with them.
AfterDefaults(c) ==
    IF calls[c].op = "read" THEN Answer(c)
    ELSE Proceed(c, Edited(calls[c], calls[c].version, {}))

\* The save has succeeded; settings are then copied to the files.
VerifyConfig(c) ==
    /\ calls[c].pc = "verify"
    /\ IF calls[c].making
         THEN AfterDefaults(c) /\ UNCHANGED <<files, kept>>
         ELSE /\ Answer(c)
              /\ files' = IF calls[c].op = "settings" THEN files \cup {calls[c].n} ELSE files
              /\ kept' = IF calls[c].alone
                           THEN (IF calls[c].op = "import" THEN {} ELSE kept) \cup {calls[c].n}
                           ELSE kept
    /\ UNCHANGED <<configs, spent>>

\* A command of the save or of the reorder raises.
SaveRaises(c) ==
    /\ calls[c].pc \in {"reorder", "deactivate", "insert", "verify"}
    /\ Trouble
    /\ IF calls[c].making THEN AfterDefaults(c) ELSE Answer(c)
    /\ UNCHANGED <<configs, files>>

RestartBackend ==
    /\ ~NoCalls
    /\ Trouble
    /\ calls' = [c \in Callers |-> NoCall]
    /\ UNCHANGED <<configs, files>>

ConfigNext ==
    \/ \E c \in Callers :
        \/ \E op \in CallKinds : StartCall(c, op)
        \/ FindConfig(c) \/ FindNothing(c) \/ FindRaises(c) \/ Reorder(c)
        \/ Deactivate(c) \/ InsertConfig(c) \/ VerifyConfig(c) \/ SaveRaises(c)
    \/ RestartBackend

ConfigSpec == ConfigInit /\ [][ConfigNext]_configVars

-----------------------------------------------------------------------------
(* Properties                                                              *)

\* Types of all variables.
ConfigTypeOK ==
    /\ configs \in Seq([active: BOOLEAN, version: Nat, has: SUBSET Nat])
    /\ files \subseteq Nat
    /\ calls \in [Callers -> [n: Nat,
                    pc: {"none", "find", "reorder", "deactivate", "insert", "verify"},
                    op: CallKinds, version: Nat, has: SUBSET Nat, rec: Nat,
                    making: BOOLEAN, alone: BOOLEAN]]
    /\ \A c \in Callers : calls[c].pc = "reorder" => calls[c].rec \in DOMAIN configs
    /\ kept \subseteq Nat
    /\ spent \in [calls: Nat, troubles: Nat]

\* No interleaving of requests leaves the system without a configuration: when
\* versions are stored and none is active, a save is about to insert one, or a
\* command has failed or the process ended in between.
NeverWithoutConfig ==
    configs # <<>> /\ Active = {} =>
        \/ \E c \in Callers : calls[c].pc = "insert"
        \/ spent.troubles > 0

\* A change that was confirmed is in the configuration in use, also after
\* further changes, defaults and imports with lower versions, as long as no
\* two requests overlap and no command fails.  (A reader that overlaps a save
\* is enough to bring the defaults back.)
ChangesKept ==
    NoCalls /\ kept # {} =>
        Effective # {} /\ \A i \in Effective : kept \subseteq configs[i].has

=============================================================================
