-------------------------- MODULE TelegramCommands --------------------------
(***************************************************************************)
(* The operator's commands (CommandRouter, src/src/notify/telegram.py)     *)
(* over the kill switch.  The bot loop that will call dispatch() is        *)
(* external; it gives an operator one command at a time.                   *)
(***************************************************************************)
EXTENDS KillSwitch

VARIABLES
  command,  \* the command each operator waits for
  stage,    \* the await its dispatch() is suspended at
  told      \* history: the answer to each operator's newest command

telegram == <<command, stage, told>>
telegramVars == <<vars, telegram>>

Commands == {"/halt", "/resume", "/status"}

TelegramTypeOK ==
  /\ command \in [Operators -> Commands \cup {"none"}]
  /\ stage \in [Operators -> {"idle", "journal", "handler"}]
  /\ told \in [Operators -> {"nothing", "halted", "resumed", "running", "error"}]

TelegramInit ==
  /\ Init
  /\ command = [c \in Operators |-> "none"]
  /\ stage = [c \in Operators |-> "idle"]
  /\ told = [c \in Operators |-> "nothing"]

-----------------------------------------------------------------------------
Receive(c, cmd) ==
  /\ stage[c] = "idle"
  /\ command' = [command EXCEPT ![c] = cmd]
  /\ stage' = [stage EXCEPT ![c] = "journal"]
  /\ told' = [told EXCEPT ![c] = "nothing"]
  /\ UNCHANGED vars

Answer(c, text) ==
  /\ command' = [command EXCEPT ![c] = "none"]
  /\ stage' = [stage EXCEPT ![c] = "idle"]
  /\ told' = [told EXCEPT ![c] = text]

Await(c) ==
  /\ stage' = [stage EXCEPT ![c] = "handler"]
  /\ UNCHANGED <<command, told>>

(* The command goes to its handler once its row is in the journal.         *)
Dispatched(c, cmd) == stage[c] = "journal" /\ command[c] = cmd

(* The row raises: the handler is never called, not even that of /halt.    *)
DispatchFails(c) ==
  /\ JournalMayFail
  /\ stage[c] = "journal"
  /\ Answer(c, "error")
  /\ UNCHANGED vars

(* A definition that no action uses is a variant, as in KillSwitch.        *)
OnHaltInBackground(c) ==
  /\ Dispatched(c, "/halt")
  /\ Halt(c)
  /\ Answer(c, "halted")

(* "halted" at once when somebody has set the flag before.                 *)
OnHalt(c) ==
  /\ Dispatched(c, "/halt")
  /\ Halt(c)
  /\ IF halted THEN Answer(c, "halted") ELSE Await(c)

OnResume(c) ==
  /\ Dispatched(c, "/resume")
  /\ IF halted
     THEN Resume(c) /\ Await(c)
     ELSE Answer(c, "resumed") /\ UNCHANGED vars

OnStatus(c) ==
  /\ Dispatched(c, "/status")
  /\ Await(c)
  /\ UNCHANGED vars

(* The handler goes on with halt() or resume(), and answers at its end.    *)
Handle(c) ==
  /\ stage[c] = "handler" /\ command[c] # "/status"
  /\ HaltStep(c)
  /\ IF pc'[c] = "idle"
     THEN Answer(c, IF command[c] = "/halt" THEN "halted" ELSE "resumed")
     ELSE UNCHANGED telegram

HandlerRaises(c) ==
  /\ stage[c] = "handler"
  /\ JournalRaises(c) \/ Abort(c) \/ (command[c] = "/status" /\ UNCHANGED vars)
  /\ Answer(c, "error")

(* The flag is read after the status of the rest.                          *)
Status(c) ==
  /\ stage[c] = "handler" /\ command[c] = "/status"
  /\ Answer(c, IF halted THEN "halted" ELSE "running")
  /\ UNCHANGED vars

Command(c) ==
  \/ \E cmd \in Commands : Receive(c, cmd)
  \/ DispatchFails(c) \/ OnHalt(c) \/ OnResume(c) \/ OnStatus(c)
  \/ Handle(c) \/ HandlerRaises(c) \/ Status(c)

TelegramNext ==
  \/ \E c \in Operators : Command(c)
  \/ /\ \/ Market
        \/ \E c \in Callers \ Operators :
             Halt(c) \/ HaltStep(c) \/ Abort(c) \/ JournalRaises(c)
     /\ UNCHANGED telegram

TelegramSpec == TelegramInit /\ [][TelegramNext]_telegramVars
FairTelegramSpec == TelegramSpec /\ Fairness

-----------------------------------------------------------------------------
(* Properties                                                              *)

(* What "halted" tells the operator (telegram.py:95-98): the flag stays    *)
(* set until an operator resumes, and the account has been worked through  *)
(* to the journalled report, unless the sequence is another caller's:      *)
(* still at work, or lost to a cancellation or to the journal.  An         *)
(* operator's own sequence has ended when it is answered.                  *)
AnswerExplained ==
  \A c \in Operators : told[c] = "halted" =>
    /\ Operators = {c} => halted
    /\ halted /\ ~settled /\ runner # NoCaller => runner # c /\ pc[runner] \in HaltSteps
    /\ halted /\ ~settled /\ runner = NoCaller => Cancellable # {} \/ JournalMayFail
=============================================================================
