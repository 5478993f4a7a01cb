---------------------------- MODULE DiscordCheck ----------------------------
(***************************************************************************)
(* `pc check` on Discord (bin/pc/src/main.rs: check_one, check_discord,    *)
(* poll_last_error): a process of its own that starts the provider, looks  *)
(* at its error slot for a while and stops it.  The other host of the      *)
(* provider here is a daemon, which starts and stops it as it likes.       *)
(***************************************************************************)
EXTENDS DiscordGateway

VARIABLES
  op,      \* "daemon", or how far the check is
  verdict  \* its result

opVars    == <<op, verdict>>
checkVars == <<gatewayVars, opVars>>

CheckTypeOK ==
  /\ GatewayTypeOK
  /\ op \in {"daemon", "built", "polling", "leaving", "left"}
  /\ verdict \in {"none", "pass", "fail"}

CheckInit ==
  /\ GatewayInit
  /\ op \in {"daemon", "built"}
  /\ verdict = "none"

CheckStart ==
  /\ op = "built"
  /\ Start
  /\ op' = "polling"
  /\ UNCHANGED verdict

Conclude(result) ==
  /\ op' = "leaving"
  /\ verdict' = result

\* take_last_error empties the slot.
TakeError ==
  /\ op = "polling"
  /\ lastError
  /\ lastError' = FALSE
  /\ Conclude("fail")
  /\ UNCHANGED <<discordVars, linkVars, sessionVars, taskVars, gateway, beatVars,
                 attempt, told, deliveryVars, faults>>

\* Mutant: the deadline is looked at before the slot.
DeadlineFirst ==
  /\ op = "polling"
  /\ Conclude("pass")
  /\ UNCHANGED gatewayVars

\* The slot is looked at once more before the deadline counts.
Deadline ==
  /\ op = "polling"
  /\ ~lastError
  /\ Conclude("pass")
  /\ UNCHANGED gatewayVars

CheckStop ==
  /\ op = "leaving"
  /\ StopBegin
  /\ UNCHANGED opVars

CheckEnd ==
  /\ op = "leaving"
  /\ StopEnd
  /\ op' = "left"
  /\ UNCHANGED verdict

CheckStep == CheckStart \/ TakeError \/ Deadline \/ CheckStop \/ CheckEnd

CheckNext ==
  \/ /\ DiscordStep \/ TaskStep
     /\ UNCHANGED opVars
  \/ /\ op = "daemon"
     /\ Start \/ StopBegin \/ StopEnd \/ Restart
     /\ UNCHANGED opVars
  \/ CheckStep

CheckSpec == CheckInit /\ [][CheckNext]_checkVars

\* The check's own steps are taken; the daemon's are as in GatewayFairness.
FairCheckSpec ==
  /\ CheckSpec
  /\ GatewayFairness
  /\ WF_checkVars(CheckStep)
-----------------------------------------------------------------------------
\* A check that passes has not overlooked a gateway that had already turned the
\* bot away: the slot is read again when the time is over.
PassMeansNoRefusal ==
  [][verdict = "none" /\ verdict' = "pass" => told # "fatal"]_checkVars
=============================================================================
