---------------------------- MODULE LlamaServer -----------------------------
(***************************************************************************)
(* scripts/llama_server.sh: it pins the lowest GPU clock to the highest    *)
(* while llama-server runs and puts it back in an EXIT trap.  The script   *)
(* may be started again and again, or twice at a time, and signalled at    *)
(* any moment; a signal that finds cleanup under way ends it there, for    *)
(* bash does not run an EXIT trap a second time.                           *)
(***************************************************************************)
EXTENDS Integers

CONSTANTS
  Shell,       \* terminals the script may be started from
  Clock,       \* frequencies, of which the highest is ...
  MaxFreq

ASSUME ClockAssumption == Clock \subseteq Nat /\ MaxFreq \in Clock

VARIABLES
  min_freq,  \* of the GPU
  idle,      \* history: what it was before any script ran
  pc,        \* of a script: "off", "armed", "pinned", "wait"; in cleanup, "kill",
             \* "reap", "restore"
  orig_min,
  rushed,    \* history: was a script signalled again while it cleaned up?
  server     \* the llama-server of a script: "none", "up", "down"

script == <<min_freq, idle, pc, orig_min, rushed, server>>

ScriptInit ==
  /\ min_freq \in Clock
  /\ idle = min_freq
  /\ pc = [s \in Shell |-> "off"]
  /\ orig_min = [s \in Shell |-> 0]
  /\ rushed = FALSE
  /\ server = [s \in Shell |-> "none"]

Goto(s, p) == pc' = [pc EXCEPT ![s] = p]

\* The clock is noted and the traps are set.  (A terminal whose server is still
\* there is not used again.)
Start(s) ==
  /\ pc[s] = "off" /\ server[s] # "up"
  /\ orig_min' = [orig_min EXCEPT ![s] = min_freq]
  /\ server' = [server EXCEPT ![s] = "none"]
  /\ Goto(s, "armed")
  /\ UNCHANGED <<rushed, min_freq, idle>>

Pin(s) ==
  /\ pc[s] = "armed"
  /\ min_freq' = MaxFreq
  /\ Goto(s, "pinned")
  /\ UNCHANGED <<rushed, idle, orig_min, server>>

\* In the background; it does not stay if another has the port.
Launch(s) ==
  /\ pc[s] = "pinned"
  /\ server' = [server EXCEPT ![s] =
                  IF \E o \in Shell : server[o] = "up" THEN "down" ELSE "up"]
  /\ Goto(s, "wait")
  /\ UNCHANGED <<rushed, min_freq, idle, orig_min>>

\* External: killed by cleanup or by the terminal, or for its own reasons.
ServerEnds(s) ==
  /\ server[s] = "up"
  /\ server' = [server EXCEPT ![s] = "down"]
  /\ UNCHANGED <<rushed, min_freq, idle, pc, orig_min>>

\* wait returns, the script is at its end.
Waited(s) ==
  /\ pc[s] = "wait" /\ server[s] = "down"
  /\ Goto(s, "kill")
  /\ UNCHANGED <<rushed, min_freq, idle, orig_min, server>>

\* Bug: the signals are not trapped, and the script just ends.
SignalUntrapped(s) ==
  /\ pc[s] \in {"armed", "pinned", "wait"}
  /\ Goto(s, "off")
  /\ UNCHANGED <<rushed, min_freq, idle, orig_min, server>>

\* INT, TERM, HUP: exit, and the EXIT trap with it ...
Signal(s) ==
  /\ pc[s] \in {"armed", "pinned", "wait"}
  /\ Goto(s, "kill")
  /\ UNCHANGED <<rushed, min_freq, idle, orig_min, server>>

\* ... unless that already runs.
SignalAgain(s) ==
  /\ pc[s] \in {"kill", "reap"}
  /\ Goto(s, "off")
  /\ rushed' = TRUE
  /\ UNCHANGED <<min_freq, idle, orig_min, server>>

\* cleanup: kill, only if there is a server, ...
Kill(s) ==
  /\ pc[s] = "kill"
  /\ Goto(s, IF server[s] = "up" THEN "reap" ELSE "restore")
  /\ UNCHANGED <<rushed, min_freq, idle, orig_min, server>>

\* Bug: the server is not waited for.
ReapNot(s) ==
  /\ pc[s] = "reap"
  /\ Goto(s, "restore")
  /\ UNCHANGED <<rushed, min_freq, idle, orig_min, server>>

\* ... wait for it, ...
Reap(s) ==
  /\ pc[s] = "reap" /\ server[s] = "down"
  /\ Goto(s, "restore")
  /\ UNCHANGED <<rushed, min_freq, idle, orig_min, server>>

\* ... and put the clock back.
Restore(s) ==
  /\ pc[s] = "restore"
  /\ min_freq' = orig_min[s]
  /\ Goto(s, "off")
  /\ UNCHANGED <<rushed, idle, orig_min, server>>

ScriptNext ==
  \E s \in Shell :
    \/ Start(s) \/ Pin(s) \/ Launch(s) \/ ServerEnds(s) \/ Waited(s)
    \/ Signal(s) \/ SignalAgain(s)
    \/ Kill(s) \/ Reap(s) \/ Restore(s)

ScriptSpec == ScriptInit /\ [][ScriptNext]_script

-----------------------------------------------------------------------------
(* Properties.                                                             *)

\* When no script runs the clock is what it was before any did, unless somebody
\* lost patience with the cleanup (llama_server.sh:16-17).
ClockRestored ==
  (\A s \in Shell : pc[s] = "off") /\ ~rushed => min_freq = idle

\* A server that answers has the clock it was given, until it has gone
\* (llama_server.sh:15-17).
PinnedWhileServing == (\E s \in Shell : server[s] = "up") => min_freq = MaxFreq
=============================================================================
