-------------------------- MODULE StableObservation --------------------------
(***************************************************************************)
(* What a terminal observation promises, without saying how it counts.     *)
(*                                                                         *)
(* An observer takes samples of a moving world.  A sample is `ok' when it   *)
(* was complete, non-empty and terminal; it carries a fingerprint `fp' of   *)
(* what it saw and the time `at' of its evaluation.  The observer answers   *)
(* with a witness exactly when the samples end in a run of at least two ok  *)
(* samples with one fingerprint that spans the quiescence window, and gives *)
(* up on time only when they do not.                                        *)
(***************************************************************************)
EXTENDS Naturals, Sequences

CONSTANTS
  Quiescence,   \* length of the window the set must stay unchanged for
  Timeout       \* elapsed time after which the observer may give up

VARIABLES
  log,          \* every sample evaluated so far, oldest first
  verdict       \* "pending", "witness", "timeout" or "error"

vars == <<log, verdict>>

(***************************************************************************)
(* The samples from index k to the end agree with the last one.            *)
(***************************************************************************)
UnchangedSince(samples, k) ==
  \A i \in k .. Len(samples) :
    /\ samples[i].ok
    /\ samples[i].fp = samples[Len(samples)].fp

Quiescent(samples) ==
  \E k \in 1 .. Len(samples) - 1 :
    /\ UnchangedSince(samples, k)
    /\ samples[Len(samples)].at - samples[k].at >= Quiescence

Init ==
  /\ log = <<>>
  /\ verdict = "pending"

(***************************************************************************)
(* One more sample; the earlier ones are never revised, and time does not   *)
(* run backwards.                                                           *)
(***************************************************************************)
Sampled ==
  /\ Len(log') = Len(log) + 1
  /\ \A i \in 1 .. Len(log) : log'[i] = log[i]
  /\ log # <<>> => log[Len(log)].at <= log'[Len(log')].at

KeepObserving ==
  /\ verdict = "pending"
  /\ Sampled
  /\ ~Quiescent(log')
  /\ log'[Len(log')].at < Timeout
  /\ verdict' = "pending"

Witness ==
  /\ verdict = "pending"
  /\ Sampled
  /\ Quiescent(log')
  /\ verdict' = "witness"

GiveUp ==
  /\ verdict = "pending"
  /\ Sampled
  /\ ~Quiescent(log')
  /\ log'[Len(log')].at >= Timeout
  /\ verdict' = "timeout"

Fail ==
  /\ verdict = "pending"
  /\ verdict' = "error"
  /\ UNCHANGED log

Next == KeepObserving \/ Witness \/ GiveUp \/ Fail

Spec == Init /\ [][Next]_vars
=============================================================================
