-------------------------- MODULE MCDaytonaSandbox ---------------------------
(***************************************************************************)
(* DaytonaSandbox on small instances.  Times are in tenths of a second.    *)
(***************************************************************************)
EXTENDS DaytonaSandbox, TLC

Config(timeout, max, create) ==
  [timeout_sec |-> timeout, max_timeout_sec |-> max,
   create_timeout_sec |-> create]

\* A cap that is missing, fractional, below a second, zero, negative, above 300
\* seconds, and none at all; a time of the tool's own, and one that is no
\* number; a time to create that float() takes, and ones it does not.
SomeConfigs ==
  {Config(Absent, max, Absent) :
     max \in {Absent, 205, 5, 0, -15, 6000, Text, TooBig}}
    \union {Config(timeout, Absent, Absent) : timeout \in {900, Text, TooBig}}
    \union {Config(Absent, Absent, create) : create \in {1200, Text, TooBig}}

\* Missing, below zero, zero, below a second, in range, above every cap, and no
\* numbers.
SomeTimeouts == {Absent, -50, 0, 5, 107, 9000, Text, TooBig}
==============================================================================
