--------------------------- MODULE OpenConnection ---------------------------
(***************************************************************************)
(* openConnection of the client API: the client tries to connect to a      *)
(* server that may come and go, sleeping msec milliseconds after each      *)
(* attempt that fails.                                                     *)
(***************************************************************************)
EXTENDS Integers

CONSTANTS
  AbsTime,     \* the time main gives, in milliseconds
  MaxTurns,    \* bound: times that the server starts or stops
  MaxRemaining \* bound: a longer remaining_time is not followed

VARIABLES
  server,      \* "absent" (no socket file), "deaf" (nobody listens on it),
               \* "up", or "barred" (another reason for connect to fail)
  turns,
  remaining,   \* remaining_time
  socket,      \* "none", "open", "connected" or "closed"
  waited,      \* the time slept, for the properties
  dial,        \* "call", "connect", "sleep" or "returned"
  ret          \* what openConnection returned

dialVars == <<server, turns, remaining, socket, waited, dial, ret>>

\* Division and remainder of C, towards zero.
Quot(m, n) == IF m >= 0 THEN m \div n ELSE -((-m) \div n)
Rem(m, n) == m - n * Quot(m, n)

\* tv_sec and tv_nsec, in milliseconds: a negative rest is replaced.
Interval(msec) ==
  1000 * Quot(msec, 1000) + (IF Rem(msec, 1000) < 0 THEN 500 ELSE Rem(msec, 1000))

Situations == {"absent", "deaf", "up", "barred"}

DialInit ==
  /\ server \in Situations /\ turns = 0
  /\ remaining = 0 /\ socket = "none" /\ waited = 0 /\ dial = "call" /\ ret = 0

Return(r) == dial' = "returned" /\ ret' = r

\* Without a name, or without a socket, it returns at once.
openConnection(named) ==
  /\ dial = "call"
  /\ \/ Return(-1) /\ UNCHANGED <<remaining, socket>>
     \/ /\ named /\ remaining' = AbsTime /\ socket' = "open" /\ dial' = "connect"
        /\ UNCHANGED ret
  /\ UNCHANGED <<server, turns, waited>>

\* Mutant: success whatever the time.
ConnectLate ==
  /\ dial = "connect" /\ server = "up"
  /\ socket' = "connected" /\ Return(0)
  /\ UNCHANGED <<server, turns, remaining, waited>>

\* The time is looked at after a failed attempt and not after a good one.
Connect ==
  /\ dial = "connect" /\ server = "up"
  /\ socket' = "connected" /\ Return(IF remaining > 0 THEN 0 ELSE -1)
  /\ UNCHANGED <<server, turns, remaining, waited>>

\* Mutant: break, in place of return, for another reason.
FailBreak ==
  /\ dial = "connect" /\ server # "up"
  /\ IF remaining <= 0 \/ server = "barred"
     THEN Return(IF remaining > 0 THEN 0 ELSE -1)
     ELSE dial' = "sleep" /\ UNCHANGED ret
  /\ UNCHANGED <<server, turns, remaining, socket, waited>>

Fail ==
  /\ dial = "connect" /\ server # "up"
  /\ IF remaining <= 0 \/ server = "barred"
     THEN Return(-1)
     ELSE dial' = "sleep" /\ UNCHANGED ret
  /\ UNCHANGED <<server, turns, remaining, socket, waited>>

Least(m, n) == IF m < n THEN m ELSE n

\* Mutant: connect is tried again at once.
SleepNot(msec) ==
  /\ dial = "sleep" /\ dial' = "connect"
  /\ UNCHANGED <<server, turns, remaining, socket, waited, ret>>

\* nanosleep returns at once when the seconds are negative.
Sleep(msec) ==
  /\ dial = "sleep"
  /\ remaining' = Least(remaining - Interval(msec), MaxRemaining)
  /\ waited' = IF Quot(msec, 1000) < 0 THEN waited ELSE waited + Interval(msec)
  /\ dial' = "connect"
  /\ UNCHANGED <<server, turns, socket, ret>>

closeConnection ==
  /\ socket' = "closed"
  /\ UNCHANGED <<server, turns, remaining, waited, dial, ret>>

\* The server is started, listens, or ends; its socket file may stay.  What
\* becomes of an open connection is not followed here.
Turn ==
  /\ dial # "returned" /\ turns < MaxTurns /\ turns' = turns + 1
  /\ server' \in Situations \ {server}
  /\ UNCHANGED <<remaining, socket, waited, dial, ret>>

DialTypeOK ==
  /\ server \in Situations /\ turns \in 0..MaxTurns
  /\ remaining \in Int /\ remaining <= MaxRemaining /\ waited \in Nat
  /\ dial = "sleep" => remaining > 0
  /\ socket \in {"none", "open", "connected", "closed"} /\ ret \in {0, -1}
  /\ dial \in {"call", "connect", "sleep", "returned"}
=============================================================================
