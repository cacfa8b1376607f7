---------------------------- MODULE ClientReports ----------------------------
(***************************************************************************)
(* What a client of the fingerprint HAL may rely on (setNotify and notify  *)
(* of BiometricsFingerprint.cpp): telling it and replacing it are atomic   *)
(* with respect to each other.  A report is told at most once, in the      *)
(* words of HIDL, and to whoever is the client at that moment; it is       *)
(* dropped only if nobody is.  The service may end, and owes nothing then. *)
(* A reporter is a thread; that it ever gets its turn is not promised.     *)
(***************************************************************************)
CONSTANTS
  Clients, NoClient,
  Reporters, Messages,
  Words           \* what the client is told of a message

VARIABLES
  client,
  heard,          \* what the client has been told last
  owed            \* the reports on their way, of each reporter one at most

vars == <<client, heard, owed>>

Nothing == [to |-> NoClient]
Ended   == client' = NoClient /\ heard' = Nothing /\ owed' = {}

Init == client = NoClient /\ heard = Nothing /\ owed = {}

Register(c) == client' = c /\ heard' = Nothing /\ UNCHANGED owed

Report(p) ==
  /\ p \in Reporters \X Messages /\ \A q \in owed : q[1] # p[1]
  /\ owed' = owed \cup {p}
  /\ UNCHANGED <<client, heard>>

Tell(p) ==
  /\ client # NoClient /\ heard' = [to |-> client, told |-> Words[p[2]]]
  /\ owed' = owed \ {p}
  /\ UNCHANGED client

Drop(p) ==
  /\ client = NoClient
  /\ owed' = owed \ {p}
  /\ UNCHANGED <<client, heard>>

Next ==
  \/ \E c \in Clients \cup {NoClient} : Register(c)
  \/ \E p \in owed' \ owed : Report(p)
  \/ \E p \in owed : Tell(p) \/ Drop(p)
  \/ Ended

Spec == Init /\ [][Next]_vars
=============================================================================
