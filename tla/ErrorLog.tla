------------------------------ MODULE ErrorLog ------------------------------
(***************************************************************************)
(* What the per-context error ring promises (doc/xmllint.xml: "Keep the    *)
(* last N errors in a per-context ring buffer"): for each parser context a *)
(* log of the last cap errors that were reported, oldest first.  An error  *)
(* enters the log when its report ends, once, and nothing else does.       *)
(***************************************************************************)
EXTENDS Integers, Sequences

CONSTANTS
  Ctxts,    \* parser contexts
  Errors,   \* errors that can be reported
  Stops,    \* XML_ERR_USER_STOP: what a handler may turn its error into
  NoError,  \* no error is being reported
  Caps      \* the capacities a caller may configure, 0 = disabled

VARIABLES
  cap,        \* configured capacity per context
  log,        \* stored errors per context, oldest first
  reporting   \* the error being reported per context

lvars == <<cap, log, reporting>>

(* The last n elements of s.                                               *)
LastN(s, n) == IF Len(s) <= n THEN s ELSE SubSeq(s, Len(s) - n + 1, Len(s))

Init ==
  /\ cap = [c \in Ctxts |-> 0]
  /\ log = [c \in Ctxts |-> <<>>]
  /\ reporting = [c \in Ctxts |-> NoError]

(* The report of an error begins: its handler may use the log.             *)
Report(c) ==
  /\ reporting[c] = NoError
  /\ \E e \in Errors : reporting' = [reporting EXCEPT ![c] = e]
  /\ UNCHANGED <<cap, log>>

(* The handler stops the parser, which relabels the error it was given.    *)
Stop(c) ==
  /\ reporting[c] # NoError
  /\ \E e \in Stops : reporting' = [reporting EXCEPT ![c] = e]
  /\ UNCHANGED <<cap, log>>

(* The report ends: its error is the newest one of the log.                *)
Record(c) ==
  /\ reporting[c] # NoError
  /\ log' = [log EXCEPT ![c] = LastN(Append(@, reporting[c]), cap[c])]
  /\ reporting' = [reporting EXCEPT ![c] = NoError]
  /\ UNCHANGED cap

Clear(c) ==
  /\ log' = [log EXCEPT ![c] = <<>>]
  /\ UNCHANGED <<cap, reporting>>

(* A change of capacity drops the stored errors.                           *)
SetCap(c, n) ==
  /\ cap' = [cap EXCEPT ![c] = n]
  /\ log' = [log EXCEPT ![c] = <<>>]
  /\ UNCHANGED reporting

Next ==
  \E c \in Ctxts :
    \/ Report(c)
    \/ Stop(c)
    \/ Record(c)
    \/ Clear(c)
    \/ \E n \in Caps : SetCap(c, n)

Spec == Init /\ [][Next]_lvars
=============================================================================
