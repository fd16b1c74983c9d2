----------------------------- MODULE ScanHandoff -----------------------------
(***************************************************************************)
(* What BuyScan promises: scans do not overlap, whoever abandoned them;    *)
(* a scan's outcome is handed to the cycle that started it, once, after    *)
(* its worker is through, or to nobody.                                    *)
(***************************************************************************)
CONSTANTS Scan, NoScan

VARIABLES
  worker,  \* the scan that is running, or NoScan
  owner,   \* the scan the open cycle means to collect, or NoScan
  stage,   \* how far the owner is
  outcome, \* the scan whose outcome the cycle's last join brought, or NoScan
  handed   \* how many of the cycle's joins brought one

vars == <<worker, owner, stage, outcome, handed>>

Init ==
  /\ worker = NoScan /\ owner = NoScan /\ stage = "off"
  /\ outcome = NoScan /\ handed = 0

(* A cycle scans by itself and keeps what it finds. *)
ScanAlone(s) ==
  /\ stage = "off" /\ worker = NoScan
  /\ worker' = s
  /\ UNCHANGED <<owner, stage, outcome, handed>>

(* A cycle may have a worker scan for it, which it then launches. *)
Claim(s) ==
  /\ stage = "off" /\ worker = NoScan
  /\ owner' = s /\ stage' = "claimed"
  /\ UNCHANGED <<worker, outcome, handed>>

Launch ==
  /\ stage = "claimed"
  /\ worker' = owner /\ stage' = "launched"
  /\ UNCHANGED <<owner, outcome, handed>>

(* A scan ends, whatever became of the cycle that started it. *)
Finish ==
  /\ worker # NoScan
  /\ worker' = NoScan
  /\ UNCHANGED <<owner, stage, outcome, handed>>

Hand ==
  /\ stage = "launched" /\ worker = NoScan /\ handed = 0
  /\ outcome' = owner /\ handed' = 1
  /\ UNCHANGED <<worker, owner, stage>>

(* Who joins again after that gets nothing. *)
JoinAgain ==
  /\ handed = 1
  /\ outcome' = NoScan
  /\ UNCHANGED <<worker, owner, stage, handed>>

(* The cycle ends; a worker it left behind goes on. *)
Leave ==
  /\ stage # "off"
  /\ owner' = NoScan /\ stage' = "off"
  /\ outcome' = NoScan /\ handed' = 0
  /\ UNCHANGED worker

Next ==
  \/ \E s \in Scan : ScanAlone(s) \/ Claim(s)
  \/ Launch \/ Finish \/ Hand \/ JoinAgain \/ Leave

Spec == Init /\ [][Next]_vars
=============================================================================
