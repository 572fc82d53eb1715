----------------------------- MODULE MCSamples -----------------------------
(* Small instances of FirmwareUpdate and LightBulb for TLC.  The two share *)
(* no variable, and a restart, which is all the update does to the bulb,   *)
(* comes anywhere in LightBulb; so a behaviour of both is one of each, and *)
(* the run looks at one of them at a time.                                 *)
EXTENDS FirmwareUpdate, LightBulb

VARIABLE part       \* the one this behaviour is about

SamplesInit == UpdateInit /\ BulbInit /\ part \in {"update", "bulb"}

SamplesNext ==
    /\ UNCHANGED part
    /\ \/ part = "update" /\ UpdateNext /\ UNCHANGED bulbVars
       \/ part = "bulb" /\ BulbNext /\ UNCHANGED updateVars

SamplesSpec ==
    SamplesInit /\ [][SamplesNext]_<<updateVars, bulbVars, part>> /\ UpdateFairness

=============================================================================
