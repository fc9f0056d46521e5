---------------------------- MODULE MC_Recorders ----------------------------
(* The two recorders of the MQTT stream.  They share nothing but the broker, *)
(* so each is explored by itself, in the same run.                           *)
EXTENDS Journal, InfluxBridge

VARIABLE recorder   \* which of them this behaviour is about
recordersVars == <<recorder, journalVars, bridgeVars>>

RecordersTypeOK == JournalTypeOK /\ BridgeTypeOK

RecordersInit == recorder \in {"journal", "bridge"} /\ JournalInit /\ BridgeInit
RecordersNext ==
  \/ recorder = "journal" /\ JournalNext /\ UNCHANGED <<recorder, bridgeVars>>
  \/ recorder = "bridge" /\ BridgeNext /\ UNCHANGED <<recorder, journalVars>>
RecordersSpec ==
  RecordersInit /\ [][RecordersNext]_recordersVars /\ (recorder = "bridge" => BridgeFairness)
=============================================================================
