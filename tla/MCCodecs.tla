------------------------------ MODULE MCCodecs ------------------------------
(***************************************************************************)
(* The frames, the base64 text and the hash: three machines that share no  *)
(* state, one of them at work in each behaviour.                           *)
(***************************************************************************)
EXTENDS IpcProtocol, Base64, Sha256

VARIABLE job

SmallBodies == {<<>>, <<1>>, <<0, 2>>, <<2, 1, 3>>, <<1, 0, 0, 1>>}

AllSizes == 0..MaxBytes

Init ==
  /\ job \in {"frames", "text", "hash"}
  /\ ProtocolInit /\ Base64Init /\ HashInit

Next ==
  \/ /\ job = "frames" /\ ProtocolNext
     /\ UNCHANGED <<job, data, hashVars>>
  \/ /\ job = "text" /\ Base64Next
     /\ UNCHANGED <<job, protocolVars, hashVars>>
  \/ /\ job = "hash" /\ HashNext
     /\ UNCHANGED <<job, protocolVars, data>>

Spec == Init /\ [][Next]_<<job, protocolVars, data, hashVars>> /\ ProtocolFairness
=============================================================================
