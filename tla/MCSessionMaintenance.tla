------------------------ MODULE MCSessionMaintenance ------------------------
(* Small instances of SessionMaintenance for TLC: two keys of a configured *)
(* category and of one whose name begins like it, and the credentials.     *)
EXTENDS SessionMaintenance

CONSTANTS i1, i2, creds, sk, skm, senderKey, senderKeyMemory

Keys == {creds, sk, skm}
Categories == {senderKey, senderKeyMemory}
Homes == [k \in {sk, skm} |-> IF k = sk THEN senderKey ELSE senderKeyMemory]
Prefixes == {<<senderKey, senderKeyMemory>>}
Ages == [c \in {senderKey} |-> 1]
Batches == {{sk}, Keys}
=============================================================================
