---------------------------- MODULE MCLlmGateway ----------------------------
(* Instances of LlmGateway for TLC: which payloads are of which kind.      *)
EXTENDS LlmGateway, TLC

CONSTANTS chat, stream, embed, get

KindOf == [p \in Payload |-> CASE p = chat -> "chat"
                               [] p = stream -> "stream"
                               [] p = embed -> "embed"
                               [] p = get -> "get"]
=============================================================================
