---------------------------- MODULE MCLlmGateway ----------------------------
(* Small instances of LlmGateway for TLC.                                  *)
EXTENDS LlmGateway, TLC

CONSTANTS r1, r2, vllm, groq, groqBig, openai

(* build_default_tiered_client with LLM_PRIMARY=groq ...                   *)
GroqFirst == ("venue" :> vllm) @@ ("default" :> groq)
             @@ ("escalation" :> groqBig) @@ ("fallback" :> openai)

(* ... and with LLM_PRIMARY=openai, where one client has two roles.        *)
OpenAIFirst == ("venue" :> vllm) @@ ("default" :> openai)
               @@ ("escalation" :> openai) @@ ("fallback" :> groq)

Symmetry == Permutations(Requests)
=============================================================================
