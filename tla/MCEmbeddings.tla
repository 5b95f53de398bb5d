---------------------------- MODULE MCEmbeddings ----------------------------
(* Constants for the model-checking runs of Embeddings. *)
EXTENDS Embeddings

\* Two entries that do not fit into one batch, a distillation and a message.
MCTable == [i \in Rows |-> CASE i = "segment" -> "distillations" [] i = "turn" -> "messages" [] OTHER -> "knowledge"]
MCTokens == [i \in Rows |-> IF i = "port" THEN 3 ELSE 2]

\* Only an entry and a message change.
MCMaxText == [i \in Rows |-> IF i = "port" THEN 2 ELSE 1]

\* The default local model, and a remote one.
MCProviderOf == ("nomic" :> "local") @@ ("voyage" :> "remote")
=============================================================================
