------------------------- MODULE MCSessionIdentity -------------------------
(* Constants for the model-checking runs of SessionIdentity. *)
EXTENDS SessionIdentity, TLC

MCKnownHeaders == <<"x-lore-session-id", "x-claude-code-session-id", "x-session-affinity">>

\* An editor with a volatile header that is upgraded to the plugin's, a client
\* with a stable header of its own, and a client without a known header.
MCConvs == {"editor", "code", "plain"}
MCSends == [editor |-> {"x-session-affinity"}, code |-> {"x-claude-code-session-id"}, plain |-> {}]
MCAdds == [editor |-> {"x-lore-session-id"}, code |-> {}, plain |-> {}]
MCFirst == [editor |-> "a", code |-> "b", plain |-> "c"]
MCClientId == [editor |-> NoId, code |-> "desk", plain |-> "laptop"]
MCParent == [c \in MCConvs |-> NoConv]
MCSent == [editor |-> 2, code |-> 1, plain |-> 3]

\* A client with a stable header.
OneSends == [code |-> {"x-claude-code-session-id"}]
OneAdds == [code |-> {}]
OneFirst == [code |-> "b"]
OneClientId == [code |-> NoId]
OneParent == [code |-> NoConv]
OneSent == [code |-> 2]

\* A client and its sub-agent, each with its own value of one header.
SubConvs == {"main", "agent"}
SubSends == [c \in SubConvs |-> {"x-session-affinity"}]
SubAdds == [c \in SubConvs |-> {}]
SubFirst == [main |-> "a", agent |-> "b"]
SubClientId == [c \in SubConvs |-> NoId]
SubParent == [main |-> NoConv, agent |-> "main"]
SubSent == [main |-> 2, agent |-> 1]

\* A client without known headers, of many requests, and another to tell it from.
LearnConvs == {"code", "plain"}
LearnSends == [code |-> {"x-claude-code-session-id"}, plain |-> {}]
LearnAdds == [c \in LearnConvs |-> {}]
LearnFirst == [code |-> "b", plain |-> "c"]
LearnClientId == [code |-> "desk", plain |-> "laptop"]
LearnParent == [c \in LearnConvs |-> NoConv]
LearnSent == [code |-> 1, plain |-> 5]

Interchangeable == Permutations(Requests)
=============================================================================
