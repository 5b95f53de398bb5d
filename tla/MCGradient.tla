---------------------------- MODULE MCGradient ----------------------------
(* Constants for the model-checking runs of Gradient. *)
EXTENDS GradientHistory

CONSTANTS s1, r1, small, large, file

Said(kind, size) == [kind |-> kind, size |-> size, reads |-> NoRead]
WholeFile == [path |-> file, first |-> 0, last |-> 0]
Ask    == Said("user", 1)
Tell   == Said("text", 1)
Essay  == Said("text", 4)
Peek   == [kind |-> "tool", size |-> 4, reads |-> WholeFile]
Read   == [kind |-> "tool", size |-> 11, reads |-> WholeFile]

Turns == {Ask, Tell, Peek, Read}
Answers == {Tell, Read}
Beginnings == {<<Ask, Peek, Ask, Tell, Ask>>}

LongTurns == {Ask, Essay, Peek}
LongAnswers == {Essay, Peek}
Rewrites == {<<Ask, Essay, Ask, Essay, Ask>>, <<Ask, Peek, Ask, Peek, Ask>>}
Talk == {<<Ask, Essay, Ask, Essay, Ask>>}

PriceList(max) == [max |-> max, cap |-> 6, write |-> 1, read |-> 2]
OneModel == [m \in {small} |-> PriceList(30)]
TwoModels == [m \in {small, large} |-> PriceList(IF m = small THEN 10 ELSE 40)]
=============================================================================
