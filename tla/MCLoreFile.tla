----------------------------- MODULE MCLoreFile -----------------------------
(* Constants for the model-checking runs of Knowledge and LoreFile. *)
EXTENDS LoreFile

CONSTANTS app, lib, s1, s2, lock, locks, build, test, old, mid, new

MCProjectOf == (s1 :> app) @@ (s2 :> lib)

\* Two titles for one concept, and another concept.
MCNearTitles == {<<lock, locks>>, <<locks, lock>>, <<lock, lock>>, <<locks, locks>>}
\* The middle text is like the two others, which are not alike.
MCNearTexts  == {<<old, mid>>, <<mid, old>>, <<mid, new>>, <<new, mid>>}

Short == [text |-> old, len |-> 1, lines |-> 1, links |-> {}]
Long  == [text |-> new, len |-> 3, lines |-> 2, links |-> {}]
Link  == [text |-> mid, len |-> 1, lines |-> 1, links |-> {1}]
MCContents == {Short, Long, Link}

Add(title, content, global, cross) ==
    [op |-> "create", title |-> title, content |-> content, global |-> global, cross |-> cross, conf |-> Keep]
Edit1(i, content, conf) == [op |-> "update", id |-> i, content |-> content, conf |-> conf]
Drop(i) == [op |-> "delete", id |-> i]

MCAnswers == {<<Add(lock, Short, FALSE, TRUE)>>, <<Add(build, Link, FALSE, FALSE)>>,
              <<Edit1(1, Long, Keep)>>, <<Edit1(2, Keep, 2)>>, <<Edit1(2, Keep, 1)>>, <<Drop(1)>>,
              <<Drop(1), Add(locks, Short, TRUE, TRUE)>>}

MCPatterns == {[title |-> build, content |-> Short, conf |-> Keep]}

MCHandWritten == {[id |-> NoId, title |-> title, content |-> Flat(Long)] : title \in {locks, test}}
=============================================================================
