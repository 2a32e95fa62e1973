------------------------------- MODULE Chunker -------------------------------
(***************************************************************************)
(* SplitDocument's loop: where a chunk ends and where the next one starts. *)
(* A text is what is left of a content after TrimSpace, rune by rune; a     *)
(* rune is told apart only by whether it is white space, one of the marks   *)
(* that end a sentence, or anything else.  Positions count from 1, so the   *)
(* slice runes[start:end] of the code is start + 1 .. end here.             *)
(***************************************************************************)
EXTENDS Integers, Sequences

Runes == {"letter", "space", "stop"}

(* What TrimSpace can leave of a content. *)
Trimmed(text) == text # <<>> => text[1] # "space" /\ text[Len(text)] # "space"

Boundary(text, i) == text[i] \in {"space", "stop"}

(* The last boundary in the part of the window the code looks at.           *)
FindBoundary(text, start, end) ==
    LET found == {i \in (start + end \div 4 + 1)..end : Boundary(text, i)}
    IN  IF found = {} THEN end
        ELSE CHOOSE i \in found : \A j \in found : j <= i

EndOf(text, start, max) ==
    LET end == IF start + max > Len(text) THEN Len(text) ELSE start + max
        boundary == FindBoundary(text, start, end)
    IN  IF end < Len(text) /\ boundary > start THEN boundary ELSE end

(* A variant of NextStart: the next chunk starts a rune further on. *)
NextStartFurther(end, overlap) == end - overlap + 1

NextStart(end, overlap) == end - overlap

(* strings.TrimSpace(runes[start:end]) == "" *)
Blank(text, start, end) == \A i \in (start + 1)..end : text[i] = "space"

=============================================================================
