------------------------------ MODULE KeyFile -------------------------------
(***************************************************************************)
(* read_api_key_from_file, while another program may write the file: the   *)
(* size is asked for first, the contents are read later, and what is read  *)
(* loses the blanks at both ends.  A character is a blank or a letter.     *)
(***************************************************************************)
EXTENDS Naturals, Sequences

CONSTANTS
    Blank, Letters,
    MaxSize,        \* bound: of the file
    MaxWrites       \* bound: of the writer

Texts == UNION {[1..n -> Letters \cup {Blank}] : n \in 0..MaxSize}

VARIABLES
    file,       \* what the file holds
    writes,     \* how often it was rewritten
    pc,
    size,       \* file_size
    buffer,
    key,        \* *key_out
    status,
    open,       \* is infile open?
    seen        \* history: the file and its number of writes at ftell

vars == <<file, writes, pc, size, buffer, key, status, open, seen>>

Init ==
    /\ file \in Texts
    /\ writes = 0
    /\ pc = "begin"
    /\ size = 0
    /\ buffer = <<>>
    /\ key = <<>>
    /\ status = "none"
    /\ open = FALSE
    /\ seen = [file |-> file, writes |-> 0]

(* The other program: the file is another one from now on. *)
Write ==
    /\ writes < MaxWrites
    /\ pc # "returned"
    /\ file' \in Texts
    /\ writes' = writes + 1
    /\ UNCHANGED <<pc, size, buffer, key, status, open, seen>>

Fail ==
    /\ pc' = "returned"
    /\ status' = "API_KEY_READ_ERROR"
    /\ open' = FALSE
    /\ UNCHANGED <<file, writes, size, buffer, key, seen>>

(* A null pointer or a failing fopen. *)
OpenFails == pc = "begin" /\ Fail

Open ==
    /\ pc = "begin"
    /\ open' = TRUE
    /\ pc' = "size"
    /\ UNCHANGED <<file, writes, size, buffer, key, status, seen>>

(* ftell of something that has no size, or the first malloc. *)
SizeFails == pc = "size" /\ Fail

AskSize ==
    /\ pc = "size"
    /\ size' = Len(file)
    /\ seen' = [file |-> file, writes |-> writes]
    /\ pc' = "read"
    /\ UNCHANGED <<file, writes, buffer, key, status, open>>

(* The file is shorter by now. *)
ReadFails == pc = "read" /\ Len(file) < size /\ Fail

(* fread takes the old number of characters from the new contents. *)
Read ==
    /\ pc = "read"
    /\ Len(file) >= size
    /\ buffer' = SubSeq(file, 1, size)
    /\ open' = FALSE
    /\ pc' = "trim"
    /\ UNCHANGED <<file, writes, size, key, status, seen>>

(* The second malloc. *)
TrimFails == pc = "trim" /\ Fail

Printing == {n \in 1..size : buffer[n] # Blank}

(* begin and end, where the two loops stop. *)
Begin == CHOOSE b \in 0..size :
    /\ b = size \/ b + 1 \in Printing
    /\ \A n \in 1..b : n \notin Printing

End == CHOOSE e \in Begin..size :
    /\ e = Begin \/ e \in Printing
    /\ \A n \in e + 1 .. size : n \notin Printing

(* Mutant of Trim: the newline at the end only. *)
TrimEnd ==
    /\ pc = "trim"
    /\ key' = SubSeq(buffer, 1, End)
    /\ status' = "API_KEY_READ_OK"
    /\ pc' = "returned"
    /\ UNCHANGED <<file, writes, size, buffer, open, seen>>

Trim ==
    /\ pc = "trim"
    /\ key' = SubSeq(buffer, Begin + 1, End)
    /\ status' = "API_KEY_READ_OK"
    /\ pc' = "returned"
    /\ UNCHANGED <<file, writes, size, buffer, open, seen>>

Reader ==
    \/ OpenFails \/ Open \/ SizeFails \/ AskSize
    \/ ReadFails \/ Read \/ TrimFails \/ Trim

Next == Write \/ Reader

Spec == Init /\ [][Next]_vars

-----------------------------------------------------------------------------
(* Types; and the file is open where it is read, and nowhere after. *)
TypeOK ==
    /\ file \in Texts
    /\ writes \in 0..MaxWrites
    /\ pc \in {"begin", "size", "read", "trim", "returned"}
    /\ open = (pc \in {"size", "read"})
    /\ size \in 0..MaxSize
    /\ buffer \in Texts /\ key \in Texts
    /\ status \in {"none", "API_KEY_READ_OK", "API_KEY_READ_ERROR"}
    /\ status # "none" <=> pc = "returned"

IsBlank(text) == \A n \in 1..Len(text) : text[n] = Blank

(* text is blanks, then key, then blanks, and key cannot be made shorter. *)
IsTrimmed(text, trimmed) ==
    /\ \E b \in 0..Len(text) - Len(trimmed) :
        /\ IsBlank(SubSeq(text, 1, b))
        /\ trimmed = SubSeq(text, b + 1, b + Len(trimmed))
        /\ IsBlank(SubSeq(text, b + Len(trimmed) + 1, Len(text)))
    /\ trimmed # <<>> => trimmed[1] # Blank /\ trimmed[Len(trimmed)] # Blank

(* "trim leading/trailing whitespace so newline-terminated files work out  *)
(* of the box" (bkk_stop_utils.c:50): if nobody writes between ftell and   *)
(* fread, the key is the whole file without its outer blanks, a file of    *)
(* blanks being the empty key.  A file written in between may give the     *)
(* beginning of its new contents, which is trimmed all the same.           *)
KeyIsTrimmedFile ==
    status = "API_KEY_READ_OK" =>
        /\ IsTrimmed(buffer, key)
        /\ writes = seen.writes => IsTrimmed(seen.file, key)
=============================================================================
