---------------------------- MODULE FrameDecoder ----------------------------
(***************************************************************************)
(* The incremental decoder of Content-Length frames (agentmesh-host,       *)
(* framing.rs), fed with the bytes of a stream in pieces of any size.  A   *)
(* step is a call (push or finish) or one turn of the loop of try_decode.  *)
(*                                                                         *)
(* A header is made of few symbols, each counted as one byte: "r" and "n"  *)
(* (CR and LF), "L" (Content-Length and its colon), "U" (another name and  *)
(* its colon), digits, "a" (a byte that names may have) and "x" (one that  *)
(* neither names nor values may have).  A body may hold any of them.       *)
(***************************************************************************)
EXTENDS Naturals, Sequences

CONSTANTS
    Streams,        \* what the plugin may write
    FrameMax,       \* frame_max_bytes
    BlockMax,       \* header_block_max_bytes
    LineMax,        \* header_line_max_bytes, its CR LF included
    LinesMax,       \* header_max_lines
    DigitsMax,      \* content_length_digits_max
    NoLength

Digits == {"0", "1", "2", "3", "4", "5", "6", "7", "8", "9"}
Symbols == Digits \cup {"r", "n", "L", "U", "a", "x"}

Answers == {"none", "frame", "framing", "too_large", "eof"}
Faults == {"framing", "too_large", "eof"}

ASSUME StreamsAssumption == Streams \subseteq Seq(Symbols)
ASSUME LimitsAssumption == {FrameMax, BlockMax, LineMax, LinesMax, DigitsMax} \subseteq Nat
ASSUME NoLengthAssumption == NoLength \notin Nat \cup Seq(Symbols) \cup Answers

VARIABLES
    unread,         \* what the stream still holds
    buf,            \* bytes pushed and not looked at
    block, lineStart, lines,    \* the header so far, where its last line starts, its lines
    length,         \* the body's length once the header is complete, or NoLength
    call,           \* the call under way
    frames,         \* the bodies returned
    answer,         \* what the last call returned
    pushed          \* history: every byte pushed

decoderVars == <<unread, buf, block, lineStart, lines, length, call, frames, answer, pushed>>

DecoderTypeOK ==
    /\ unread \in Seq(Symbols)
    /\ buf \in Seq(Symbols)
    /\ block \in Seq(Symbols)
    /\ lineStart \in 0 .. Len(block)
    /\ lines \in Nat
    /\ length \in Nat \cup {NoLength}
    /\ call \in {"idle", "push", "finish", "ended"}
    /\ frames \in Seq(Seq(Symbols))
    /\ answer \in Answers
    /\ pushed \in Seq(Symbols)

DecoderInit ==
    /\ unread \in Streams
    /\ buf = <<>>
    /\ block = <<>> /\ lineStart = 0 /\ lines = 0
    /\ length = NoLength
    /\ call = "idle"
    /\ frames = <<>>
    /\ answer = "none"
    /\ pushed = <<>>

-----------------------------------------------------------------------------
(* parse_headers: one line, and all of them *)

Blank == {"r", "n"}
Colons == {"L", "U"}
HasOnly(s, symbols) == \A i \in 1 .. Len(s) : s[i] \in symbols

(* What trim leaves of a string: from the first to the last byte that is not
   white space. *)
Kept(s) == {i \in 1 .. Len(s) : s[i] \notin Blank}
Trimmed(s) ==
    IF Kept(s) = {} THEN <<>>
    ELSE SubSeq(s, CHOOSE i \in Kept(s) : \A j \in Kept(s) : i <= j,
                   CHOOSE i \in Kept(s) : \A j \in Kept(s) : i >= j)

(* split_once(':'): the symbol with the first colon ends the name. *)
Colon(line) ==
    CHOOSE i \in 1 .. Len(line) :
        line[i] \in Colons /\ \A j \in 1 .. i - 1 : line[j] \notin Colons
Name(line) == Trimmed(SubSeq(line, 1, Colon(line)))
Value(line) == Trimmed(SubSeq(line, Colon(line) + 1, Len(line)))

IsHeader(line) ==
    /\ \E i \in 1 .. Len(line) : line[i] \in Colons
    /\ HasOnly(Name(line), Symbols \ {"r", "n", "x"})
    /\ HasOnly(Value(line), Symbols \ {"r", "n", "x"})
IsContentLength(line) == Name(line) = <<"L">>

DigitValue == [d \in Digits |->
    CASE d = "0" -> 0 [] d = "1" -> 1 [] d = "2" -> 2 [] d = "3" -> 3 [] d = "4" -> 4
      [] d = "5" -> 5 [] d = "6" -> 6 [] d = "7" -> 7 [] d = "8" -> 8 [] d = "9" -> 9]
Number(value) ==
    LET prefix[n \in 0 .. Len(value)] ==
            IF n = 0 THEN 0 ELSE 10 * prefix[n - 1] + DigitValue[value[n]]
    IN prefix[Len(value)]

(* A number in digits, without leading zeros: of the numbers that DigitsMax
   digits can write. *)
Decimals == UNION {[1 .. k -> Digits] : k \in 1 .. DigitsMax}
Decimal(n) == CHOOSE w \in Decimals : Number(w) = n /\ (Len(w) = 1 \/ w[1] # "0")

\* FrameEncoder::encode.
Encode(body) == <<"L">> \o Decimal(Len(body)) \o <<"r", "n", "r", "n">> \o body

\* Faulty variant: the number is not compared.
HasTooManyDigits(value) == Len(value) > DigitsMax
\* More digits than a length may have, or a number over the limit.
IsTooLarge(value) == Len(value) > DigitsMax \/ Number(value) > FrameMax

\* What is wrong with a line, after the length that earlier lines declared.
LengthFault(value, declared) ==
    IF declared # NoLength \/ value = <<>> \/ ~HasOnly(value, Digits) THEN "framing"
    ELSE IF IsTooLarge(value) THEN "too_large"
    ELSE NoLength
LineFault(line, declared) ==
    IF ~IsHeader(line) THEN "framing"
    ELSE IF ~IsContentLength(line) THEN NoLength
    ELSE LengthFault(Value(line), declared)

(* The lines in turn: the declared length so far, and the first fault. *)
AfterLine(before, line) ==
    LET fault == LineFault(line, before.length)
    IN IF before.fault # NoLength THEN before
       ELSE IF fault # NoLength THEN [before EXCEPT !.fault = fault]
       ELSE IF IsContentLength(line) THEN [before EXCEPT !.length = Number(Value(line))]
       ELSE before
AfterAll(end) ==
    IF end.fault = NoLength /\ end.length = NoLength THEN [end EXCEPT !.fault = "framing"] ELSE end
Parsed(headers) ==
    LET after[n \in 0 .. Len(headers)] ==
            IF n = 0 THEN [length |-> NoLength, fault |-> NoLength]
            ELSE AfterLine(after[n - 1], headers[n])
    IN AfterAll(after[Len(headers)])

\* Where a CR LF ends in s, and the lines between them.
Breaks(s) == {i \in 2 .. Len(s) : s[i - 1] = "r" /\ s[i] = "n"}
LineBefore(s, b) ==
    LET earlier == {0} \cup {c \in Breaks(s) : c < b}
    IN CHOOSE c \in earlier : \A d \in earlier : d <= c
HeaderLines(s) ==
    LET ends == Breaks(s)
        upTo[n \in 0 .. Len(s)] ==
            IF n = 0 THEN <<>>
            ELSE IF n \in ends THEN Append(upTo[n - 1], SubSeq(s, LineBefore(s, n) + 1, n - 2))
            ELSE upTo[n - 1]
    IN upTo[Len(s)]

-----------------------------------------------------------------------------

\* push: bytes are appended, whatever is still in the buffer.
Push(n) ==
    /\ call = "idle" /\ n <= Len(unread)
    /\ buf' = buf \o SubSeq(unread, 1, n)
    /\ pushed' = pushed \o SubSeq(unread, 1, n)
    /\ unread' = SubSeq(unread, n + 1, Len(unread))
    /\ call' = "push"
    /\ UNCHANGED <<block, lineStart, lines, length, frames, answer>>

(* finish, at the end of the stream: an empty buffer between two frames is
   fine, and whatever is left is tried once more. *)
Finish ==
    /\ call = "idle" /\ unread = <<>>
    /\ IF buf # <<>>
       THEN call' = "finish" /\ UNCHANGED answer
       ELSE /\ call' = "ended"
            /\ answer' = IF length = NoLength /\ block = <<>> THEN "none" ELSE "eof"
    /\ UNCHANGED <<unread, buf, block, lineStart, lines, length, frames, pushed>>

\* The call is over: an error is the last thing a decoder says.
Answer(what) ==
    /\ answer' = IF what = "none" /\ call = "finish" THEN "eof" ELSE what
    /\ call' = IF call = "finish" \/ what \in Faults THEN "ended" ELSE "idle"

(* One byte of the header.  The limits are looked at before the end of the
   line is. *)
EndsLine(s) == Len(s) >= 2 /\ s[Len(s) - 1] = "r" /\ s[Len(s)] = "n"

\* The blank line: the header is parsed.
EndHeader(parsed) ==
    \/ parsed.fault = NoLength /\ length' = parsed.length /\ UNCHANGED <<call, answer>>
    \/ parsed.fault # NoLength /\ Answer(parsed.fault) /\ UNCHANGED length

ReadHeaderByte ==
    LET longer == Append(block, Head(buf))
        isBlank == lineStart = Len(longer) - 2
    IN
    /\ call \in {"push", "finish"} /\ length = NoLength /\ buf # <<>>
    /\ buf' = Tail(buf)
    /\ block' = longer
    /\ \/ /\ Len(longer) > BlockMax \/ Len(longer) - lineStart > LineMax
          /\ Answer("framing")
          /\ UNCHANGED <<lineStart, lines, length>>
       \/ /\ Len(longer) <= BlockMax /\ Len(longer) - lineStart <= LineMax
          /\ \/ /\ ~EndsLine(longer)
                /\ UNCHANGED <<lineStart, lines, length, call, answer>>
             \/ /\ EndsLine(longer) /\ isBlank
                /\ EndHeader(Parsed(HeaderLines(SubSeq(longer, 1, lineStart))))
                /\ UNCHANGED <<lineStart, lines>>
             \/ /\ EndsLine(longer) /\ ~isBlank
                /\ lines' = lines + 1
                /\ lineStart' = IF lines' > LinesMax THEN lineStart ELSE Len(longer)
                /\ IF lines' > LinesMax THEN Answer("framing") ELSE UNCHANGED <<call, answer>>
                /\ UNCHANGED length
    /\ UNCHANGED <<unread, frames, pushed>>

\* Faulty variant: what follows the body in the buffer is dropped with it.
BufferCleared(n) == <<>>
Rest(n) == SubSeq(buf, n + 1, Len(buf))

\* The body is complete: one frame per call, the rest stays in the buffer.
ReturnFrame ==
    /\ call \in {"push", "finish"} /\ length # NoLength /\ Len(buf) >= length
    /\ frames' = Append(frames, SubSeq(buf, 1, length))
    /\ buf' = Rest(length)
    /\ block' = <<>> /\ lineStart' = 0 /\ lines' = 0
    /\ length' = NoLength
    /\ Answer("frame")
    /\ UNCHANGED <<unread, pushed>>

NeedMore ==
    /\ call \in {"push", "finish"}
    /\ IF length = NoLength THEN buf = <<>> ELSE Len(buf) < length
    /\ Answer("none")
    /\ UNCHANGED <<unread, buf, block, lineStart, lines, length, frames, pushed>>

DecoderNext ==
    \/ \E n \in 1 .. Len(unread) : Push(n)
    \/ Finish \/ ReadHeaderByte \/ ReturnFrame \/ NeedMore

DecoderSpec == DecoderInit /\ [][DecoderNext]_decoderVars

-----------------------------------------------------------------------------
(* The reference: what a whole stream means, said without a state *)

Suffix(s, from) == SubSeq(s, from + 1, Len(s))
HeaderEnds(s) == {b \in Breaks(s) : LineBefore(s, b) = b - 2}

\* The header of the first frame: its end, or that of s when there is none.
HeaderEnd(s) ==
    IF HeaderEnds(s) = {} THEN Len(s)
    ELSE CHOOSE b \in HeaderEnds(s) : \A c \in HeaderEnds(s) : b <= c

\* A header byte that no header may reach.
IsBeyondLimits(s) ==
    \E i \in 1 .. HeaderEnd(s) :
        \/ i > BlockMax
        \/ i - LineBefore(s, i) > LineMax
        \/ Len(HeaderLines(SubSeq(s, 1, i))) > (IF i \in HeaderEnds(s) THEN LinesMax + 1 ELSE LinesMax)

(* The first frame of s, whose header ends there and says that: its body and
   where it ends, a fault, or not yet known ("none"). *)
FirstWith(s, end, header) ==
    LET unknown == [says |-> "none", body |-> <<>>, end |-> 0]
    IN IF IsBeyondLimits(s) THEN [unknown EXCEPT !.says = "framing"]
       ELSE IF HeaderEnds(s) = {} THEN unknown
       ELSE IF header.fault # NoLength THEN [unknown EXCEPT !.says = header.fault]
       ELSE IF Len(s) < end + header.length THEN unknown
       ELSE [says |-> "frame", body |-> SubSeq(s, end + 1, end + header.length),
             end |-> end + header.length]
First(s) ==
    FirstWith(s, HeaderEnd(s), Parsed(HeaderLines(SubSeq(s, 1, HeaderEnd(s) - 2))))

(* The frames of s from an offset on, and what is said of the rest. *)
Reference(s) ==
    LET from[i \in 0 .. Len(s)] ==
            LET first == First(Suffix(s, i))
            IN IF first.says = "frame"
               THEN [from[i + first.end] EXCEPT !.bodies = <<first.body>> \o @]
               ELSE [bodies |-> <<>>, says |-> first.says, rest |-> Len(s) - i]
    IN from[0]

-----------------------------------------------------------------------------
(* Properties *)

IsExact(reference) ==
    LET isAll == frames = reference.bodies
    IN /\ Len(frames) <= Len(reference.bodies)
       /\ frames = SubSeq(reference.bodies, 1, Len(frames))
       /\ answer = "none" => isAll /\ reference.says = "none"
       /\ answer \in {"framing", "too_large"} => isAll /\ reference.says = answer
       /\ answer = "eof" => isAll /\ reference.says = "none" /\ reference.rest > 0
       /\ call = "ended" /\ answer = "none" => reference.rest = 0

(* However a stream is cut into pieces, the decoder returns the frames of the
   stream and no others, in order; it reports the fault that the stream has,
   not before the frames that precede it; it asks for more only when what was
   pushed holds no further frame; and it ends well only on whole frames. *)
DecodingIsExact == call \in {"idle", "ended"} => IsExact(Reference(pushed))

(* The decoder "never uses unbounded read_line": no header grows beyond its
   block, and no body is waited for with more than the frame's limit; what a
   caller that pushes on while the answer is none leaves in the buffer is less
   than one frame. *)
BufferIsBounded ==
    /\ DecoderTypeOK
    /\ call # "ended" => Len(block) <= BlockMax /\ Len(block) - lineStart <= LineMax
    /\ lines <= LinesMax + 1
    /\ length # NoLength => length <= FrameMax
    /\ call = "idle" /\ answer = "none" =>
         IF length = NoLength THEN buf = <<>> ELSE Len(buf) < length

=============================================================================
