--------------------------------- MODULE Format ---------------------------------
(***************************************************************************)
(* One conversion of printf (lib/stdio.c): parse_conversion's treatment of *)
(* flags, width and precision, the conversion of an integer or a string,   *)
(* and vsnprintf's buffer.  Characters are strings of length one.          *)
(***************************************************************************)
EXTENDS Integers, Sequences, SequencesExt

CONSTANTS
  Conversions,  \* the conversions to try: spec, type, value, str, flags, width, precision
  BufSizes,     \* the sizes of the caller's buffer
  DigitBuf,     \* the size of format_integer's buffer, 64 in the code
  NULL

VARIABLES
  conv,   \* struct printf_conversion, with the argument
  digits, \* format_integer: what is left of the value, and the digits in buf, last one first
  todo,   \* what is still to be put out, or NULL
  aux,    \* struct vsnprintf_aux: its buffer's size and content, and length
  sent    \* everything put out

formatVars == <<conv, digits, todo, aux, sent>>

BaseOf(spec) ==
  CASE spec \in {"d", "u"} -> [base |-> 10, x |-> << >>, group |-> 3]
    [] spec = "o" -> [base |-> 8, x |-> << >>, group |-> 3]
    [] spec = "x" -> [base |-> 16, x |-> <<"0", "x">>, group |-> 4]
Base == BaseOf(conv.spec)

DigitChar == <<"0", "1", "2", "3", "4", "5", "6", "7", "8", "9", "a", "b", "c", "d", "e", "f">>

(* What va_arg and the cast to the type of the conversion leave of a value. *)
Bits == [char |-> 8, short |-> 16]
Argument(c) ==
  IF c.type = "int" THEN c.value
  ELSE LET m == 2 ^ Bits[c.type] IN
       IF c.spec = "d" THEN ((c.value + m \div 2) % m) - m \div 2 ELSE c.value % m
Magnitude(c) == IF Argument(c) < 0 THEN - Argument(c) ELSE Argument(c)

(* parse_conversion: of two flags that exclude each other one is dropped.  *)
Flags(c) ==
  LET given == c.flags \ ((IF "minus" \in c.flags THEN {"zero"} ELSE {})
                          \cup (IF "plus" \in c.flags THEN {"space"} ELSE {}))
      turned == given \cup (IF c.width < 0 THEN {"minus"} ELSE {})
  IN  IF c.precision >= 0 THEN turned \ {"zero"} ELSE turned
Width(c) == IF c.width < 0 THEN - c.width ELSE c.width

FormatInit ==
  /\ conv \in Conversions
  /\ digits = [value |-> Magnitude(conv), buf |-> << >>, cnt |-> 0]
  /\ todo = NULL
  /\ aux \in { [size |-> n, buf |-> << >>, length |-> 0] : n \in BufSizes }
  /\ sent = << >>

(* One round of format_integer's loop over the digits.                     *)
Digit ==
  /\ conv.spec # "s" /\ todo = NULL /\ digits.value > 0
  /\ LET comma == "group" \in Flags(conv) /\ digits.cnt > 0 /\ digits.cnt % Base.group = 0
     IN  digits' = [value |-> digits.value \div Base.base,
                    buf |-> digits.buf \o (IF comma THEN <<",">> ELSE << >>)
                                       \o <<DigitChar[(digits.value % Base.base) + 1]>>,
                    cnt |-> digits.cnt + 1]
  /\ UNCHANGED <<conv, todo, aux, sent>>

Dup(ch, n) == [i \in 1..n |-> ch]
NotNegative(n) == IF n < 0 THEN 0 ELSE n

(* Zeros up to the precision, as long as buf has room for them.            *)
Precision(buf) ==
  LET wanted == IF conv.precision < 0 THEN 1 ELSE conv.precision
      room == DigitBuf - 1
  IN  buf \o Dup("0", NotNegative((IF wanted < room THEN wanted ELSE room) - Len(buf)))

(* With # an octal number begins with a zero. *)
Octal(buf) ==
  IF "pound" \in Flags(conv) /\ Base.base = 8 /\ (buf = << >> \/ Last(buf) # "0")
    THEN Append(buf, "0") ELSE buf

Sign ==
  IF conv.spec # "d" THEN << >>
  ELSE IF Argument(conv) < 0 THEN <<"-">>
  ELSE IF "plus" \in Flags(conv) THEN <<"+">>
  ELSE IF "space" \in Flags(conv) THEN <<" ">> ELSE << >>
Prefix == IF "pound" \in Flags(conv) /\ Argument(conv) # 0 THEN Base.x ELSE << >>

(* A field whose sign is not counted. *)
PadOfDigits(n) == NotNegative(Width(conv) - n)
Pad(n) == NotNegative(Width(conv) - n - Len(Prefix) - Len(Sign))

(* format_integer, once the digits are there. *)
FormatInteger ==
  /\ conv.spec # "s" /\ todo = NULL /\ digits.value = 0
  /\ LET buf == Octal(Precision(digits.buf))
         pad == Pad(Len(buf))
         flags == Flags(conv)
     IN  /\ digits' = [digits EXCEPT !.buf = buf]
         /\ todo' = (IF flags \cap {"minus", "zero"} = {} THEN Dup(" ", pad) ELSE << >>)
                    \o Sign \o Prefix
                    \o (IF "zero" \in flags THEN Dup("0", pad) ELSE << >>)
                    \o Reverse(buf)
                    \o (IF "minus" \in flags THEN Dup(" ", pad) ELSE << >>)
  /\ UNCHANGED <<conv, aux, sent>>

(* format_string, of no more of the string than the precision says. *)
FormatString ==
  /\ conv.spec = "s" /\ todo = NULL
  /\ LET n == IF conv.precision >= 0 /\ conv.precision < Len(conv.str)
                THEN conv.precision ELSE Len(conv.str)
         pad == Dup(" ", NotNegative(Width(conv) - n))
         text == SubSeq(conv.str, 1, n)
     IN  todo' = IF "minus" \in Flags(conv) THEN text \o pad ELSE pad \o text
  /\ UNCHANGED <<conv, digits, aux, sent>>

MaxLength == IF aux.size > 0 THEN aux.size - 1 ELSE 0

(* vsnprintf_helper: every character counts, those that fit are stored.    *)
Output ==
  /\ todo # NULL /\ todo # << >>
  /\ todo' = Tail(todo) /\ sent' = Append(sent, Head(todo))
  /\ aux' = [aux EXCEPT !.length = @ + 1,
                        !.buf = IF aux.length < MaxLength THEN Append(@, Head(todo)) ELSE @]
  /\ UNCHANGED <<conv, digits>>

FormatNext == Digit \/ FormatInteger \/ FormatString \/ Output

FormatSpec == FormatInit /\ [][FormatNext]_formatVars

-------------------------------------------------------------------------------
Finished == todo = << >>

(* The digits never leave format_integer's buffer, whatever precision is   *)
(* asked for. *)
DigitsFit == Len(digits.buf) =< DigitBuf

DigitsIn(text) == SelectSeq(text, LAMBDA ch : \E i \in 1..16 : DigitChar[i] = ch)
Reading(text) ==
  FoldLeft(LAMBDA n, ch : n * Base.base + (CHOOSE i \in 1..16 : DigitChar[i] = ch) - 1,
           0, DigitsIn(text))
Holds(text, ch) == \E i \in 1..Len(text) : text[i] = ch

(* The field can be read back: it has the value's digits and sign, the     *)
(* digits the precision asks for, and padding up to the width and no       *)
(* further.  A width that turns negative along with the 0 flag pads twice. *)
FieldIsRight ==
  Finished /\ conv.spec # "s" /\ ~ (conv.width < 0 /\ "zero" \in Flags(conv)) =>
    /\ Reading(sent) = Magnitude(conv)
    /\ Holds(sent, "-") <=> (conv.spec = "d" /\ Argument(conv) < 0)
    /\ Len(sent) >= Width(conv)
    /\ Len(sent) > Width(conv) =>
         /\ ~ Holds(Tail(sent), " ")
         /\ conv.precision < 0 => Len(DigitsIn(sent)) =< digits.cnt + 2
    /\ Len(DigitsIn(sent)) >= conv.precision \/ conv.precision >= DigitBuf

(* vsnprintf "Writes at most BUF_SIZE - 1 characters to BUFFER, followed   *)
(* by a null terminator", and returns the length of the whole text.        *)
OutputIsCut ==
  Finished => /\ aux.length = Len(sent)
              /\ aux.buf = SubSeq(sent, 1, Len(aux.buf))
              /\ Len(aux.buf) = Len(sent) \/ Len(aux.buf) + 1 >= aux.size
              /\ aux.size > 0 => Len(aux.buf) + 1 =< aux.size
================================================================================
