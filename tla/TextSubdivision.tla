-------------------------- MODULE TextSubdivision --------------------------
(***************************************************************************)
(* cosyvoice300m_engine.py: a native part, as the vendor's normalisation   *)
(* returned it, is cut into pieces of at most model_segment_units for the  *)
(* speech model. Units are characters once a Chinese one is there, tokens  *)
(* of the model's tokenizer otherwise.                                     *)
(***************************************************************************)
EXTENDS Naturals, Sequences, FiniteSets, SequencesExt

CONSTANTS
    UnitLimit,      \* model_segment_units
    WideTokens,     \* the tokens of a character that takes several
    MaxCharacters   \* bound: the characters of a part

ASSUME SubdivisionAssumption == {UnitLimit, WideTokens, MaxCharacters} \subseteq Nat \ {0}

VARIABLES
    tText,    \* the native part
    tParts,   \* what goes to the model
    tRest,    \* remaining
    tAt       \* "part", "split", "spoken", or "raised"

textVars == <<tText, tParts, tRest, tAt>>

(* By what the code tells apart. A run of letters is one token (a word), a   *)
(* wide character several.                                                   *)
Characters == {"han", "letter", "wide", "boundary", "stop"}
Alnum == {"han", "letter", "wide"}
Texts == UNION {[1 .. n -> Characters] : n \in 1 .. MaxCharacters}

TextTypeOK ==
    /\ tText \in Seq(Characters) /\ tRest \in Seq(Characters)
    /\ \A n \in DOMAIN tParts : tParts[n] \in Seq(Characters) /\ tParts[n] # << >>
    /\ tAt \in {"part", "split", "spoken", "raised"}

TextInit == tText \in Texts /\ tParts = << >> /\ tRest = tText /\ tAt = "part"

-----------------------------------------------------------------------------
(* The tokenizer, idealised: a run of letters is one token, and no character  *)
(* more makes fewer of them.                                                 *)
Tokens(text) ==
    LET continues(n) == n > 1 /\ text[n] = "letter" /\ text[n - 1] = "letter"
    IN  Cardinality({n \in DOMAIN text : ~continues(n)})
        + (WideTokens - 1) * Cardinality({n \in DOMAIN text : text[n] = "wide"})

UnitCount(text) ==
    IF \E n \in DOMAIN text : text[n] = "han" THEN Len(text) ELSE Tokens(text)

(* _longest_prefix(): the binary search; 0 stands for its ValueError.       *)
LongestPrefix(text) ==
    LET search[s \in [low : 1 .. Len(text) + 1, high : 0 .. Len(text), longest : 0 .. Len(text)]] ==
            LET middle == (s.low + s.high) \div 2 IN
            IF s.low > s.high THEN s.longest
            ELSE IF UnitCount(SubSeq(text, 1, middle)) <= UnitLimit
                 THEN search[[low |-> middle + 1, high |-> s.high, longest |-> middle]]
                 ELSE search[[low |-> s.low, high |-> middle - 1, longest |-> s.longest]]
    IN  search[[low |-> 1, high |-> Len(text), longest |-> 0]]

(* The end of the last comma or space of the prefix, or all of it.          *)
Boundary(text, hard) ==
    LET preferred == {n \in 1 .. hard : text[n] = "boundary"}
    IN  IF preferred = {} THEN hard
        ELSE CHOOSE n \in preferred : \A m \in preferred : m <= n

-----------------------------------------------------------------------------
(* subdivide(): what holds no letter or digit is not spoken.                *)
Subdivide ==
    /\ tAt = "part"
    /\ tAt' = IF \E n \in DOMAIN tText : tText[n] \in Alnum THEN "split" ELSE "spoken"
    /\ UNCHANGED <<tText, tParts, tRest>>

(* A slip: the comma goes with neither side.                                *)
CutDropping ==
    /\ tAt = "split" /\ UnitCount(tRest) > UnitLimit /\ LongestPrefix(tRest) > 0
    /\ LET cut == Boundary(tRest, LongestPrefix(tRest)) IN
       /\ tParts' = Append(tParts, SubSeq(tRest, 1, cut))
       /\ tRest' = SubSeq(tRest, cut + (IF tRest[cut] = "boundary" THEN 2 ELSE 1), Len(tRest))
    /\ UNCHANGED <<tText, tAt>>

(* _split_to_units(): the loop.                                             *)
Cut ==
    /\ tAt = "split" /\ UnitCount(tRest) > UnitLimit /\ LongestPrefix(tRest) > 0
    /\ LET cut == Boundary(tRest, LongestPrefix(tRest)) IN
       /\ tParts' = Append(tParts, SubSeq(tRest, 1, cut))
       /\ tRest' = SubSeq(tRest, cut + 1, Len(tRest))
    /\ UNCHANGED <<tText, tAt>>

Oversized ==
    /\ tAt = "split" /\ UnitCount(tRest) > UnitLimit /\ LongestPrefix(tRest) = 0
    /\ tAt' = "raised"
    /\ UNCHANGED <<tText, tParts, tRest>>

LastPart ==
    /\ tAt = "split" /\ UnitCount(tRest) <= UnitLimit
    /\ tParts' = IF tRest = << >> THEN tParts ELSE Append(tParts, tRest)
    /\ tRest' = << >> /\ tAt' = "spoken"
    /\ UNCHANGED tText

TextNext == Subdivide \/ Cut \/ Oversized \/ LastPart

TextSpec == TextInit /\ [][TextNext]_textVars

-----------------------------------------------------------------------------
(* Properties.                                                              *)

(* The pieces are the text: nothing is lost, repeated or moved. Where every   *)
(* character is at most one token, each piece fits the limit although its     *)
(* units change with the last Chinese character, no piece is shorter than     *)
(* the limit or its last comma made it, and no text is refused. (With a       *)
(* character of several tokens a cut at a comma may leave a piece too long.)  *)
(* (_split_to_units, _longest_prefix, _unit_count.)                           *)
PartsFit ==
    /\ tAt = "split" \/ tParts # << >> => FlattenSeq(tParts) \o tRest = tText
    /\ "wide" \notin ToSet(tText) =>
         /\ tAt # "raised"
         /\ \A n \in DOMAIN tParts :
              LET rest == FlattenSeq(SubSeq(tParts, n + 1, Len(tParts))) \o tRest
              IN  /\ UnitCount(tParts[n]) <= UnitLimit
                  /\ rest # << >> /\ Last(tParts[n]) # "boundary" =>
                         UnitCount(Append(tParts[n], Head(rest))) > UnitLimit

(* The comment in subdivide(): punctuation alone is completed without        *)
(* invoking the model.                                                       *)
PunctuationIsSilent ==
    \A n \in DOMAIN tParts : \E k \in DOMAIN tParts[n] : tParts[n][k] \in Alnum
=============================================================================
