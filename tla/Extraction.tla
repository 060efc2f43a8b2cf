----------------------------- MODULE Extraction -----------------------------
(***************************************************************************)
(* Locating declarations in what OCR read of one photograph                *)
(* (api/app/services/extraction/pipeline.py and the table of fields.py).   *)
(* A page is a sequence of lines.  A line has words, of which labels are   *)
(* made, then perhaps a value, and the confidence of the OCR in percent;   *)
(* every parser is abstracted to the kind of value it finds in a text, but *)
(* that of free text, which takes any text there is.  Of the labels those  *)
(* in English are modelled; the Hindi ones are more of the same.           *)
(***************************************************************************)
EXTENDS Naturals, Sequences, FiniteSets

CONSTANT None  \* no value

-----------------------------------------------------------------------------
(* The table (SPECS)                                                       *)

\* A label is the sequence of its words.
PriceLabels ==
    [mrp |-> {<<"maximum", "retail", "price">>, <<"max", "retail", "price">>, <<"mrp">>,
              <<"retail", "sale", "price">>},
     unit_sale_price |-> {<<"unit", "sale", "price">>, <<"unit", "price">>,
                          <<"price", "per", "unit">>, <<"per", "unit", "price">>}]

QuantityLabels ==
    [net_quantity |-> {<<"net", "quantity">>, <<"net", "qty">>, <<"net", "weight">>,
                       <<"net", "wt">>, <<"net", "content">>, <<"net", "contents">>,
                       <<"net", "vol">>, <<"net", "volume">>, <<"quantity">>}]

PartyLabels ==
    [manufacturer |-> {<<"manufactured", "by">>, <<"mfd", "by">>, <<"mfg", "by">>,
                       <<"manufacturer">>, <<"manufactured", "at">>},
     packer       |-> {<<"packed", "by">>, <<"packer">>},
     importer     |-> {<<"imported", "by">>, <<"importer">>},
     marketer     |-> {<<"marketed", "by">>, <<"marketer">>}]

CareLabels ==
    [consumer_care_email |-> {<<"consumer", "care">>, <<"customer", "care">>,
                              <<"consumer", "complaints">>, <<"email">>},
     consumer_care_phone |-> {<<"consumer", "care">>, <<"customer", "care">>, <<"helpline">>,
                              <<"toll", "free">>, <<"phone">>, <<"tel">>, <<"contact">>},
     consumer_care_name  |-> {<<"consumer", "care", "details">>,
                              <<"for", "complaints", "contact">>,
                              <<"consumer", "care", "officer">>, <<"customer", "relations">>}]

NameLabels ==
    [country_of_origin   |-> {<<"country", "of", "origin">>, <<"made", "in">>,
                              <<"product", "of">>, <<"origin">>},
     common_generic_name |-> {<<"common", "name">>, <<"generic", "name">>,
                              <<"common", "or", "generic", "name">>, <<"product", "name">>}]

DateLabels ==
    [date_of_manufacture |-> {<<"date", "of", "manufacture">>, <<"manufactured", "on">>,
                              <<"mfg", "date">>, <<"mfg", "dt">>, <<"mfg">>, <<"mfd">>,
                              <<"date", "of", "mfg">>},
     date_of_packing     |-> {<<"date", "of", "packing">>, <<"packed", "on">>,
                              <<"packing", "date">>, <<"pkd", "on">>, <<"pkd">>},
     date_of_import      |-> {<<"date", "of", "import">>, <<"imported", "on">>},
     best_before         |-> {<<"best", "before">>, <<"best", "before", "use">>, <<"use", "by">>,
                              <<"expiry", "date">>, <<"exp", "date">>, <<"expires", "on">>}]

OtherLabels ==
    [batch_number       |-> {<<"batch", "no">>, <<"batch", "number">>, <<"batch">>, <<"bno">>},
     lot_number         |-> {<<"lot", "no">>, <<"lot", "number">>, <<"lot">>},
     ingredients        |-> {<<"ingredients">>, <<"ingredient">>, <<"composition">>},
     nutrition          |-> {<<"nutritional", "information">>, <<"nutritional", "facts">>,
                            <<"nutrition", "information">>, <<"nutrition", "facts">>},
     allergen_statement |-> {<<"allergen">>, <<"contains">>, <<"may", "contain">>},
     veg_nonveg_mark    |-> {<<"veg">>, <<"non", "veg">>, <<"non-veg">>, <<"vegetarian">>},
     fssai_licence      |-> {<<"fssai">>, <<"lic", "no">>, <<"licence", "no">>,
                             <<"license", "no">>}]

Type == DOMAIN PriceLabels \cup DOMAIN QuantityLabels \cup DOMAIN PartyLabels
            \cup DOMAIN CareLabels \cup DOMAIN NameLabels \cup DOMAIN DateLabels
            \cup DOMAIN OtherLabels

Labels ==
    [type \in Type |->
        CASE type \in DOMAIN PriceLabels    -> PriceLabels[type]
          [] type \in DOMAIN QuantityLabels -> QuantityLabels[type]
          [] type \in DOMAIN PartyLabels    -> PartyLabels[type]
          [] type \in DOMAIN CareLabels     -> CareLabels[type]
          [] type \in DOMAIN NameLabels     -> NameLabels[type]
          [] type \in DOMAIN DateLabels     -> DateLabels[type]
          [] type \in DOMAIN OtherLabels    -> OtherLabels[type]]

\* Labels that must not be on the line.
NegativeLabels(type) ==
    IF type = "mrp"
    THEN {<<"unit", "sale", "price">>, <<"per", "unit">>, <<"unit", "price">>}
    ELSE IF type = "date_of_manufacture"
    THEN {<<"packed", "on">>, <<"best", "before">>, <<"use", "by">>, <<"expiry">>}
    ELSE {}

\* The kind of value the parser of a type finds.
KindOf(type) ==
    IF type \in DOMAIN PriceLabels THEN "price"
    ELSE IF type \in DOMAIN QuantityLabels THEN "quantity"
    ELSE IF type \in DOMAIN DateLabels \ {"best_before"} THEN "date"
    ELSE IF type = "consumer_care_email" THEN "email"
    ELSE IF type = "consumer_care_phone" THEN "phone"
    ELSE IF type = "veg_nonveg_mark" THEN "mark"
    ELSE IF type = "fssai_licence" THEN "licence"
    ELSE "text"

\* Types recognised by their shape where no label is found.
Shaped == {"consumer_care_email", "veg_nonveg_mark"}

-----------------------------------------------------------------------------
(* Reading one line                                                        *)

\* Where an occurrence of a label in the words of a line ends.
Ends(label, words) ==
    {end \in Len(label)..Len(words) : SubSeq(words, end - Len(label) + 1, end) = label}

Bears(labels, words) == {label \in labels : Ends(label, words) # {}}

First(ends) == CHOOSE end \in ends : \A other \in ends : end <= other

\* Where the longest label ends: "net quantity" is not mistaken for "quantity".
FindLabel(labels, words) ==
    LET borne   == Bears(labels, words)
        longest == CHOOSE label \in borne : \A other \in borne : Len(other) <= Len(label)
    IN  First(Ends(longest, words))

\* What the parser of a type makes of the text after the first words: the words
\* that became part of the value, and the value.
TryValue(type, line, from) ==
    LET words == SubSeq(line.words, from + 1, Len(line.words))
    IN  IF KindOf(type) = "text"
        THEN IF words = << >> /\ line.value = None THEN None
             ELSE [words |-> words, value |-> line.value]
        ELSE IF line.value = None \/ line.value.kind # KindOf(type) THEN None
             ELSE [words |-> << >>, value |-> line.value]

Match(n, read, confidence) == [line |-> n, read |-> read, confidence |-> confidence]

\* The confidence is in hundredths of a percent: 100 beside the label, 85 on
\* the line below, 30 where no value was read.
MatchAt(type, page, n) ==
    LET end    == FindLabel(Labels[type], page[n].words)
        beside == TryValue(type, page[n], end)
        below  == IF n = Len(page) THEN None ELSE TryValue(type, page[n + 1], 0)
    IN  IF beside # None THEN Match(n, beside, 100 * page[n].confidence)
        ELSE IF below # None THEN Match(n, below, 85 * page[n + 1].confidence)
        ELSE Match(n, None, 30 * page[n].confidence)

-----------------------------------------------------------------------------
(* Reading the page (extract_matches)                                      *)

Labelled(type, page) ==
    {MatchAt(type, page, n) : n \in {line \in DOMAIN page :
        /\ Bears(Labels[type], page[line].words) # {}
        /\ Bears(NegativeLabels(type), page[line].words) = {}}}

ByShape(type, page) ==
    {Match(n, [words |-> << >>, value |-> page[n].value], 60 * page[n].confidence) :
        n \in {line \in DOMAIN page : /\ type \in Shaped
                                      /\ page[line].value # None
                                      /\ page[line].value.kind = KindOf(type)}}

Collected(type, page) ==
    IF Labelled(type, page) # {} THEN Labelled(type, page) ELSE ByShape(type, page)

\* A mutant of Ranks: matches without a value rank with the others.
RanksByConfidence(match, other) ==
    \/ match.confidence > other.confidence
    \/ match.confidence = other.confidence /\ match.line < other.line

\* Those that were parsed before those that were not, then by confidence; of
\* equals the one further up.
Ranks(match, other) ==
    LET parsed == match.read # None
    IN  IF parsed # (other.read # None) THEN parsed
        ELSE \/ match.confidence > other.confidence
             \/ match.confidence = other.confidence /\ match.line < other.line

\* Two matches of a type are taken for the same: the amount of a price or of a
\* quantity without its unit, or the printed text where nothing was read.
Fingerprint(page, match) ==
    IF match.read = None THEN <<page[match.line].words, page[match.line].value>>
    ELSE IF match.read.value = None THEN <<match.read.words, None>>
    ELSE <<match.read.words, match.read.value.amount>>

MaxCandidates == 3

\* The matches of a type that are kept.
Kept(type, page) ==
    LET all        == Collected(type, page)
        Better(m)  == {other \in all : Ranks(other, m)}
        Prints(ms) == {Fingerprint(page, m) : m \in ms}
    IN  {m \in all : /\ Fingerprint(page, m) \notin Prints(Better(m))
                     /\ Cardinality(Prints(Better(m))) < MaxCandidates}
=============================================================================
