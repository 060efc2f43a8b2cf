---------------------------- MODULE Jurisdictions ----------------------------
(***************************************************************************)
(* Which records an account covers (api/app/security/permissions.py).      *)
(* Every record is tested twice by code of its own: when it is opened, on  *)
(* the loaded row (covers), and in every register, inside the query, on    *)
(* the stored column (filter).  A code is a sequence of letters, blanks    *)
(* and separators: what tells these tests apart are cases, blanks and a    *)
(* segment that begins with another one.                                   *)
(***************************************************************************)
EXTENDS Naturals, Sequences, SequencesExt

Separator == "-"
Blank     == " "

\* Small letters, and the capitals they become.
UpperOf == [a |-> "A", b |-> "B"]

Upper(letter) == IF letter \in DOMAIN UpperOf THEN UpperOf[letter] ELSE letter

\* The segments between separators.
Segments(code) ==
    LET split[n \in 0..Len(code)] ==
            IF n = 0 THEN << << >> >>
            ELSE LET before == split[n - 1]
                 IN  IF code[n] = Separator THEN Append(before, << >>)
                     ELSE [before EXCEPT ![Len(before)] = Append(@, code[n])]
    IN  split[Len(code)]

Strip(segment) ==
    LET printed == {i \in DOMAIN segment : segment[i] # Blank}
    IN  IF printed = {} THEN << >>
        ELSE SubSeq(segment, Min(printed), Max(printed))

\* A segment trimmed and in capitals.
Part(segment) == [i \in DOMAIN Strip(segment) |-> Upper(Strip(segment)[i])]

\* The parts with separators between them, those that are empty left out.
Join(segments) ==
    LET join[n \in 0..Len(segments)] ==
            IF n = 0 THEN << >>
            ELSE LET before == join[n - 1]
                     part   == Part(segments[n])
                 IN  IF part = << >> THEN before
                     ELSE IF before = << >> THEN part
                     ELSE before \o <<Separator>> \o part
    IN  join[Len(segments)]

NormaliseJurisdiction(code) == Join(Segments(code))

\* A mutant of Beneath: the separator after the ancestor is forgotten.
BeginsWith(candidate, ancestor) == IsPrefix(ancestor, candidate)

Beneath(candidate, ancestor) == IsPrefix(ancestor \o <<Separator>>, candidate)

IsDescendant(candidate, ancestor) ==
    LET c == NormaliseJurisdiction(candidate)
        a == NormaliseJurisdiction(ancestor)
    IN  c # << >> /\ a # << >> /\ (c = a \/ Beneath(c, a))

-----------------------------------------------------------------------------
Role == {"inspector", "reviewer", "controller", "rule_admin", "admin"}

\* for_account
Scope(role, code) ==
    [code               |-> NormaliseJurisdiction(code),
     unrestricted       |-> role \in {"admin", "rule_admin"},
     includeDescendants |-> role \in {"controller", "admin"}]

\* A record may have no code yet: the empty sequence.
Covers(scope, code) ==
    \/ scope.unrestricted
    \/ code = << >>
    \/ IF scope.includeDescendants
       THEN IsDescendant(NormaliseJurisdiction(code), scope.code)
       ELSE NormaliseJurisdiction(code) = scope.code

\* The predicate of a query: column = code, column LIKE 'code-%', and with
\* allowNull also column IS NULL.
Listed(scope, column, allowNull) ==
    \/ scope.unrestricted
    \/ column # << >> /\ column = scope.code
    \/ column # << >> /\ scope.includeDescendants
          /\ IsPrefix(scope.code \o <<Separator>>, column)
    \/ allowNull /\ column = << >>
=============================================================================
