------------------------------ MODULE Reports ------------------------------
(* The report of a Xen Orchestra backup (src/src/parsers/xo.py): a summary    *)
(* with "successes: s / t", and sections of the guests that failed, were      *)
(* skipped and succeeded, whose titles may hold their number.  Sections with  *)
(* another title, and guests without a name, are passed over by the parser    *)
(* and left out here.                                                         *)
EXTENDS Naturals, Sequences, FiniteSets, SequencesExt, Selection

Outcomes == {"failure", "skipped", "success"}

\* A guest of a run, with the error the report gives for it.
Guest(name, outcome, error) == [name |-> name, outcome |-> outcome, error |-> error]

Numbers(f, s, k) == [failure |-> f, success |-> s, skipped |-> k]

\* What the report of a run looks like: sections in an order, each guest in that
\* of its outcome; with or without the summary and the numbers in the titles.
Report(run, order, summarised, counted) ==
    LET of(outcome) == Keep(run, {g \in ToSet(run) : g.outcome = outcome})
        there == Keep(order, {outcome \in Outcomes : of(outcome) # <<>>})
    IN  [successes |-> IF summarised THEN <<Len(of("success")), Len(run)>> ELSE <<>>,
         sections |->
            [i \in DOMAIN there |->
                [type |-> there[i],
                 count |-> IF counted THEN <<Len(of(there[i]))>> ELSE <<>>,
                 guests |-> of(there[i])]]]

-----------------------------------------------------------------------------

AppendUnique(values, value) ==
    IF value = "" \/ value \in ToSet(values) THEN values ELSE Append(values, value)

\* _parse_success_count: what did not succeed failed.
Summary(report) ==
    IF report.successes = <<>>
    THEN [count |-> Numbers(0, 0, 0), total |-> 0]
    ELSE LET success == report.successes[1]
             total == report.successes[2]
         IN  [count |-> Numbers(IF total < success THEN 0 ELSE total - success, success, 0),
              total |-> total]

\* One guest: listed by its name, and its error kept unless it succeeded.
AddGuest(state, guest, type) ==
    [state EXCEPT
        !.names[type] = AppendUnique(@, guest.name),
        !.errors = IF type = "success" THEN @ ELSE AppendUnique(@, guest.error)]

\* One section: its guests, then its number, which overrides the summary.
AddGuests(state, guests, type) ==
    FoldLeft(LAMBDA st, guest : AddGuest(st, guest, type), state, guests)

AddSection(state, section) ==
    LET listed == AddGuests(state, section.guests, section.type)
    IN  IF section.count = <<>>
        THEN listed
        ELSE [listed EXCEPT !.count[section.type] = section.count[1]]

\* Mutant: the names in a section count, whatever its title says.
FixByNames(state) ==
    [state EXCEPT !.count = [o \in Outcomes |-> Len(state.names[o])]]

\* Numbers still missing are those of the lists, the total that of the numbers.
FixMissingCounts(state) ==
    LET fixed == [o \in Outcomes |-> IF state.count[o] = 0
                                     THEN Len(state.names[o]) ELSE state.count[o]]
    IN  [state EXCEPT
            !.count = fixed,
            !.total = IF @ = 0
                      THEN fixed["failure"] + fixed["success"] + fixed["skipped"]
                      ELSE @]

\* What is known before the sections are read.
Unread(report) ==
    [count |-> Summary(report).count, total |-> Summary(report).total,
     names |-> [o \in Outcomes |-> <<>>], errors |-> <<>>]

Counts(report) == FixMissingCounts(FoldLeft(AddSection, Unread(report), report.sections))

=============================================================================
