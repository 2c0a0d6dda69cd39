------------------------------ MODULE Ledgers ------------------------------
(***************************************************************************)
(* The change ledger, the decision ledger and what is remembered from      *)
(* them: appendChangeLedgerEntry and readChangeLedger, appendDecisionLedger *)
(* Entry and loadDecisionLedger, queryMemory (src/product).                *)
(*                                                                         *)
(* A ledger is a jsonl file: lines of pieces and a tail that no newline    *)
(* ends yet.  An append is one write of an entry and its newline, of which *)
(* a process that dies leaves a prefix; the next entry then continues the  *)
(* line.  The reader skips a line that is not one whole entry.             *)
(***************************************************************************)
EXTENDS Naturals, Sequences, FiniteSets, TLC, SequencesExt, FiniteSetsExt

CONSTANTS
  Callers,
  Absent,
  Drafts,         \* per ledger what is to be recorded: [id, owned, says, size]
  Adrs,           \* the decisions found in ADR files, by id
  Phrases,        \* what entries say and memory is asked for
  BrainHits,      \* what the brain is found to say, best first: [foreign, size]
  MaxAppends, MaxDeaths, MaxBrainHits, MaxMemory

VARIABLES
  ledgers,        \* the two files
  calls,          \* the append that each caller is about to make, or Absent
  written,        \* per ledger, the entries written to their end, in order (history)
  spent           \* appends begun, and per ledger those that died

ledgerVars == <<ledgers, calls, written, spent>>

Kinds == {"change", "decisions"}

LedgerInit ==
  /\ ledgers = [k \in Kinds |-> [lines |-> <<>>, tail |-> <<>>]]
  /\ calls = [c \in Callers |-> Absent]
  /\ written = [k \in Kinds |-> <<>>]
  /\ spent = [appends |-> 0, deaths |-> [k \in Kinds |-> 0]]

\* The entry is made, under a number of its own, and its directory ensured.
Begin(c) ==
  /\ calls[c] = Absent /\ spent.appends < MaxAppends
  /\ spent' = [spent EXCEPT !.appends = @ + 1]
  /\ \E k \in Kinds : \E draft \in Drafts[k] :
       calls' = [calls EXCEPT ![c] = [ledger |-> k, entry |-> [n |-> spent'.appends, of |-> draft]]]
  /\ UNCHANGED <<ledgers, written>>

\* A change whose files are outside of the project is refused before anything is written.
Refuse(c) ==
  /\ calls[c] # Absent /\ calls[c].ledger = "change"
  /\ calls' = [calls EXCEPT ![c] = Absent]
  /\ UNCHANGED <<ledgers, written, spent>>

Continued(file, entry, whole) == [file EXCEPT !.tail = Append(@, [entry |-> entry, whole |-> whole])]
Ended(file) == [lines |-> Append(file.lines, file.tail), tail |-> <<>>]

AppendEntry(c) ==
  /\ calls[c] # Absent
  /\ LET k == calls[c].ledger entry == calls[c].entry IN
     /\ ledgers' = [ledgers EXCEPT ![k] = Ended(Continued(@, entry, TRUE))]
     /\ written' = [written EXCEPT ![k] = Append(@, entry)]
  /\ calls' = [calls EXCEPT ![c] = Absent]
  /\ UNCHANGED spent

\* The process dies at the write: before it, after a part of the entry, all of it or its
\* newline.
Die(c) ==
  /\ calls[c] # Absent
  /\ LET k == calls[c].ledger entry == calls[c].entry IN
     /\ spent.deaths[k] < MaxDeaths
     /\ spent' = [spent EXCEPT !.deaths[k] = @ + 1]
     /\ \E left \in {ledgers[k], Continued(ledgers[k], entry, FALSE),
                     Continued(ledgers[k], entry, TRUE), Ended(Continued(ledgers[k], entry, TRUE))} :
          ledgers' = [ledgers EXCEPT ![k] = left]
  /\ calls' = [calls EXCEPT ![c] = Absent]
  /\ UNCHANGED written

LedgerNext == \E c \in Callers : Begin(c) \/ Refuse(c) \/ AppendEntry(c) \/ Die(c)

LedgerSpec == LedgerInit /\ [][LedgerNext]_ledgerVars

---------------------------------------------------------------------------
\* readChangeLedger, and the ledger's part of loadDecisionLedger: the tail is a line too.
Parses(line) == Len(line) = 1 /\ line[1].whole
ReadLedger(file) ==
  LET parsed == SelectSeq(Append(file.lines, file.tail), Parses)
  IN [n \in DOMAIN parsed |-> parsed[n][1].entry]

\* loadDecisionLedger: an id once, as an ADR unless the ledger has it, as it has it last
LoadDecisionLedger(file) ==
  LET kept == SelectSeq(ReadLedger(file), LAMBDA e : e.of.owned)
  IN FoldLeft(LAMBDA byId, e : (e.of.id :> e) @@ byId, Adrs, kept)

\* queryMemory: of the brain's first hits those of the project, the decisions and changes
\* that say it, the longest first and what is equally long in this order.  The one hit
\* that the project's DNA may add is left out.
QueryMemory(phrase) ==
  LET brain == SelectSeq(SubSeq(BrainHits, 1, Min({Len(BrainHits), MaxBrainHits})), LAMBDA h : ~h.foreign)
      hit(source, entries) == [n \in DOMAIN entries |-> [source |-> source, entry |-> entries[n], size |-> entries[n].of.size]]
      decisions == LoadDecisionLedger(ledgers.decisions)
      told == SelectSeq(SetToSeq({decisions[id] : id \in DOMAIN decisions}), LAMBDA e : e.of.says = phrase)
      changes == SelectSeq(ReadLedger(ledgers.change), LAMBDA e : e.of.says = phrase)
      hits == [n \in DOMAIN brain |-> [source |-> "brain", entry |-> [line |-> n], size |-> brain[n].size]]
              \o hit("decisions", told) \o hit("change", changes)
      before(m, n) == hits[m].size > hits[n].size \/ (hits[m].size = hits[n].size /\ m < n)
      rank(n) == Cardinality({m \in DOMAIN hits : before(m, n)})
  IN {hits[n] : n \in {m \in DOMAIN hits : rank(m) < MaxMemory}}

---------------------------------------------------------------------------
Read(k) == ToSet(ReadLedger(ledgers[k]))
Lost(k) == ToSet(written[k]) \ Read(k)
Line(k, e) == SelectInSeq(ReadLedger(ledgers[k]), LAMBDA f : f = e)

\* A death costs at most one entry whose append had returned; what is read is there once,
\* in the order in which it was written.
LossesAreBounded ==
  \A k \in Kinds :
    /\ Cardinality(Lost(k)) <= spent.deaths[k]
    /\ Cardinality(Read(k)) = Len(ReadLedger(ledgers[k]))
    /\ \A m, n \in DOMAIN written[k] :
         m < n /\ {written[k][m], written[k][n]} \cap Lost(k) = {} => Line(k, written[k][m]) < Line(k, written[k][n])

\* A decision of the project that was recorded is told until a later record of its id is
\* there, or its entry was lost; an ADR is told until there is a record; no foreign one is.
DecisionsAreTold ==
  LET told == LoadDecisionLedger(ledgers.decisions) IN
  /\ DOMAIN Adrs \subseteq DOMAIN told
  /\ \A id \in DOMAIN told : told[id].of.owned /\ told[id].of.id = id
  /\ \A e \in ToSet(written.decisions) \ Lost("decisions") : e.of.owned =>
       e.of.id \in DOMAIN told /\ Line("decisions", told[e.of.id]) >= Line("decisions", e)

\* What memory leaves out of what the ledgers say is not longer than what it tells, and
\* it tells nothing else of them.
MemoryIsTheLedgers ==
  \A phrase \in Phrases :
    LET hits == QueryMemory(phrase)
        decisions == LoadDecisionLedger(ledgers.decisions)
        due == Read("change") \cup {decisions[id] : id \in DOMAIN decisions}
        told == {h.entry : h \in {g \in hits : g.source # "brain"}}
    IN /\ told \subseteq {e \in due : e.of.says = phrase}
       /\ \A e \in due \ told : e.of.says = phrase =>
            Cardinality(hits) = MaxMemory /\ \A h \in hits : h.size >= e.of.size
=============================================================================
