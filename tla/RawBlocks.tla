------------------------------ MODULE RawBlocks ------------------------------
(***************************************************************************)
(* The raw tables of service/kline: what the block parser takes out of a   *)
(* block, which rows the repository stores for it in one transaction, and  *)
(* which of them the normalization drivers find again.                     *)
(*                                                                         *)
(* A block as the node answers it is a record                              *)
(*   [chain, height, hash, txs]                                            *)
(* with, per transaction, the bundle it receives or the operation it runs  *)
(* (a sequence of one, or of none), and the messages, events and oracle    *)
(* responses it produces.  The bytes of a payload are a value of the       *)
(* instance.                                                               *)
(*                                                                         *)
(* A table is a sequence of rows [key, body]: the position of a row is its *)
(* AUTO_INCREMENT id, key its unique index, body the columns of its        *)
(* fingerprint.                                                            *)
(***************************************************************************)
EXTENDS Naturals, Sequences, SequencesExt

Absent == "absent"
NoCursor == 0           \* last_finalized_height IS NULL; heights start at 1 here

-----------------------------------------------------------------------------
(* The parser.                                                             *)

(* The messages of a bundle keep the index they have in the source         *)
(* transaction, and take origin and certificate from the bundle.           *)
PostedMessages(messages, tx) ==
    [i \in DOMAIN messages |->
        [index |-> messages[i].index, origin |-> Absent, cert |-> Absent, tx |-> tx,
         app |-> messages[i].app, bytes |-> messages[i].bytes]]

IncomingBundle(i, bundle) ==
    [index |-> i, origin |-> bundle.origin, action |-> bundle.action, cert |-> bundle.cert,
     tx |-> bundle.tx, messages |-> PostedMessages(bundle.messages, bundle.tx)]

Operation(i, op) == [index |-> i, app |-> op.app, bytes |-> op.bytes]

(* What every transaction of the block produced, with its two indices.     *)
Produced(lists) ==
    FlattenSeq([t \in DOMAIN lists |->
        [i \in DOMAIN lists[t] |-> [tx |-> t, index |-> i, made |-> lists[t][i]]]])

OutgoingMessages(b) == Produced([t \in DOMAIN b.txs |-> b.txs[t].messages])
Events(b) == Produced([t \in DOMAIN b.txs |-> b.txs[t].events])
OracleResponses(b) == Produced([t \in DOMAIN b.txs |-> b.txs[t].responses])

Positions(b, what) == SelectSeq([t \in DOMAIN b.txs |-> t], LAMBDA t : b.txs[t][what] # <<>>)

ParseConfirmed(b) ==
    LET bundles == Positions(b, "bundle")
        operations == Positions(b, "operation")
    IN  [bundles |-> [n \in DOMAIN bundles |->
                        IncomingBundle(bundles[n], b.txs[bundles[n]].bundle[1])],
         operations |-> [n \in DOMAIN operations |->
                        Operation(operations[n], b.txs[operations[n]].operation[1])],
         outgoing |-> OutgoingMessages(b), events |-> Events(b),
         responses |-> OracleResponses(b)]

Parse(b) == [chain |-> b.chain, height |-> b.height, hash |-> b.hash] @@ ParseConfirmed(b)

-----------------------------------------------------------------------------
(* The store.                                                              *)

Tables == {"raw_blocks", "raw_incoming_bundles", "raw_posted_messages", "raw_operations",
           "raw_outgoing_messages", "raw_events", "raw_oracle_responses"}

EmptyTables == [t \in Tables |-> <<>>]

(* chain_cursors, ingestion_anomalies and the runs are not numbered.       *)
EmptyStore(chains) == [tables |-> EmptyTables, cursor |-> [c \in chains |-> NoCursor],
                       anomalies |-> {}, runs |-> 0]

Find(table, key) == SelectSeq(table, LAMBDA r : r.key = key)

(* INSERT IGNORE on the second unique index of raw_posted_messages.        *)
SameExternal(table, row) ==
    \E i \in DOMAIN table :
        <<table[i].body.origin, table[i].body.cert, table[i].body.tx, table[i].key[3]>>
            = <<row.body.origin, row.body.cert, row.body.tx, row.key[3]>>

Entry(name, key, body) == [table |-> name, row |-> [key |-> key, body |-> body]]

Effective(own, ofBundle) == IF own # Absent THEN own ELSE ofBundle

MessageEntries(p, bundle) ==
    [i \in DOMAIN bundle.messages |->
        LET m == bundle.messages[i] IN
        Entry("raw_posted_messages", <<p.hash, bundle.index, m.index>>,
              [origin |-> Effective(m.origin, bundle.origin),
               cert |-> Effective(m.cert, bundle.cert),
               tx |-> m.tx, app |-> m.app, bytes |-> m.bytes])]

(* Each bundle is followed by its messages.                                *)
BundleEntries(p) ==
    FlattenSeq([n \in DOMAIN p.bundles |->
        LET b == p.bundles[n] IN
        <<Entry("raw_incoming_bundles", <<p.hash, b.index>>,
                [chain |-> p.chain, origin |-> b.origin, action |-> b.action, cert |-> b.cert,
                 tx |-> b.tx])>>
        \o MessageEntries(p, b)])

OperationEntries(p) ==
    [n \in DOMAIN p.operations |->
        LET o == p.operations[n] IN
        Entry("raw_operations", <<p.hash, o.index>>,
              [chain |-> p.chain, app |-> o.app, bytes |-> o.bytes])]

ProducedEntries(name, p, items) ==
    [n \in DOMAIN items |->
        Entry(name, <<p.hash, items[n].tx, items[n].index>>,
              [chain |-> p.chain, made |-> items[n].made])]
OutgoingEntries(p) == ProducedEntries("raw_outgoing_messages", p, p.outgoing)
EventEntries(p) == ProducedEntries("raw_events", p, p.events)
ResponseEntries(p) == ProducedEntries("raw_oracle_responses", p, p.responses)

Entries(p) ==
    <<Entry("raw_blocks", <<p.chain, p.height>>, p.hash)>> \o BundleEntries(p)
    \o OperationEntries(p) \o OutgoingEntries(p) \o EventEntries(p) \o ResponseEntries(p)

Conflicts(tables, e) ==
    LET found == Find(tables[e.table], e.row.key)
    IN  found # <<>> /\ found[1].body # e.row.body

(* Mutant: an unknown identity is looked for in the fingerprints.          *)
InsertAgain(tables, e) == [tables EXCEPT ![e.table] = Append(@, e.row)]

Insert(tables, e) ==
    IF \/ Find(tables[e.table], e.row.key) # <<>>
       \/ e.table = "raw_posted_messages" /\ SameExternal(tables[e.table], e.row)
    THEN tables
    ELSE [tables EXCEPT ![e.table] = Append(@, e.row)]

(* ingest_block: one transaction, undone at the first conflict, which is   *)
(* recorded after the rollback.                                            *)
IngestBlock(store, b) ==
    LET p == Parse(b)
        entries == Entries(p)
        conflicting == SelectSeq(entries, LAMBDA e : Conflicts(store.tables, e))
    IN  IF p.height <= store.cursor[p.chain] THEN store
        ELSE IF conflicting # <<>>
        THEN [store EXCEPT !.anomalies = @ \union
                {[object |-> conflicting[1].table, identity |-> conflicting[1].row.key]}]
        ELSE [store EXCEPT !.tables = FoldLeft(Insert, @, entries),
                           !.cursor[p.chain] = p.height,
                           !.runs = @ + 1]

-----------------------------------------------------------------------------
(* The candidates of the normalization drivers: rows of an application     *)
(* with an id above the cursor, in the order of the ids.                   *)

Page(table, after, limit) ==
    LET ids == SelectSeq([i \in DOMAIN table |-> i],
                         LAMBDA i : i > after /\ table[i].body.app # Absent)
    IN  SubSeq(ids, 1, IF Len(ids) < limit THEN Len(ids) ELSE limit)

OperationCandidates(tables, after, limit) ==
    LET table == tables.raw_operations
        page == Page(table, after, limit)
    IN  [n \in DOMAIN page |->
            LET r == table[page[n]] IN
            [fact |-> page[n], table |-> "raw_operations", kind |-> "operation",
             app |-> r.body.app, bytes |-> r.body.bytes, source |-> Absent,
             target |-> r.body.chain, block |-> r.key[1], cert |-> Absent, tx |-> r.key[2],
             position |-> 0, index |-> 0, rejected |-> FALSE]]

(* A message of a rejected bundle was not executed.                        *)
MessageCandidates(tables, after, limit) ==
    LET table == tables.raw_posted_messages
        page == Page(table, after, limit)
        Bundle(r) == Find(tables.raw_incoming_bundles, <<r.key[1], r.key[2]>>)[1]
    IN  [n \in DOMAIN page |->
            LET r == table[page[n]] IN
            [fact |-> page[n], table |-> "raw_posted_messages", kind |-> "message",
             app |-> r.body.app, bytes |-> r.body.bytes, source |-> r.body.origin,
             target |-> Bundle(r).body.chain, block |-> r.key[1], cert |-> r.body.cert,
             tx |-> r.body.tx, position |-> r.key[2], index |-> r.key[3],
             rejected |-> Bundle(r).body.action = "Reject"]]

EventPage(tables, after, limit) ==
    Page([i \in DOMAIN tables.raw_events |->
            [body |-> tables.raw_events[i].body.made]], after, limit)

EventCandidates(tables, after, limit) ==
    LET table == tables.raw_events
        page == EventPage(tables, after, limit)
    IN  [n \in DOMAIN page |->
            LET r == table[page[n]] IN
            [fact |-> page[n], table |-> "raw_events", kind |-> "event",
             app |-> r.body.made.app, bytes |-> r.body.made.bytes, source |-> Absent,
             target |-> r.body.chain, block |-> r.key[1], cert |-> Absent, tx |-> r.key[2],
             position |-> 0, index |-> 0, rejected |-> FALSE]]

(* The order run_all takes them in.                                        *)
FactTables == <<"raw_operations", "raw_posted_messages", "raw_events">>

Candidates(tables, name, after, limit) ==
    CASE name = "raw_operations" -> OperationCandidates(tables, after, limit)
      [] name = "raw_posted_messages" -> MessageCandidates(tables, after, limit)
      [] name = "raw_events" -> EventCandidates(tables, after, limit)
=============================================================================
