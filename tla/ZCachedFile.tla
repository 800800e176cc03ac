----------------------------- MODULE ZCachedFile -----------------------------
(***************************************************************************)
(* One file in a ZFTP cache (common/zftp_module).  The cache learns the    *)
(* file from an upstream server over UDP, a packet at a time: first the    *)
(* root of its Merkle tree, then the hashes on the paths to the blocks     *)
(* that are asked for, then the blocks, each in several packets.  Requests *)
(* (file reads of the application, or wire requests of another cache) wait *)
(* until what they ask for is there.  Packets are lost, duplicated and     *)
(* reordered; a local request that waits too long is withdrawn and made    *)
(* again.                                                                  *)
(*                                                                         *)
(* The upstream server is correct: it holds the whole file (ZOriginFile)   *)
(* and sends its own hashes and bytes, so a hash is known by its location  *)
(* in the tree and every comparison of hashes succeeds.  File offsets are  *)
(* in units: BlockSize, MaxPayload and the others are numbers of them.     *)
(***************************************************************************)
EXTENDS Integers, FiniteSets, Sequences, SequencesExt

CONSTANTS Readers,
          Asks,         \* what each reader asks for, one request after the other
          Wire,         \* the readers that are wire requests of another cache
          FileLen,
          BlockSize,    \* ZFTP_BLOCK_SIZE
          AddrSpace,    \* 2^32: offsets are unsigned and wrap
          MaxPayload,   \* ZFileClient::get_max_payload
          HeaderSize,   \* sizeof(ZFTPDataPacket)
          RecordSize,   \* sizeof(ZFTPMerkleRecord)
          Content       \* the hash of each block

VARIABLES metadata_state,        \* whether metadata and root hash are validated
          tree,                  \* the validity of each Merkle record
          next_gap,              \* of the cached block with each hash
          requesting_data_mode,
          waiters,
          net,                   \* replies on their way to the cache
          reader,                \* where each reader is
          turn,                  \* the request it is at
          result,                \* whether its request has a result
          failed                 \* the assertion that ended the process, or "none"

vars == <<metadata_state, tree, next_gap, requesting_data_mode, waiters, net,
          reader, turn, result, failed>>

DataRange(s, e) == [start |-> s, end |-> e]
NoRange == DataRange(0, 0)
Size(range) == range.end - range.start
Lesser(a, b) == IF a <= b THEN a ELSE b
Greater(a, b) == IF a >= b THEN a ELSE b

intersect(a, b) ==
    LET s == Greater(a.start, b.start)
        e == Lesser(a.end, b.end)
    IN IF Size(a) = 0 \/ Size(b) = 0 \/ s > e THEN NoRange ELSE DataRange(s, e)

\* DataRange::maybe_accumulate: a range has no holes
Accumulable(set, more) == \/ Size(set) = 0
                          \/ more.end = set.start
                          \/ more.start = set.end
                          \/ more.start >= set.start /\ more.end <= set.end

maybe_accumulate(set, more) ==
    IF Size(set) = 0 THEN more
    ELSE IF more.end = set.start THEN DataRange(more.start, set.end)
    ELSE IF more.start = set.end THEN DataRange(set.start, more.end)
    ELSE set

(***************************************************************************)
(* The tree.                                                               *)
(***************************************************************************)
compute_num_blocks == (FileLen + BlockSize - 1) \div BlockSize
Blocks == 0..(compute_num_blocks - 1)
Hashes == {Content[b] : b \in Blocks}

compute_tree_depth == CHOOSE d \in 0..compute_num_blocks :
                        /\ 2^d > compute_num_blocks - 1
                        /\ \A e \in 0..(d - 1) : 2^e <= compute_num_blocks - 1

compute_tree_size == 2^(compute_tree_depth + 1) - 1
Locations == 0..(compute_tree_size - 1)

_tree_index(level, col) == 2^level - 1 + col
Leaf(blk) == _tree_index(compute_tree_depth, blk)
_left_child(loc) == 2 * (loc + 1) - 1
_sibling_location(loc) == IF loc % 2 = 1 THEN loc + 1 ELSE loc - 1
_parent_location(loc) == (loc + 1) \div 2 - 1

\* The path from a leaf up to level 1.
Path(blk) == {_tree_index(level, blk \div 2^(compute_tree_depth - level)) :
                level \in 1..compute_tree_depth}

\* The records a ZOriginFile holds: those of its blocks, and at each level
\* the sibling that completes the last pair.  The others are v_margin.
OriginRecords ==
    {0} \cup UNION {{_tree_index(level, col) :
                       col \in 0..((compute_num_blocks - 1) \div 2^(compute_tree_depth - level))}
                    \cup {_sibling_location(_tree_index(level,
                             (compute_num_blocks - 1) \div 2^(compute_tree_depth - level)))} :
                    level \in 1..compute_tree_depth}

(***************************************************************************)
(* The handlers run under the file's mutex and are one step each.  They    *)
(* work on a record with a field for every variable they change.           *)
(***************************************************************************)
Now == [metadata_state |-> metadata_state, tree |-> tree, next_gap |-> next_gap,
        requesting_data_mode |-> requesting_data_mode, waiters |-> waiters,
        net |-> net, reader |-> reader, result |-> result, failed |-> failed,
        caused_change |-> FALSE]

Become(s) == /\ metadata_state' = s.metadata_state
             /\ tree' = s.tree
             /\ next_gap' = s.next_gap
             /\ requesting_data_mode' = s.requesting_data_mode
             /\ waiters' = s.waiters
             /\ net' = s.net
             /\ reader' = s.reader
             /\ result' = s.result
             /\ failed' = s.failed

\* lite_assert(condition): the first one that fails ends the process.
lite_assert(s, condition, name) ==
    IF s.failed = "none" /\ ~condition THEN [s EXCEPT !.failed = name] ELSE s

Request(r) == Asks[r][turn[r]]
FileRange == DataRange(0, FileLen)
IsValid(s, blk) == s.next_gap[Content[blk]] = BlockSize
BlocksOf(range) == IF Size(range) = 0 THEN {}
                   ELSE (range.start \div BlockSize)..((range.end - 1) \div BlockSize)

(***************************************************************************)
(* What a request still misses.                                            *)
(***************************************************************************)
round_up_to_block(pos) ==
    LET down == (((pos - 1) % AddrSpace) \div BlockSize) * BlockSize
    IN IF down + BlockSize >= AddrSpace THEN down ELSE down + BlockSize

\* Mutant of MissingOfBlock: a block that has begun to arrive is missing whole.
MissingOfBlock_whole(s, blk, eligible) ==
    IF s.tree[Leaf(blk)] = "validated" /\ IsValid(s, blk) THEN NoRange
    ELSE intersect(DataRange(blk * BlockSize, (blk + 1) * BlockSize), eligible)

\* The part of a block that is not in the cache: all of it while its hash is
\* not validated.
MissingOfBlock(s, blk, eligible) ==
    LET gap == IF s.tree[Leaf(blk)] = "validated" THEN s.next_gap[Content[blk]] ELSE 0
    IN IF gap = BlockSize THEN NoRange
       ELSE intersect(DataRange(blk * BlockSize + gap, (blk + 1) * BlockSize), eligible)

\* One turn of the loop of _compute_missing_set; it stops at a hole, and when
\* the set is about as large as a reply can be.
VisitBlock(s, eligible, acc, blk) ==
    LET more == MissingOfBlock(s, blk, eligible)
        known == s.tree[Leaf(blk)] = "validated" /\ IsValid(s, blk)
        set == IF known THEN acc.set ELSE maybe_accumulate(acc.set, more)
        approx_payload_size == IF s.requesting_data_mode THEN Size(set)
                               ELSE (Size(set) \div BlockSize) * RecordSize
    IN IF acc.stop THEN acc
       ELSE IF ~known /\ ~Accumulable(acc.set, more) THEN [acc EXCEPT !.stop = TRUE]
       ELSE [set |-> set, stop |-> approx_payload_size >= MaxPayload]

_compute_missing_set(s, range) ==
    LET rounded == DataRange((range.start \div BlockSize) * BlockSize,
                             round_up_to_block(range.end))
        eligible == intersect(rounded, FileRange)
        Visit(acc, blk) == VisitBlock(s, eligible, acc, blk)
        first == eligible.start \div BlockSize
        n == Cardinality(BlocksOf(eligible))
    IN FoldLeft(Visit, [set |-> NoRange, stop |-> FALSE],
                [i \in 1..n |-> first + i - 1]).set

(***************************************************************************)
(* RequestBuilder: as many hashes and as much data as a reply can hold.    *)
(***************************************************************************)
_available(b) == MaxPayload - (HeaderSize + RecordSize * Cardinality(b.locations) + Size(b.range))

\* Mutant of request_hash_ancestors: the siblings are not asked for.
request_hash_ancestors_nosibling(s, locations, blk) ==
    LET Novel(loc) == s.tree[loc] = "unknown" /\ loc \notin locations
    IN {loc \in Path(blk) : Novel(loc) /\ \A below \in Path(blk) : below > loc => Novel(below)}

\* The unknown records on the path to a block and beside it, up to the first
\* one on the path that is known or asked for already.
request_hash_ancestors(s, locations, blk) ==
    LET Novel(loc) == s.tree[loc] = "unknown" /\ loc \notin locations
        visited == {loc \in Path(blk) : \A below \in Path(blk) : below > loc => Novel(below)}
    IN {loc \in visited \cup {_sibling_location(v) : v \in visited} : Novel(loc)}

BuildBlock(s, missing, b, blk) ==
    LET start == Greater(missing.start, blk * BlockSize)
        asked == [b EXCEPT !.locations = @ \cup request_hash_ancestors(s, @, blk)]
        end == Lesser(Lesser((blk + 1) * BlockSize, missing.end), start + _available(asked))
        data == DataRange(start, end)
    IN IF b.stop \/ _available(b) <= 0 THEN [b EXCEPT !.stop = TRUE]
       ELSE IF _available(asked) < 0 THEN [b EXCEPT !.stop = TRUE]
       ELSE IF s.tree[Leaf(blk)] # "validated" THEN asked
       ELSE [asked EXCEPT !.range = maybe_accumulate(@, data),
                          !.worked = @ /\ Accumulable(asked.range, data)]

_build_request(s, missing) ==
    LET Build(b, blk) == BuildBlock(s, missing, b, blk)
        first == missing.start \div BlockSize
    IN FoldLeft(Build, [locations |-> {}, range |-> NoRange, stop |-> FALSE, worked |-> TRUE],
                [i \in 1..Cardinality(BlocksOf(missing)) |-> first + i - 1])

\* The server's answer to a request: the records asked for, in the order of
\* their locations, and the part of the range that is in the file.
fill_reply(locations, range) == [locations |-> locations, range |-> intersect(range, FileRange)]

_issue_server_request(s, missing, r) ==
    LET b == _build_request(s, missing)
        reply == IF s.metadata_state THEN fill_reply(b.locations, b.range)
                 ELSE fill_reply({0}, NoRange)
        checked == IF ~s.metadata_state THEN s
                   ELSE lite_assert(lite_assert(s, b.worked, "noncontiguous"),
                               b.locations \subseteq OriginRecords, "margin")
    IN [checked EXCEPT !.net = @ \cup {reply},
                       !.requesting_data_mode = IF s.metadata_state THEN Size(b.range) > 0 ELSE @,
                       !.waiters = Append(@, r)]

(***************************************************************************)
(* Requests.                                                               *)
(***************************************************************************)
\* A wire request is answered at once, from the validated records and the
\* blocks; a local one gets its result and is woken.
deliver_result(s, r) ==
    LET data == intersect(Request(r).range, FileRange)
        records == lite_assert(s, \A loc \in Request(r).locations : s.tree[loc] = "validated",
                          "record not validated")
        blocks == lite_assert(records, \A blk \in BlocksOf(data) : IsValid(s, blk), "block not valid")
    IN IF r \in Wire THEN [blocks EXCEPT !.reader[r] = "idle"]
       ELSE [s EXCEPT !.result[r] = TRUE]

_consider_request_nolock(s, r) ==
    LET missing == _compute_missing_set(s, Request(r).range)
    IN IF s.metadata_state /\ Size(missing) = 0 THEN deliver_result(s, r)
       ELSE _issue_server_request(s, missing, r)

_signal_waiters(s) == FoldLeft(_consider_request_nolock, [s EXCEPT !.waiters = <<>>], s.waiters)

(***************************************************************************)
(* A reply.                                                                *)
(***************************************************************************)
_install_metadata(s) ==
    [s EXCEPT !.metadata_state = TRUE,
              !.caused_change = TRUE,
              !.tree = [loc \in Locations |-> IF loc = 0 THEN "validated" ELSE "unknown"]]

\* A record becomes tentative; a parent that both children now determine
\* becomes tentative with it.
RECURSIVE _mark_node_tentative(_, _)
_mark_node_tentative(t, loc) ==
    LET marked == [t EXCEPT ![loc] = "tentative"]
        parent == _parent_location(loc)
    IN IF loc > 0 /\ t[parent] = "unknown" /\ t[_sibling_location(loc)] # "unknown"
       THEN _mark_node_tentative(marked, parent)
       ELSE marked

install_merkle_records(s, m) ==
    LET Install(t, loc) == IF loc \in m.locations /\ t[loc] = "unknown"
                           THEN _mark_node_tentative(t, loc) ELSE t
        installed == FoldLeft(Install, s.tree, [i \in 1..compute_tree_size |-> i - 1])
    IN [s EXCEPT !.tree = installed, !.caused_change = @ \/ installed # s.tree]

\* ZBlockCacheRecord::receive_data and complete_with_zeros for one block of a
\* reply.
receive_data(s, m, blk) ==
    LET start == Greater(m.range.start, blk * BlockSize) - blk * BlockSize
        end == Lesser(m.range.end, (blk + 1) * BlockSize) - blk * BlockSize
        gap == s.next_gap[Content[blk]]
        last == blk = compute_num_blocks - 1 /\ blk * BlockSize + end = FileLen
        checked == lite_assert(lite_assert(lite_assert(s, s.tree[Leaf(blk)] # "unknown", "no block record"),
                                 start < gap => end <= gap, "not a duplicate"),
                          start <= gap, "out of order")
    IN [checked EXCEPT !.caused_change = @ \/ start >= gap,
                       !.next_gap[Content[blk]] =
                            IF last THEN BlockSize ELSE IF start < gap THEN gap ELSE end]

install_data(s, m) ==
    LET Receive(acc, blk) == receive_data(acc, m, blk)
    IN FoldLeft(Receive, s, [i \in 1..Cardinality(BlocksOf(m.range)) |->
                               (m.range.start \div BlockSize) + i - 1])

\* Every parent of a tentative record whose children are both known is
\* hashed, and validates its children.
_validate_tentative_hashes(s) ==
    LET eligible == {loc \in Locations : /\ _left_child(loc) \in Locations
                                         /\ s.tree[_left_child(loc)] # "unknown"
                                         /\ s.tree[_left_child(loc) + 1] # "unknown"}
    IN [s EXCEPT !.tree = [loc \in Locations |->
            IF s.tree[loc] = "tentative" /\ loc > 0 /\ _parent_location(loc) \in eligible
            THEN "validated" ELSE s.tree[loc]]]

install_reply(m) ==
    LET known == IF metadata_state THEN Now ELSE _install_metadata(Now)
        recorded == install_merkle_records(known, m)
        filled == install_data(recorded, m)
        validated == _validate_tentative_hashes(filled)
        checked == lite_assert(validated, validated.tree # filled.tree => validated.caused_change,
                          "validated nothing new")
    IN /\ failed = "none"
       /\ m \in net
       /\ ~metadata_state => 0 \in m.locations
       /\ Become(IF checked.caused_change THEN _signal_waiters(checked) ELSE checked)
       /\ UNCHANGED turn

Lose(m) == /\ failed = "none"
           /\ m \in net
           /\ net' = net \ {m}
           /\ UNCHANGED <<metadata_state, tree, next_gap, requesting_data_mode, waiters,
                          reader, turn, result, failed>>

(***************************************************************************)
(* Readers: ZLCVFS::open, ZLCHandle::_internal_read, ZFetch::fetch, and    *)
(* ZFileServer for wire requests.  Nobody withdraws a wire request: when   *)
(* the other cache asks again both copies wait; they ask the server for    *)
(* the same, so that one of them stands for all.                           *)
(***************************************************************************)
cache == <<metadata_state, tree, next_gap, requesting_data_mode, net, failed>>

Without(queue, r) == SelectSeq(queue, LAMBDA w : w # r)

consider_request(r) ==
    /\ failed = "none"
    /\ reader[r] = "idle" \/ r \in Wire
    /\ Become(_consider_request_nolock([Now EXCEPT !.reader[r] = "waiting",
                                                   !.waiters = Without(@, r)], r))
    /\ UNCHANGED turn

\* wait_reply returns the result, which the reader copies without the mutex.
write_payload_to_buf(r) ==
    /\ failed = "none"
    /\ reader[r] = "waiting"
    /\ result[r]
    /\ LET data == intersect(Request(r).range, FileRange)
       IN failed' = lite_assert(Now, \A blk \in BlocksOf(data) : IsValid(Now, blk),
                           "block not valid").failed
    /\ reader' = [reader EXCEPT ![r] = "idle"]
    /\ turn' = [turn EXCEPT ![r] = (turn[r] % Len(Asks[r])) + 1]
    /\ result' = [result EXCEPT ![r] = FALSE]
    /\ UNCHANGED <<metadata_state, tree, next_gap, requesting_data_mode, waiters, net>>

\* wait_reply returns NULL after its timeout ...
wait_reply_timeout(r) ==
    /\ failed = "none"
    /\ r \notin Wire
    /\ reader[r] = "waiting"
    /\ ~result[r]
    /\ reader' = [reader EXCEPT ![r] = "expired"]
    /\ UNCHANGED <<cache, waiters, turn, result>>

\* Mutant of withdraw_request: the cache keeps the request.
withdraw_request_kept(r) ==
    /\ failed = "none"
    /\ reader[r] = "expired"
    /\ reader' = [reader EXCEPT ![r] = "idle"]
    /\ result' = [result EXCEPT ![r] = FALSE]
    /\ UNCHANGED <<cache, waiters, turn>>

\* ... and the request is withdrawn and deleted, a result of it too.
withdraw_request(r) ==
    /\ failed = "none"
    /\ reader[r] = "expired"
    /\ waiters' = Without(waiters, r)
    /\ reader' = [reader EXCEPT ![r] = "idle"]
    /\ result' = [result EXCEPT ![r] = FALSE]
    /\ UNCHANGED <<cache, turn>>

Init == /\ metadata_state = FALSE
        /\ tree = [loc \in Locations |-> "unknown"]
        /\ next_gap = [h \in Hashes |-> 0]
        /\ requesting_data_mode = FALSE
        /\ waiters = <<>>
        /\ net = {}
        /\ reader = [r \in Readers |-> "idle"]
        /\ turn = [r \in Readers |-> 1]
        /\ result = [r \in Readers |-> FALSE]
        /\ failed = "none"

ReaderStep(r) == \/ consider_request(r)
                 \/ write_payload_to_buf(r)
                 \/ wait_reply_timeout(r)
                 \/ withdraw_request(r)

Next == \/ \E m \in net : install_reply(m) \/ Lose(m)
        \/ \E r \in Readers : ReaderStep(r)

\* Whether a reply holds anything the cache does not have yet.
News(m) == \/ ~metadata_state
           \/ \E loc \in m.locations : tree[loc] = "unknown"
           \/ \E blk \in BlocksOf(m.range) :
                  ~IsValid(Now, blk) /\ blk * BlockSize + next_gap[Content[blk]] < m.range.end

\* Strong fairness of the network, weak fairness of the local readers'
\* threads, with what ENABLED comes to written out: not every packet with
\* news is lost, a thread goes on and its timeout runs out.
Fairness == /\ []<>(\E m \in net : News(m)) => []<><<\E m \in net : install_reply(m)>>_vars
            /\ \A r \in Readers \ Wire : []<><<ReaderStep(r)>>_vars \/ <>(failed # "none")

Spec == Init /\ [][Next]_vars /\ Fairness

(***************************************************************************)
(* Properties.                                                             *)
(***************************************************************************)

\* A Merkle record is trusted only below trusted ones: after every reply the
\* validated records are a tree that hangs from the root, and nothing is left
\* tentative (_validate_tentative_hashes visits the parents in the order of a
\* hash table and does not look whether they are validated themselves).
TrustIsRooted ==
    \A loc \in Locations \ {0} :
        /\ tree[loc] # "tentative"
        /\ tree[loc] = "validated" => tree[_parent_location(loc)] = "validated"

\* The cache never keeps a request that its reader has deleted, nor one that
\* was answered, nor the same one twice (withdraw_request against
\* _signal_waiters); and no assertion of the cache fails, whatever is lost,
\* reordered or withdrawn: records are complete before a request is answered,
\* replies fit the blocks they are for, and the server has what it is asked for
\* (lite_assert in ZCachedFile, ZBlockCacheRecord, RequestBuilder, DataRange).
WaitersAreLive ==
    /\ failed = "none"
    /\ \A i \in DOMAIN waiters :
          LET r == waiters[i]
          IN /\ r \in Wire \/ (reader[r] \in {"waiting", "expired"} /\ ~result[r])
             /\ \A j \in DOMAIN waiters : waiters[j] = r => i = j

\* A reader that waits is answered in the end, though packets are lost and
\* only withdrawing a request and making it again sends a lost one again.
ReadCompletes ==
    \A r \in Readers \ Wire : reader[r] = "waiting" ~> result[r]

\* An answer for a block that has arrived in part is a duplicate of what has
\* arrived (the comment and the assertion of ZBlockCacheRecord::receive_data).
RepeatedDataIsDuplicate == failed # "not a duplicate"

=============================================================================
