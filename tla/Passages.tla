------------------------------ MODULE Passages ------------------------------
(***************************************************************************)
(* From the lines of a file to embedded chunks: the stages of the worker's  *)
(* pipeline between fetching and persisting, and the calls of the embedding *)
(* service with their retries.  Chunks are numbered from 1; the number of a *)
(* chunk stands for its text, and the vector of text n is n.                *)
(***************************************************************************)
EXTENDS Chunking

CONSTANTS
    Files,            \* the files, each a sequence of pages of lines
    Keys,             \* what tells a margin line that other pages repeat
    BatchSize,        \* openai_embedding_batch_size
    BatchTokenLimit,  \* openai_embedding_batch_token_limit
    MaxRetries,       \* openai_max_retries
    None              \* no error

ASSUME PassagesAssumption ==
    /\ BatchSize \in Nat \ {0}
    /\ BatchTokenLimit \in Nat \ {0}
    /\ MaxRetries \in Nat

\* A line has words, but for a blank one; headings have six levels.
ASSUME FilesAssumption ==
    /\ Files \subseteq Seq(Seq(Line(Keys)))
    /\ NoKey \notin Keys
    /\ \A file \in Files : \A p \in DOMAIN file : \A l \in DOMAIN file[p] :
         LET line == file[p][l]
         IN  /\ line.words = <<>> <=> Blank(line)
             /\ line.kind = "heading" => line.level \in 1..6

VARIABLES
    pages,    \* the lines of the file
    blocks,   \* its blocks, parsed or normalized
    chunks,   \* its chunks
    pc,       \* the stage that comes next
    error,    \* the error that ended the pipeline
    batch,    \* number of the batch that is being embedded
    attempt,  \* number of its last attempt, 0 before the first
    asked,    \* per chunk, how often its text was sent
    vectors   \* per chunk, its vector; 0 without one

vars == <<pages, blocks, chunks, pc, error, batch, attempt, asked, vectors>>

Init ==
    /\ \E file \in Files : pages = ExtractPageLines(file)
    /\ blocks = <<>>
    /\ chunks = <<>>
    /\ pc = "parse"
    /\ error = None
    /\ batch = 1
    /\ attempt = 0
    /\ asked = <<>>
    /\ vectors = <<>>

Fail(code) ==
    /\ pc' = "failed"
    /\ error' = code

Proceed(stage) ==
    /\ pc' = stage
    /\ UNCHANGED error

ParseDocument ==
    /\ pc = "parse"
    /\ blocks' = Parse(pages)
    /\ IF blocks' = <<>> THEN Fail("EMPTY_DOCUMENT") ELSE Proceed("normalize")
    /\ UNCHANGED <<pages, chunks, batch, attempt, asked, vectors>>

\* The bytes are no readable file of their type.
ParseFails ==
    /\ pc = "parse"
    /\ Fail("FILE_PARSE_FAILED")
    /\ UNCHANGED <<pages, blocks, chunks, batch, attempt, asked, vectors>>

NormalizeDocument ==
    /\ pc = "normalize"
    /\ blocks' = NormalizeBlocks(blocks)
    /\ IF Empty(blocks') THEN Fail("EMPTY_DOCUMENT") ELSE Proceed("chunk")
    /\ UNCHANGED <<pages, chunks, batch, attempt, asked, vectors>>

ChunkBlocks ==
    /\ pc = "chunk"
    /\ chunks' = ChunkDocument(blocks)
    /\ IF chunks' = <<>> THEN Fail("CHUNKING_FAILED") ELSE Proceed("embed")
    /\ asked' = [n \in DOMAIN chunks' |-> 0]
    /\ vectors' = [n \in DOMAIN chunks' |-> 0]
    /\ UNCHANGED <<pages, blocks, batch, attempt>>

-----------------------------------------------------------------------------
(* Embedding.                                                              *)

\* Consecutive texts, until the batch has its number or the next text would
\* take it over its tokens; a text that is larger alone makes a batch.
Size(texts) == Total([k \in DOMAIN texts |-> Tokens(Content(chunks[texts[k]]))])

AddToBatch(acc, n) ==
    IF /\ acc.current # <<>>
       /\ \/ Len(acc.current) >= BatchSize
          \/ Size(Append(acc.current, n)) > BatchTokenLimit
    THEN [batches |-> Append(acc.batches, acc.current), current |-> <<n>>]
    ELSE [acc EXCEPT !.current = Append(@, n)]

BuildBatches ==
    LET end == FoldLeftDomain(AddToBatch, [batches |-> <<>>, current |-> <<>>], chunks)
    IN  Append(end.batches, end.current)

Texts == BuildBatches[batch]

SendBatch ==
    /\ pc = "embed"
    /\ attempt' = attempt + 1
    /\ asked' = [n \in DOMAIN asked |-> IF Contains(Texts, n) THEN asked[n] + 1 ELSE asked[n]]
    /\ Proceed("answer")
    /\ UNCHANGED <<pages, blocks, chunks, batch, vectors>>

\* What ends the call at once: an answer that is incomplete or has an empty
\* vector, and requests the service will never accept.
FinalErrors ==
    { "OPENAI_EMBEDDING_FAILED", "OPENAI_RESPONSE_EMPTY", "OPENAI_AUTH_ERROR",
      "OPENAI_INVALID_REQUEST" }

\* What is tried again: limits, timeouts, lost connections, and any other exception.
RetriedErrors ==
    { "OPENAI_RATE_LIMIT", "OPENAI_TIMEOUT", "OPENAI_TRANSIENT_ERROR", "UNEXPECTED" }

\* The service answers with one vector per text, in the order of the texts.
BatchEmbedded ==
    /\ pc = "answer"
    /\ LET answer == Texts
       IN  vectors' = [n \in DOMAIN vectors |->
                        IF Contains(Texts, n)
                        THEN answer[SelectInSeq(Texts, LAMBDA m : m = n)] ELSE vectors[n]]
    /\ batch' = batch + 1
    /\ attempt' = 0
    /\ Proceed(IF batch = Len(BuildBatches) THEN "done" ELSE "embed")
    /\ UNCHANGED <<pages, blocks, chunks, asked>>

CallEnds(code) ==
    /\ pc = "answer"
    /\ code \in FinalErrors \/ (code \in RetriedErrors /\ attempt >= MaxRetries + 1)
    /\ Fail(code)
    /\ UNCHANGED <<pages, blocks, chunks, batch, attempt, asked, vectors>>

\* Mutant: one attempt more than allowed.
CallIsRetried_OneMore(code) ==
    /\ pc = "answer"
    /\ code \in RetriedErrors
    /\ attempt <= MaxRetries + 1
    /\ Proceed("embed")
    /\ UNCHANGED <<pages, blocks, chunks, batch, attempt, asked, vectors>>

CallIsRetried(code) ==
    /\ pc = "answer"
    /\ code \in RetriedErrors
    /\ attempt < MaxRetries + 1
    /\ Proceed("embed")
    /\ UNCHANGED <<pages, blocks, chunks, batch, attempt, asked, vectors>>

Finished ==
    /\ pc \in {"done", "failed"}
    /\ UNCHANGED vars

Next ==
    \/ ParseDocument \/ ParseFails
    \/ NormalizeDocument
    \/ ChunkBlocks
    \/ SendBatch
    \/ BatchEmbedded
    \/ \E code \in FinalErrors \cup RetriedErrors : CallEnds(code) \/ CallIsRetried(code)
    \/ Finished

Spec == Init /\ [][Next]_vars

-----------------------------------------------------------------------------
(* Properties.                                                             *)

\* Chunks that were made and not yet sent: every later state has the same.
JustChunked == pc = "embed" /\ batch = 1 /\ attempt = 0

Before(a, b) ==
    \E k \in 1..3 : a[k] < b[k] /\ \A j \in 1..(k - 1) : a[j] = b[j]

Places(words) == { words[i].at : i \in DOMAIN words }

\* The words of a chunk that are not its headings.
Body(chunk) == Content(BodyUnits(chunk))

Titles(chunk) == { chunk[k].words : k \in { j \in DOMAIN chunk : chunk[j].heading } }

\* A heading with no text of its own: the chunker keeps no section for it.
BareHeading(line) ==
    \E k \in DOMAIN blocks :
        /\ blocks[k].kind = "heading"
        /\ blocks[k].words = line.words
        /\ k = Len(blocks) \/ blocks[k + 1].kind = "heading"

\* At least two pages, seven in ten, have a line with the key of this one.
OnMostPages(line) ==
    LET having == { p \in DOMAIN pages : \E l \in DOMAIN pages[p] :
                        ~Blank(pages[p][l]) /\ pages[p][l].key = line.key }
    IN  /\ line.key # NoKey
        /\ Cardinality(having) >= 2
        /\ 10 * Cardinality(having) >= 7 * Len(pages)

\* Between the line and the top or the bottom of its page nothing is its own.
PageMargin(p, l) ==
    LET Shared(m) == Blank(pages[p][m]) \/ OnMostPages(pages[p][m])
    IN  \/ \A m \in 1..l : Shared(m)
        \/ \A m \in l..Len(pages[p]) : Shared(m)

\* What the file says is in its chunks, in the order of the file, each word
\* in one body or in the overlap of several: only rules, page margins and
\* headings without text are missing (chunker.py:79-123, pdf_parser.py:77-112).
NothingLost ==
    JustChunked =>
        LET bodies == FlattenSeq([n \in DOMAIN chunks |-> Body(chunks[n])])
            First(i) == \A j \in 1..(i - 1) : bodies[j].at # bodies[i].at
            kept == UNION { Places(Content(chunks[n])) : n \in DOMAIN chunks }
        IN  /\ \A i \in DOMAIN bodies : First(i) =>
                 \A j \in 1..(i - 1) : Before(bodies[j].at, bodies[i].at)
            /\ \A p \in DOMAIN pages : \A l \in DOMAIN pages[p] :
                 \/ Blank(pages[p][l])
                 \/ pages[p][l].noise
                 \/ Places(pages[p][l].words) \subseteq kept
                 \/ BareHeading(pages[p][l])
                 \/ PageMargin(p, l)

\* How the chunker may have come to a unit that is over the limit by itself.
WholePart(unit, title) ==
    \/ Len(unit.words) = 1
    \/ \E s \in Range(BuildSections(blocks)) :
         /\ s.title = title
         /\ \E text \in Range(SectionTexts(s.blocks)) :
              \E way \in Range(Splits(text)) : Len(way) > 1 /\ unit.words \in Range(way)

\* No chunk is over the target, its heading included, but for one word or one
\* sentence (or line) that is so large by itself; what two neighbours share
\* ends the one and begins the other, is less than the overlap but for its
\* first unit, and is never all of the second (chunker.py:321-397).
ChunksFit ==
    JustChunked =>
        /\ \A n \in DOMAIN chunks :
             LET body == BodyUnits(chunks[n])
             IN  \/ UnitsTokens(chunks[n]) <= Target
                 \/ /\ Len(body) = 1
                    /\ \E title \in Titles(chunks[n]) \cup {NoTitle} : WholePart(body[1], title)
        /\ \A n \in 2..Len(chunks) :
             LET before == BodyUnits(chunks[n - 1])
                 after  == BodyUnits(chunks[n])
                 shared == At(after, { k \in DOMAIN after : Contains(before, after[k]) })
             IN  /\ IsPrefix(shared, after) /\ shared # after
                 /\ IsSuffix(shared, before)
                 /\ Len(shared) > 1 => UnitsTokens(Tail(shared)) < Overlap

\* The headings over a block: the last of each lower level that no heading of
\* its level or a lower one follows.
Headings(k) ==
    LET Open(i) == /\ blocks[i].kind = "heading"
                   /\ \A j \in (i + 1)..k : blocks[j].kind = "heading" =>
                                              blocks[j].level > blocks[i].level
    IN  At([i \in 1..k |-> i], { i \in 1..k : Open(i) })

\* The title of the section a block belongs to.
TitleOver(k) == IF Headings(k) = <<>> THEN NoTitle ELSE blocks[Last(Headings(k))].words

NoLevelSkipped ==
    \A k \in DOMAIN blocks : blocks[k].kind = "heading" =>
        LET above == Headings(k)
        IN  blocks[k].level = Len(above)

\* A passage is read under the heading it stands under in the file: the title
\* of its section comes before it in every chunk that has it, and no other
\* title comes between; a section's path is the headings over it, as long as
\* the document skips no level (chunker.py:99-106, :365-385).
ReadUnderItsTitle ==
    /\ \A n \in DOMAIN chunks : \A u \in DOMAIN chunks[n] :
         LET titles == { v \in 1..u : chunks[n][v].heading }
             shown  == IF titles = {} THEN NoTitle ELSE chunks[n][Max(titles)].words
         IN  chunks[n][u].heading \/
             \A k \in DOMAIN blocks :
                Places(blocks[k].words) \cap Places(chunks[n][u].words) # {} =>
                    shown = TitleOver(k)
    /\ NoLevelSkipped =>
         \A s \in Range(BuildSections(blocks)) :
            \A k \in DOMAIN blocks :
                blocks[k].words = s.blocks[1].words =>
                    s.path = [h \in DOMAIN Headings(k) |-> blocks[Headings(k)[h]].words]

\* The blocks of questions and answers that run on from k to j, in either order.
SameRun(k, j) ==
    \A i \in Min({k, j})..Max({k, j}) : blocks[i].kind = "qa_pair"

\* A citation leads to its passage: a chunk names the blocks its text is from,
\* and others only when they are questions and answers of one run that was
\* split; its page is the one its text begins on, or that run begins on; and
\* it is shown under the first title its text stands under (chunker.py:399-444),
\* as the text itself is read under its titles.
CitedWhereItStands ==
    JustChunked =>
        /\ ReadUnderItsTitle
        /\ \A n \in DOMAIN chunks :
             LET body == Body(chunks[n])
                 Has(k) == Places(blocks[k].words) \cap Places(body) # {}
                 own == { k \in DOMAIN blocks : Has(k) }
                 titled == { k \in own : TitleOver(k) # NoTitle }
                 runs == { k \in DOMAIN blocks : \E j \in own : k = j \/ SameRun(k, j) }
             IN  /\ own \subseteq SourceBlocks(chunks[n])
                 /\ SourceBlocks(chunks[n]) \subseteq runs
                 /\ PageNumber(blocks, chunks[n]) \in
                      { PageOf(blocks[k]) : k \in { j \in runs : j <= Min(own) } }
                 /\ SectionTitle(chunks[n]) = IF titled = {} THEN NoTitle
                                              ELSE TitleOver(Min(titled))

\* Every chunk gets the vector of its own text.  The batches cover the chunks
\* in order, each within both limits or of one text that is over them alone;
\* a text is sent once more per retry, never after its batch was answered;
\* and a call gives up with the error of its last attempt, when that is
\* final or was the last one allowed (openai_embedding_client.py:59-185).
EmbeddedOnce ==
    /\ pc = "done" => \A n \in DOMAIN chunks : vectors[n] = n
    /\ \A n \in DOMAIN chunks :
         /\ asked[n] <= MaxRetries + 1
         /\ vectors[n] # 0 => asked[n] > 0
    /\ pc = "failed" /\ error \in RetriedErrors =>
         \E n \in DOMAIN chunks : vectors[n] = 0 /\ asked[n] = MaxRetries + 1
    /\ JustChunked =>
         LET batches == BuildBatches
         IN  /\ FlattenSeq(batches) = [n \in DOMAIN chunks |-> n]
             /\ \A b \in Range(batches) :
                  /\ Len(b) \in 1..BatchSize
                  /\ Size(b) <= BatchTokenLimit \/ Len(b) = 1

=============================================================================
