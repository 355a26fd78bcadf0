# cdns in TLA+

cdns is a caching DNS proxy. It takes questions of local clients over UDP and
TCP, answers some of them itself (black list, hosts list, cache) and forwards
the others to plain or DNScrypt resolvers. It is one process with one libev
event loop: there are no threads, and every callback runs to its end. What
interleaves is the callbacks: new requests, sockets that become readable or
writable, and timers.

## Inventory

| Part (source) | State | Operations | Correct when |
|---|---|---|---|
| Listeners and incoming requests (`network/srcz/listener.cpp`, `incoming.cpp`) | vector `requests_`; per request a timer, for TCP a read event | `on_message` (clean up, accept), `create_response`, `on_receive`, `respond`, `close`, timeout | one answer at most; a callback never meets a request that is not queued; everything ends |
| Upstream requests (`network/srcz/upstream.cpp`) | two watchers, timer, socket, one packet that is question and answer in turn | `on_send`, `on_receive`, `pass_failure_downstream`, `close`, timeout | watchers act only on open sockets with the right packet; a failure is told only if the resolver has not got the question |
| Responder (`dns/srcz/responder.cpp`) | vector `upstream_requests_`, filters, hosts, cache, resolvers | `process`, `pre_filter`, `store`, `collect_garbage`, `reload` | one upstream per request; the clean-up removes only what is closed |
| Cache (`dns/srcz/cache.cpp`) | set of entries with deadlines; file `dnscache.bin` | `retrieve`, `store`, `save_as`, `load`, `collect_garbage` | nothing is served beyond its ttl; an interrupted save is not loaded |
| Certifier (`dns/crypt/srcz/certifier.cpp`) | repeating timer, retry step, count of requests, one request, the resolver's key and `ready_` | `update`, `process_response`, rescheduling | no query is encrypted without a key; it does not stall |
| Resolver, encryptor (`dns/crypt/srcz/resolver.cpp`, `encryptor.cpp`) | key, magic, nonce per query | `fold`, `unfold` | an answer is decrypted with the key of its question |
| Crypto responder (`dns/crypt/srcz/cresponder.cpp`) | map of certifiers, seven-minute timer, server keys | `load`, `reload`, `random_provider`, `process`, `respond`, `random_callback`, `save_providers` | only ready resolvers are chosen; they are those of the list |
| Certificates, lists (`dns/crypt/srcz/certificate.cpp`, `csv.cpp`, `resolver.cpp`, `dns/srcz/hosts.cpp`) | texts of files, certificates of a response | parse, choose | files mean what they say; the best valid certificate is used |
| Filter (`dns/srcz/filter.cpp`) | sets of words: exact, prefix, suffix, substring | insert, merge, `match` | a match is what the words say |
| DNS messages (`dns/srcz/query.cpp`) | octets | construct, read, `add_answer`, `adjust_id_and_ttl` | the octets say what they are meant to; what is cut off is refused |
| Server role (`dns/crypt/srcz/server_crypt.cpp`, `cresponder::process`, `respond`) | nonce and key of a question in the class of its message | decrypt a question, encrypt a reply | a reply is encrypted for the question it answers |
| Padding (`dns/crypt/srcz/pad_buffer.cpp`, `find_end`), TCP framing (`network/srcz/connection.cpp`) | octets | pad, frame | what was written is read |
| Options (`dns/srcz/options.cpp`, `crypt_options.cpp`) | one record of settings | read a file or the command line, check | the settings are what the file means, whatever the spelling and order of its lines |
| Daemon, main and system services (`dns/srcz/daemon.cpp`, `dns/crypt/srcz/daemon.cpp`, `dns-main.cpp`, `sys/srcz`, `backtrace/src/catch.cpp`) | how far the start has come, user, logger, listeners, signals that wait | start, signals, reload, save, end | a failure is told to somebody; privileges go last; a signal to stop is not lost |
| Sockets (`network/srcz/socket.cpp`) | descriptors, owned by connections | open, accept, close | descriptors of closed connections come back |

Interaction: a listener owns its incoming requests and calls the responder; the
responder makes an upstream that owns the incoming request too and calls the
responder back with the answer. A certifier has a request of its own, of the
same class as an upstream, and changes the resolver object that upstreams in
flight point to. All of them are reached only through libev watchers.

What is hard here: two timers per request race with its answer; object lifetime
follows from shared pointers in two vectors that a faulty loop compacts; a packet
changes its meaning during an upstream's life; a certificate is replaced under
queries in flight; the cache file is written in place; exceptions other than
`net_error` leave callbacks and end the loop; a daemon that fails has no standard
error stream any more; closed connections keep their descriptors for a while.

## Modules

| Module | Models |
|---|---|
| `Compaction` | what one pass of the clean-up loop keeps, as an operator on sets |
| `Descriptors` | that loop step by step on two sequences, checked against `Compaction`, and the descriptors that their elements hold |
| `DescriptorsProofs` | theorems about `Descriptors` |
| `Proxy` | listeners, incoming requests, responder and upstreams together |
| `ClientView` | abstract: what a client may rely on |
| `MCWire` | `Message` and `TcpFraming` together, the root of their run |
| `MCProxy` | the root of the `Proxy` runs |
| `ProxyProofs` | theorems about `Proxy` |
| `Cache` | cache and file over several processes |
| `CacheProofs` | theorems about `Cache` |
| `Certifier` | certifier and the key of its resolver |
| `Filter`, `MCFilter` | black and white lists; its words and names for TLC |
| `FilterProofs` | theorems about `Filter` |
| `Message`, `MCMessage` | DNS messages, octet by octet; its contents for TLC |
| `TcpFraming`, `MCTcpFraming` | one direction of a TCP connection; its frames for TLC |
| `WireProofs` | theorems about `TcpFraming` and `Message` |
| `Padding` | padding and sizes of encrypted packets, as operators |
| `Exchange`, `MCExchange` | a DNScrypt client and a DNScrypt server over UDP; their texts for TLC |
| `ExchangeProofs` | theorems about `Padding` and `Exchange` |
| `ResolverFiles` | parsers of the resolver list (CSV), `resolv.conf` and the hosts file, as operators |
| `Providers`, `MCProviders` | start, reload, certificates and the choice of resolvers; files and certificates for TLC |
| `ResolverProofs` | theorems about `Providers` and `Certifier` |
| `Options` | the table of options, the configuration file and what an option does, as operators |
| `Daemon`, `MCDaemon` | the process from `main` to its end; lines and arguments for TLC |
| `DaemonProofs` | theorems about `Daemon` |

### Compaction and Descriptors

`listener.cpp` and `responder.cpp` hold the same loop: it erases closed elements
while counting up, so the element behind an erased one is not looked at, and then
cuts the vector behind the last open element it did look at. `Survivors` says in
closed form what is left. Elements are numbered as they are pushed, so a set
stands for a vector. `Descriptors` runs the loop itself (`LoopStep`, one
iteration) on the vectors of the TCP listener and of the responder, in every state
that six requests and any order of closings can reach, and compares: the same
elements are left, and an element keeps its rank among them.

`close` of a client's connection stops its watcher and its timer; the descriptor
goes with the object, which the listener's vector and upstreams in the responder's
vector hold (`Connections`). `close` of an upstream closes its socket. `accept` without a
descriptor ends the process (`AcceptFails`); a socket for an upstream that cannot
be had is a SERVFAIL. So closed connections, too, use up descriptors: with a limit
of 4 TLC finds the process ended with one connection open. `IdleProxyAccepts` says
what is left: it never ends with none open, because the clean-up comes before
`accept`, and the responder's vector, when it was last cleaned up, kept fewer closed
upstreams than it had open ones, which held two descriptors each.
Descriptors of files, of the listeners and of certifiers are part of what the limit
leaves; UDP requests have none of their own.

### Proxy

One action is one callback. A request is a number; the variables are sets of
requests and upstreams for the vectors (`inq`, `upq`), started timers (`active`,
`timing`), started watchers (`reading`, `sending`, `receiving`), open sockets, and
what the upstream's packet holds. `is_closed` and `is_active` are about the timer
alone, as in the code. An incoming request is alive as long as it is in its vector
or an upstream in the vector holds it (`Alive`); a destroyed object's watchers stop.

`Process` is `responder::process` with its five outcomes. It is part of
`UdpMessage` and `TcpReceive`. `AnswerDirectly` leaves open what the lists and the
cache hold. `PassFailure` is `pass_failure_downstream`: it answers only if the
packet still is the plain question. `sent`, `how` and `delivered` record what
happened and are read by no action.

Behaviour that the model keeps and a reader may not expect: a failed receive, an
upstream timeout and a failed send of an encrypted question answer nobody; an
answer that comes after the client's timer has fired is still sent; the clean-up
may drop open requests.

Assumptions: the release build (`NDEBUG`; a debug build ends the loop after 1000
iterations); an encrypted question does not look like a DNS message (its magic
comes from a certificate); timers fire in any order relative to other events; the
process has no server key (`server_ptr_` is null; `Exchange` has one). A reload (SIGHUP) replaces
lists and resolvers and leaves requests in flight alone; resolvers are chosen
freely, so it needs no action. `LoopEnds` stands for signals and for every
exception that leaves a callback.

### ClientView

A request is unsent, waiting, answered or lost, and may only move forward.
`Proxy` implements it with `ViewOf`: a request is lost when the proxy holds no
object for it any more. One callback may settle several requests, because a
clean-up drops objects.

### Cache

A table maps questions to entries with a deadline; `got` and `ttl` remember where
an entry comes from. `file` is the header's count and the entries that are there;
a save that stops early leaves no usable header or any strict part of the
entries. It stops because the process dies, because `save_as` notices and throws
(`SaveDies`), or unnoticed (`SaveMisses`): the state of the stream is looked at
before its destructor writes what it has buffered, and the process goes on.
`missed` remembers that. Each process loads, serves, stores, saves and ends or dies.

`cache::store` keeps an answer under the question it repeats, which nothing compares
with the one that was asked, so `AnswerStored` takes any. `strayed` remembers
the roots among those that were not asked for: an entry without a name makes `load`
refuse the whole file. `SavedIsLoadable` and `FewUnsaved` name both as the only
exceptions. The cache directory is taken to be set and the clock not to go
backwards. A question that failed upstream may stay in `asked`, which only allows
more answers than come.

### Certifier

`delay` is the repeat time of the timer, 0 when stopped; `due` is libev's pending
flag, which makes rescheduling a no-op. `update` is split in its five ways out;
`AskThrows` is what is rethrown without a new schedule, to the timer's callback,
which logs it, or out of `update_certificates`, which ends the start.
`key` stands for cipher, magic and public key, which one certificate sets
together. `ready` decides whether the resolver is chosen, but `fold` and `unfold`
use whatever key there is. A failed send makes `process_response` destroy the
request that called it, and `on_send` then reads the freed object: the process
may end there or go on. The jitter of the delay after a success is left out.

### Filter

The four sets of `dns::filter` over texts, which are sequences of character codes.
`words_match` and `words_insert` are written with the order of the set
(`Before`), since the code looks at one neighbour in that order; the unordered set
of substrings is iterated in any order, so `substr_insert` is a set of outcomes.
`ReadWord` is one turn of the constructor's loop and `EndOfFile` its end and the
merge into the list in `responder::reload`; the loops of `merge` are recursive
functions (`WordTaken` is one turn), and so is the whole loop of the constructor
(`Constructed`), which `WriteReadsBack` runs on what `write` prints. Names neither begin nor end with a dot
(`TextsAssumption`), as those of a query; `match` gets them with a final dot too. `Says` is the independent meaning of a
word. The layout that `write` gives its lines, and the limit of 1024 characters,
are left out. Words that the constructor asserts away (`*x` without a dot) are
excluded by `WordsAssumption`. `optimize` asserts that a prefix ends in a dot
(`filter.cpp:356`), and the constructor takes prefixes that do not, as `b*` of the
run; without assertions, in the release build, what it does with them is right.

### Message

The octets behind the header are a sequence; `get_rr_name`, `get_rr` and the loops
over records (`Walk`) follow the code's offsets, checks and exceptions.
`add_answer` writes behind the last answer, over what stands there. `content` is
what a message is meant to say, and `Encoded` is how a peer writes it. The
constructor (`NameOctets`) puts lengths in the places of the dots. Of `short_info`,
which makes the log line about an answer, the model keeps when it throws: for a
code above 10, a class without a name, or an address record of fewer than 4 or more
than 128 octets. Data in between that are longer than the structure of an address
(`RoomFor`) are copied past its end; this is undefined, so the outcome is either
(`AddressFits` is a set of outcomes).
`pass_answer_downstream` calls it for every answer, before it stores or responds,
and nothing catches what it throws (`AnswerEndsForReason`). `hosted` remembers the
address of the hosts file that the last answer was made from; the octets that
`add_answer` takes are another matter for an IPv6 one, which is why `ReadsBack` is
about IPv4 addresses only. The texts themselves
and the limit on the size of a message are left out.

### TcpFraming

`Send` is `tcp_send`: one call of `send`, which may take a part of the octets and
then ends the sender. `Arrive` brings octets to the receiver's socket in pieces of
any size, also between two calls of `recv` of one `tcp_receive` (`FirstReceive`,
then `ReceiveMore` per turn of the loop). The outcomes are a message, a
`net_error`, which closes the connection, and any other exception, which ends the
event loop (`escape`). A length has two octets; a bad frame has one that does not
fit the buffer, or 0. The run's messages are short, the proofs allow every length.

### Padding and Exchange

`Padding` holds `pad_buffer`, `find_end` and the sizes that the two `curve`
functions reckon with. The sizes of the code (block 64, least padding 8, heads 68
and 48, 55535 octets) are parameters, so TLC takes small ones and the proofs all.

`Exchange` is two processes: questions of a `resolver` object (`Fold` in `on_send`,
`Unfold` in `on_receive`, `Timeout`) and the server role of `cresponder`. What is
sent stays in `toServer` and `toClient` and may be handled any number of times or
never, which is loss, repetition, delay and reordering at once; ports are used
again. The nonce stands for the client's key too, which is derived from it, and
opening fails for another nonce or cipher. A request carries its nonce as
`emessage` does; `AdaptedClass` is what becomes of the class on the way through a
resolver, and `Respond` encrypts only an `emessage`. A reply records, for the
properties alone, its question, its answer and its way (`via`). Exceptions of
`curve` and `uncurve` are no `net_error`: they end the process. A reply too long
for the head that is put before it is written beyond the space reserved, and the
server then ends or goes on. What else may end a process (`Proxy!LoopEnds`) is left
out here, and so is the certifier: both sides have their keys.

Behaviour that the model keeps: answers of the black list, the cache and the hosts
list, and everything that comes through a DNScrypt resolver, leave in plain text
although the question was encrypted, and the client that gets one ends; so does
the client that gets a late answer on a port used again. `RepliesInKind` and
`EndsForReason` say exactly that. The server never uses the cipher of a
certificate of version 2.

### ResolverFiles and Providers

A text is a sequence of tokens, a word being one; the parsers go over it token by
token with the flags of the code. Each way to write a row of the CSV list (`Written`) is
the author's, and a row keeps what its author means, so that the parser is
compared with something that is not a parser.

`Providers` has one action per event of the process: `Start`, `Reload` (SIGHUP),
`Respond` (a response with certificates, `find_valid_certificate`), `SaveFails`
and `Terminate`. The files are read only by the first two, so that a change of a
file is part of the next of them. `Read` is `responder::reload` followed by
`cresponder::load`; the `runtime_error`s of `from_file` and of the list are caught,
those of the hosts file, of the option for `.onion` names and of a filter word that
is too long, and the `logic_error` of the merge, end the process. Of the filters
only the lengths of their words are kept here (`Filter` has the rest). `FoldFails`
is the first question that is encrypted with a weak key. `seen`
keeps the last response of a resolver for `BestIsUsed`. The time is a constant:
certificates are compared with it when they are read and never again. What
`save_providers` writes is an operator on the state (the file is read by nobody
but a user who makes it his list), and `CutsOf` is what a process that dies while
writing may leave.

Behaviour that the model keeps: two rows for one server, one with and one without
`:443`, end the process at a reload and refuse the start; a hosts file that cannot
be read does the same, an unreadable `resolv.conf` or filter list does not; a new
key for a listed address is not taken over by a reload; text behind the closing
quote of the last column is dropped; the `nameserver` in the last line of a
`resolv.conf` without a line break is not used, because `ignore` fails at the end
of the file. Keys are ephemeral, so that `set_resolver_publickey` accepts a weak key
and the error behind it is never thrown: a resolver with a weak key is ready like any
other, and the first question folded for it ends the process. An upstream that waits
to be sent may do so even after a reload has dropped the resolver (`weakDropped`).

### Options and Daemon

A name of an option is the sequence of its syllables and separators, which is what
`normalize` tells apart: it drops the first separator and no other. `SameName` says
without that loop which spellings are one name: the same syllables in any case, and
the same separators at the same places behind the first (`Further`), so
`max-active_requests` is not `max-active-requests`. `Meaning` is
what a file as a whole means, stated without the parser's loop: the last line for
a setting counts, lists collect, a switch is on once a line does not say no.

`Daemon` has one action per step of `cdaemon`'s constructor, in which everything
happens, `execute` included; `phase` is the step that comes next. `Throw` is an
exception: `log_errors` logs, `catch_all_errors` writes to the standard error stream;
`Fail` is one after the constructor of `daemon`, whose destructor tells systemd.
`println` says where a line goes. The user id is all that `revoke_privileges` changes
(a change of group is a TODO in `sysunix.cpp:150`), so privileges mean the user id. A signal
that comes after the constructor has set the watchers waits in `pending` for the
loop, and one turn of the loop calls all watchers. `Descriptors` are the sockets of
systemd. A hosts file that only root may read stands for all files: it is read at
the start as root and at a reload as the user. What else ends the loop is
`LoopFails`. The parent of a fork, the entropy warning and the statistics of a
reload have no state here.

Behaviour that the model keeps and a reader of the manual and of the example
configuration may not expect:

- a log file is opened and never written, so a daemon with one is silent (`daemon_log`);
- `MaxActiveRequests`, `EphemeralKeys` and `ClientKey` in a configuration file are
  ignored like every unknown name; the setting `max-active-requests` is used nowhere;
- log levels go from 0 (emergency) to 7 (debug); a greater one is taken modulo
  65536, a `min-ttl` of -1 is 65535;
- `READY=1` is sent before the change of user, which may still fail;
- `exceptions` changes nothing, since `main` has enabled them;
- a time-out of 0, which is what a word gives, ends the process at the first
  request.

## Runs

| Run | Bounds | Shows |
|---|---|---|
| `descriptors` | 6 requests, 5 descriptors | the loop computes `Survivors`, keeps order, never grows the vector, loses at most as many open as closed requests, and leaves less than half closed (`DamageIsBounded`); `accept` fails only while something is open |
| `proxy` | 3 requests, one DNScrypt resolver over TCP | the safety properties and `ImplementsClientView`; every request and upstream ends |
| `proxy_gc` (violation) | 3 requests, plain UDP | `collect_garbage` destroys an active upstream |
| `cache` | 3 questions (one from the hosts list, one for the root), clock to 2, save every 2 | ttl, restart and crash properties, with saves that fail noticed and unnoticed and answers to other questions |
| `certifier` | 2 queries, 3 requests, 2 certificates | key and timer properties; asking ends |
| `filter` | 3 of 26 words, names of 1 to 4 characters | `match` decides as the words say; the filter is a function of the set of words; it reads back what it prints |
| `wire` | 4782 contents and 4 names from the constructor, 2 answers; 3 frames of 3 messages and 2 bad frames, a buffer of 6 octets | octets say what they are meant to say; truncation is refused; ttl and certificate texts come back; which answers end the process; a TCP connection brings a message whole and alone, and which deliveries end the event loop |
| `message_edns` (violation) | as above | an answer from the hosts file destroys the query's extension record |
| `exchange` | 2 questions on one port, 3 texts of questions and 3 of answers, 2 requests at the server, block 4, least padding 2, heads 4 and 3, 20 octets | whose answer is read and whether whole; which replies are encrypted; which exceptions end a process |
| `providers` | 55 resolver lists, 10 `resolv.conf`, 10 hosts files, 4 sets of lengths of filter words, one of the four unusual at a time; 3 options for `.onion` names; 86 responses | the resolvers are those of the files; what a reload keeps; what ends the process; the best certificate is used; the saved list reads back, whole or cut |
| `daemon` | 3 of 23 lines or of 9 arguments, root or not, hosts file for all or for root, one user besides root | what a file means; where a failure is told without a log file; when privileges go; a signal to stop ends the process |
| `daemon_log` (violation) | as above | a daemon with a log file fails and tells nobody |

Three requests are enough for one to be closed, one behind it to be skipped by the
clean-up and a third to trigger it. A DNScrypt resolver over TCP has every step
and failure an upstream can have; with the encrypted packet both branches of
`PassFailure` are taken. Two queries and two certificates give a key that changes
between `Fold` and `Unfold` of one query but not of the other; three requests are
a first one, a refresh and the one that exhausts them. Clock 2 with ttls 0 and 4
and bounds 1 and 2 reaches both bounds and expiry. Deadlock is not checked: the
process may end, and the bounds stop the rest.

Six requests are a vector long enough for two erased elements with one stepped over
between and behind them; five descriptors are fewer than the requests, so `accept`
does fail. Three lines let two set one option, in both orders, and a third decide
on daemon or log; every line is a case of its own of the parser: a comment or long
line, switches with and without a word, each spelling of a separator, numbers that
are refused, negative or beyond 16 bits, an unknown name. `UINT_MAX` is 1000 there,
so that a number above it is among those refused.

Fairness: `proxy` assumes only that a started timer fires, which libev
does; clients and resolvers may stay silent. `certifier` assumes the same
of the certifier's timer and of the request's own timeout, and that
`update_certificates` runs. `daemon` assumes that the process is scheduled: it takes
the next step of its start, calls the watchers of signals that wait, and saves.

The finding of `proxy_gc`: with an answered and an open upstream in the vector, in
this order, the next question erases the first, steps over the second and
`resize(0)` destroys it. Its client waits in vain. The comment in
`dns/responder.hxx` says that closed requests are removed.

Of the texts of `exchange` one ends like a padded text, one has the greatest length
that is padded, two are full with an end mark of their own, one so early that what
is left is no DNS message, and two are too long to be encrypted. Two questions on
one port and two requests give every late and repeated datagram that matters to a
question. The environment is a client of cdns and programs that ask and answer in
plain text: a datagram made with the server's magic by anyone else, which would end
the server as well (`server_crypt.cpp:77`), is not among what `EndsForReason` counts.

The lists of `providers` are all pairs of six good rows (plain, quoted with a comma,
with `\r`, with text behind a quote, blank, IPv6, a doubled server) and each of
eight bad rows behind a good one, with columns in two orders; the responses to one
resolver are single certificates and all pairs with a valid one of ten
certificates, five valid (at both ends of their time, equal, weak) and five not. The
longest filter word has 1024 characters or one more. A last `nameserver` without a
line break is given no meaning, as the code gives it none: `FollowsFiles` describes
this and does not find it.

The words of `filter` hold, for each kind, words that extend each other, words
that differ, and pairs across kinds of which one makes the other superfluous; three
words over one to three files give every order of two insertions and a merge. The names of
`wire` include the longest one that is read, one character more, and one with
an underscore; the replies have every combination of sections, with an extension
record, the greatest and a negative ttl.

The finding of `message_edns`: nearly every resolver library sends an extension
record. `pre_filter` answers such a query from the hosts file all the same,
`add_answer` writes over the record, `arcount` stays 1, and `store`, called next,
walks over one record more than there is and throws out of the callback
(`TruncationIsRefused`). The assertions that exclude this are off in the default
release build.

Two more assertions of `query.cpp` do not hold for what comes from outside. The
properties of `wire` leave these cases out, and the model shows them. `add_answer` reads the address of an IPv6 entry
of the hosts file as an IPv4 one (`query.cpp:416`), and `hosts::hosts` lets such
entries in. `answer_min_ttl` compares signed numbers, so the ttl is negative when a
record's highest bit is set (`query.cpp:694`); the cache then uses its least ttl.

The finding of `daemon_log`: `setup0` opens the log file and then leaves the logger as
it was, which for a daemon is nowhere. The comment on the option in
`data/default.conf.in` says that errors and information go there.

`tcp_receive` does not wait for the rest of a message: the socket does not block,
and its loop fails at the first turn without octets. Two frames that arrive
together, or a first delivery of one octet, even end the event loop
(`EscapeHasReason` says that nothing else a correct peer does can).

## Proofs

TLAPS checks these for every value of the constants the named `ASSUME`s allow.

*Proxy* (`ProxyProofs`). `Inv` is inductive. Besides the properties themselves it
says that objects are made before they are used (`MadeInOrder`), that an active
request has an owner (`ActiveIsAlive`), that the request of an upstream that can
still act is unanswered and delivered exactly if it is no longer being sent
(`UpstreamPending`), and that kinds are recorded with replies. `UpstreamPending`
is what rules out the second answer. Of the clean-up the proof uses only that it
returns a subset, so the theorems hold for any loop that removes elements,
including a repaired one. The refinement follows from the invariant: each action
moves each request along an allowed move.

*Certifier* (`ResolverProofs`). `Inv` adds that without a key no query was ever
given to the resolver (`NoKeyIsUnused`) and that the first key comes with the
answer to the first counted request (`FirstRequest`). `DelayInRange` bounds the
quotient in the retry delay for every step. `NeverAsksAgain` is an action property
from the same invariant.

*Cache* (`CacheProofs`). `Inv` says that every table, in memory and in the file, is
`Sound` (its deadlines are what arrival and ttl allow, and it has no root but those
that came with stray answers), that a file with all its entries is one that
`save_as` has completed (`FileIsSave`), and that the entries which are not in what
the next process would load are at most the remainder of the size by `SaveEvery`
(`UnsavedCounted`), which is why saving at multiples is enough. The last holds
unless the save before it failed unnoticed or a stray root is in the way. No bound
on questions or time is used.

*Exchange* (`ExchangeProofs`). First, without state: padding stays within its room
(`PaddedFits`), there is room unless a text is full (`PaddedUnlessFull`), `find_end`
stops at one position only (`StopIs`) and in every text (`StopInText`, by a least
element instead of an induction), so a padded text is read back whole
(`EndFound`) and any other as a part of itself (`ReadBack`). `Inv` then says that
what is on the way to the server is what was asked, padded (`DatagramsAreAsked`),
that a request holds what could be read of it (`RequestsAreRead`), and that an
encrypted reply holds its answer, padded, for a cipher both sides use
(`RepliesAreSealed`). Sizes enter only through `SizesAssumption`, which the code's
constants satisfy.

*Daemon* (`DaemonProofs`). `Inv` says that a daemon without a log file has syslog and
that the logger is as the options say from `setup0` on (`LogIsSet`), that the user is
the one who started the process until the listeners are bound (`UserIsKept`), and
that only an ended process has a reason to have ended. `LogIsSet` is what
`FailureIsTold` needs in the steps that fail, `UserIsKept` what rules out a refused
port. `OptionsApplied` shows that `options_apply` establishes the first of them;
lines and arguments are arbitrary (`DaemonAssumption` gives their types only).
For `ConfigMeans` (`ConfigFilesMean`) it is enough that one line more changes
`Meaning` as one turn of `parse_file` changes the options (`LineMeans`): the last
line of a longer file is the new one or the old last one, and switches and lists
only grow. That `normalize` maps two names to one exactly when `SameName` holds is a
fact about texts which the provers cannot derive (an induction over `SelectSeq`); it
is `NamesAssumption`, which TLC evaluates for the table and the lines of the run.

*Descriptors* (`DescriptorsProofs`). The loop is a recursive function; its value is
reached by a run whose every step is `LoopStep`, and the proofs are inductions over
that run, written as the least iteration that would fail (`LoopInduction`). The loop
invariant says which elements of the vector have been looked at, erased and stepped
over, and that what is left in front of the counter is in order (`EraseMoves`,
`EraseStep`, `OpenStep`). From it the result is `Survivors` with the ranks kept
(`CompactKeeps`, `CompactSurvives`). Counting is done by injections: the element
behind each closed survivor was stepped over because the one before it was erased,
and an erased element has one neighbour only (`PassDamage`). `Inv` then adds that a
connection is asked about at most once (`AskedOnce`) and that the responder's
upstreams hold fewer connections than there are descriptors (`UpstreamsLeaveRoom`),
since each of them needed one more when it was made. The last is what
`IdleProxyAccepts` rests on; it holds for every limit of at least one.

*TcpFraming* (`WireProofs`). Everything the peer has sent is the buffer, then the
socket, then the wire (`Stream`), whatever arrived when. `StreamBegins` says that
the stream begins with the first frame, that only a peer which has gone leaves
that frame unfinished, and that only a second frame makes the stream longer;
`ReceiverInv` what the buffer holds at each point of `tcp_receive`. A buffer of
the announced length is then the first frame, and an exception for a good first
frame comes from more than one frame or from a single octet. Messages have any
length that the buffer holds, up to what two octets can say.

*Providers* (`ResolverProofs`). The loops over certificates, rows, characters and
lines are recursive functions; each is shown to exist and to take its steps
(`BestStep`, `MergeStep`, `LineStep`, `RowStep`), and the inductions are arguments
about the least turn that would fail (`LeastNumber`). The loop invariants are
`IsBest`, that of the certificates seen so far the best valid one is held, and
`IsMerged`, that the map holds the old resolvers but the dropped ones and those of
the rows so far, with the count of used rows. `ProvidersInv` says that every resolver
has a type and what its last response gave it (`Held`), and that the state follows
what the parsers returned for the last files (`FollowsParsed`); that a process runs
only if these, the filters and the option were good, and fails only if they were not
or a resolver has a weak key (`FailsAsParsed`). `Held` gives `BestIsUsed`.

For `SavedReadsBack` the parser is taken through a line of three columns word by
word (`Line3Read`), and through every part of one (`TornLine`): a line that ends
too early has fewer than three columns or a last one that is no key, so it is
refused (`TornRowRead`). Its assumptions come from the code: a name is saved only if
it can be asked for, and `query` refuses characters that a host name cannot have, so
it holds neither separator nor quote; a key has 32 octets in a text of one length,
so that a part of it is no key (`CutAssumption`); `csv_max_columns` is at least the
number of columns saved; an address prints as a text that `address` reads.

`FollowsFiles`, `FailsForReason` and `ReloadKeepsService` compare the state with what
the authors of the files mean, which is given with the files. The theorems have
`ReadAsMeant` as a hypothesis: the three parsers make of each file what it means. It
speaks of single files, not of behaviours, and TLC evaluates it for all files of
the run (`MCReadAsMeant`). What is proved from it is everything after the parsers:
starts, reloads and responses in any order. `ProvidersFollow`, `ProvidersFail` and
`ProvidersKeepService` say the same of what the parsers return, without hypothesis.

*Message* (`WireProofs`). `MessageInv` says that the octets of a message are those of
its content, and that an answer written over other records leaves the octets up to
that answer while the header still counts the rest; `HostedInv` that the last answer
from the hosts file stays the last answer. Reading is proved part by part:
a number, also a signed one (`NtohsReads`, `NtohlReads`); a name, label by label from
its end, because the constructor puts each length where the dot in front of its label
was (`NextDotFacts`, `LabelRead`, `NameWalk`); the question, a record, and the walk
(`WalkReads`). Names, octets and walks are recursive functions; each is shown to
exist, and the inductions over it are arguments about the least place that would
fail (`LeastNumber`). For `TruncationIsRefused` every step of the walk over a
message that was cut short finds what it finds in the whole one, or throws
(`NameCut`, `RecordCut`, `WalkCut`), so a walk that succeeds ends where the whole
message ends, which is behind the cut. For `FromCache` the octets that
`adjust_id_and_ttl` changes lie in the lifetime of exactly one record (`HitIsAlone`,
`NoHitInQuestion`), so the result is the encoding of the aged content (`AgedBody`).
`MessageAssumption` gives the constants their types: octets below 256, lifetimes of
32 bits, host names without empty labels whose labels have at most 63 characters,
texts of at most 255 octets, and TXT records that hold one text.

*Filter* (`FilterProofs`). The order of a set compares texts place by place, from one
end or the other; it is linear, a text comes before what extends it, and all
between the two extend it too (`OrderFacts`). So, when no stored word extends
another one (`Antichain`), a word that covers a name is the nearest one not after
the name: `words_match` may look at one word (`MatchLooksAtOne`). `words_insert`
keeps that (`InsertCovers`), for a whole set too (`MergeCovers`); the substrings
find the same names in whatever order they are walked (`SubsMergeCovers`); and what
`optimize` drops is found by a substring, because what ends `.n` or begins `n.`
occurs, with its dot, in `.n.` (`SuffixOccurs`, `PrefixOccurs`, `OptimizeCovers`).
`Inv` says that a filter covers exactly the names its words say (`FilterOf`).

`CanonicalHolds` says which words are kept. A set of texts of which none is part of
another is the set of least words of whatever covers the same texts
(`UniqueMinima`), so inserting and merging keep the least words of all that was read.
`optimize` and a later merge drop more, for good: a part found with its dot by a
substring takes with it what it is part of (`PartWithDot`), and a word that one of two
merged filters has dropped is still not needed in their union (`MergedSet`,
`MergedNeeded`). `CanonInv` ties the list to the words read (`NeededWords`).

`WriteReadsBackHolds` goes on from there. The text of a word that was read is in lower
case and has no star or hash where it would change the kind of the printed word
(`ReadIsPrintable`), so the constructor makes of a printed word the text it came from
(`PrintedIsRead`); its loop, in every order of the unordered set, leaves the least of
the words (`ConstructedLeast`), `optimize` the needed ones, and needed words are needed
among themselves (`NeededStay`). The words it reads are any that pass the assertions of
the constructor (`ListWords`), not only those of the files.

The type invariants of `Proxy`, `Cache`, `Certifier` and `Exchange` are theorems
(`TypeCorrect`), as are `OneUpstreamEach` and `AnsweredIsSettled` of `Proxy`; the runs
do not repeat them.

Only model-checked: liveness and fairness; and `ReadAsMeant`, that the parsers read
files as meant, which TLC evaluates for the files of the run.

## Not modelled, and the plan

Done: the modules above. Next: `ReadAsMeant` for all lists that `Written` gives:
`LineStates` as in `Line3Columns`, with quotes; the parsers of `resolv.conf` and of
the hosts file have to become recursive functions first.

Left out for good: the calls of the system behind sockets, files and syslog; the
printing of messages, stack traces and help; the cryptography itself (libsodium)
and the byte arrays of `crypt`; `cdrill`, a query tool that runs one request of the
modelled classes; `dns-example`, the daemon without DNScrypt; build files and data.

The cache has no bound (`cache_entries_max` is not used) and frees expired entries
at the next start only; nothing promises otherwise, so no property is about it.
