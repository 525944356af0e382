# Curlinho: specifications, checks and proofs

Curlinho is a small C++11 wrapper around libcurl. An application calls `Get`,
`Post`, `GetAsync`, `PostAsync` or `PostDetach` with a URL and any number of option
objects, gets the answer to the first attempt, and may give a `RetryPolicy` under
which the library repeats a failed request from a detached thread. There are no
tests in the repository. This directory holds TLA+ models of the code (not of its
documentation), the TLC runs that check them on small instances and the TLAPS
proofs that hold for every instance.

Source paths below are relative to `src/`.

## The system

| component | code | state it keeps | operations |
|---|---|---|---|
| Calls | `include/curlinho/curlinho.h:38-97` | the stack of a call: url, body, options, `res`; a thread for the launching kinds | `Get`, `Post`, `GetAsync`, `PostAsync`, `PostDetach` |
| Retry handlers | `curlinho.h:99-165` | a detached thread with copies of `res`, url, body, options; its `Session`, `retry`, `r`, `timer` | `handleGetRetries`, `handlePostRetries` |
| Option forwarding | `curlinho.h:23-34` and the `std::move` / `CRL_FWD` of every entry point | none of its own: who owns, who moved, who points | `set_option`, captures, by-value packs |
| Session | `src/session.cpp`, `session.h` | the easy handle, its header list, url, parameters, headers, policy, protocol version | the setters, `Get`, `Post`, `makeRequest` |
| TLS context callback | `session.cpp:95-136` | borrowed certificate string, BIO, X509 | `SetSslCert`, `ctxFunction` |
| Response headers | `src/util.cpp:29-74` | none | `parseHeaders`, `writeFunction`, `split` |
| Parameters | `src/parameters.cpp`, `util.cpp:76-93` | `content`, the encoded query | `AddParameter`, `urlEncode` |
| Records | `response.h`, `error.h`, `auth.h`, `util.h:15-23` | values | constructors, `Timeout::Milliseconds` |
| Random delays | `util.cpp:95-100` | none | `randomNumberRange` |
| Sample, build | `examples/`, `CMakeLists.txt` | none | a `main` that returns with threads running |
| Vendored | `dependencies/` | libcurl, OpenSSL, ... | used through the C API only |

How they interact. A launching call creates a thread that runs the synchronous
body. That body configures a `Session`, performs, hands copies or moves of its
arguments to the retry handler, which creates a detached thread, and returns. The
retry thread configures a second `Session` and loops: decide about the last answer,
sleep, perform again. Nothing is shared between calls but the system's threads; a
call shares with its retry thread only what was copied or moved, plus whatever a
libcurl handle was given a pointer to.

What is hard: a retry thread that outlives the call, the caller's objects and even
the answer's relevance; the process may exit between any two of its steps; a
request that timed out may still be served; libcurl sends a request again at a
redirect or on a connection that died, within one attempt; threads may run out after
the request was made; the same option object is forwarded twice; libcurl keeps pointers, not
copies, of some options; a delay is computed in floating point, narrowed to `int`,
and passed to `sleep(unsigned)`.

What makes each component correct:
- calls: the caller is told once, of the first attempt; a call that throws leaves
  nothing running; threads running out has no other effect;
- retries: only a retryable failure is repeated, at most `numRetries` times, all of
  them used while the failure persists, never sleeping more than `maxBackOff`;
- forwarding: no dangling pointer, a retry repeats its request, the caller's
  variables are left alone;
- session: what a request carries depends on the values set last, on the cookies of
  earlier answers and on nothing else; the header list has one owner; nothing the
  handle points to is gone;
- TLS callback: open connections trust the certificate they were opened with, and
  only callbacks that fail leave something in memory;
- headers: the map is that of the response whose status is returned, whatever came
  before it; parameters: a server reads back what was added.

## Modules

| module | role |
|---|---|
| `Backoff` | pure: what counts as a failure, which failures are retried, the timer of each retry with its int conversion and cap |
| `RequestContract` | abstract specification: what a call with a retry policy promises, without threads, codes, sleeps or network |
| `Requests` | the threads of every call, the network and the process; its properties; the mapping to `RequestContract` |
| `MCRequests` | instances of `Requests` |
| `RequestsProofs` | theorems about `Requests` |
| `Forwarding` | the objects, moves, borrowed pointers and sessions of one call, interleaved with its caller and its retry thread |
| `MCForwarding` | instance of `Forwarding` |
| `ForwardingProofs` | theorems about `Forwarding` |
| `SessionContract` | abstract specification: a request as a function of the values given last and of the cookies that answers left |
| `Session` | a session that an application keeps: its members, its handle's options and cookies, its header list, the application's strings; the mapping to `SessionContract` |
| `MCSession` | instances of `Session` |
| `SessionProofs` | theorems about `Session` |
| `Headers` | the header lines of a transfer and the loop of `parseHeaders` |
| `MCHeaders` | instance of `Headers` |
| `HeadersProofs` | theorems about `Headers` |
| `Parameters` | `AddParameter`, `urlEncode` and the url of a request, on bytes; a server's decoder |
| `MCParameters` | instance of `Parameters` |
| `EncodingProofs` | theorems about `urlEncode` and the decoder |
| `QueryProofs` | theorems about queries: what a server reads out of joined ones |
| `ParametersProofs` | theorems about `Parameters` |
| `SslContext` | `ctxFunction` for every connection of a session, call by call |
| `MCSslContext` | instance of `SslContext` |
| `SslContextProofs` | theorems about `SslContext` |

`Requests` and `Forwarding` describe the same threads from two sides. `Requests`
follows answers, counters and threads and treats the options as a value the
application decided on. `Forwarding` follows the option objects and treats the
answers as irrelevant: its retry thread may retry any number of times.

The other four follow one session each. `Session` has no threads, because a session
is used by one thread at a time; it takes the query as a value and the answer as any
answer. `Parameters` says what the query is made of, `Headers` where the headers of an
answer come from, and `SslContext` what becomes of the certificate that `Session` keeps
alive. What the retry loop of `Requests` needs of its session is `RepeatsItself`: the
requests of a loop are the same, but for the cookies that answers to earlier retries
left. The session of the retries is not that of the first request and does not have
the cookies of the first answer.

An operator whose comment starts with "Mistaken:" is a plausible slip in the
definition below it. Nothing uses it; putting it in place of that definition
breaks the property that `PROJECT.json` names, which shows that the property
depends on the code.

### Requests: correspondence with the code

`call[c]` is the record of what the application passes; `limited` says whether a
`Timeout` option of more than 0 ms is among it (libcurl takes 0 as none). `pc[c]` is the
thread that runs `Get` or `Post`:

| action | code |
|---|---|
| `Issue` | a caller enters an entry point. The synchronous ones go straight to `curl_easy_perform`; the others need a thread (`std::async`, `std::thread`, lines 59, 87, 95) and throw without one |
| `Receive` / `FirstAnswer` | `makeRequest` returns inside `GetIntern` or `PostIntern`; `res` is set |
| `Spawn` | lines 101-130: the handler constructs and detaches the retry thread (`StartRetries`), or `std::thread` throws (`Refused`): to the caller, into the future, or out of `PostDetach`'s thread function, which is `std::terminate` |
| `Return` | lines 53, 69 |
| `Loop` = `Leave`, `Skip`, `Sleep` | lines 107-124: the loop condition, the `break`, the iteration that does nothing after a success, and the timer with `CRL_SLEEP`. Drawing the timer is part of `Sleep`; in the other iterations it is computed and unused |
| `Wake` | the sleep ends and `session.Post()` performs again |
| `Receive` / `RetryAnswer` | line 125: `r` is assigned, and `retry++` |
| `Transmit`, `Serve` | the network and the server (external) |
| `Exit` | `main` returns, as `examples/curlinhoSample.cpp:44-45` does with a detached thread running. An `AsyncResponse` that the application still holds waits for its thread in its destructor |

`tries`, `answer`, `inflight` and `served` are history: attempts begun, the last
answer given, requests on their way and requests carried out. `answer` is kept
apart from the loop's `r` so that a property can say that the loop looks at the
right one.

One attempt may send more than one request, and each of them may be carried out.
`session.cpp:21-23` follow up to 50 redirects, and `CURLOPT_CUSTOMREQUEST`
(`session.cpp:249`) has the method sent again to each; libcurl also sends a request
again when a kept connection dies before an answer. So `inflight` and `served` hold
pairs <<attempt, send>>. `Due` is what the attempt may send next: its first request, or
the one after a request that is `Superseded`, i.e. served (its answer redirects) or
out on a connection that may have carried another (`Reusing`: a second send, or a
third attempt, which is the second on the retry thread's handle). `MaxSends` bounds the
sends of one `curl_easy_perform`. It stands for libcurl's own limits on redirects and
resends, not for anything this code counts. `BoundedDelivery` is therefore a bound of
`MaxSends * (1 + numRetries)` requests carried out, each under its own pair: the code
adds attempts to libcurl's sends, and no more than the policy says.

`Possible(c)` is what `curl_easy_perform` may return: a status only if a server
served some request of this attempt (it may be the status of a redirect whose
successor failed); no error only with a status and when the last request sent was
served; a timeout while a request is still to be sent (libcurl's default connect
timeout) or otherwise only with a `Timeout` option. A failure other than a timeout is
possible at any time. A 200 with a broken transfer is possible and counts as failed,
as it does in line 113.

### Forwarding: correspondence with the code

Each of the three places that hold a copy of the arguments (the caller, a launched
thread, the retry thread) maps an element (an option type, or the positional `body`)
to `none`, `full` or `moved`. The intermediate by-value packs (of `GetAsync`, of the
thread's storage, of the handlers) live for one forwarding chain without another
actor seeing them and are collapsed into the place at the end of the chain.
`session[t]` says where the value of each field of the session came from;
`borrowed[t]` which objects its handle points into.

Of the setters, `SetParameters(Parameters &&)` moves, `SetBody(const Body &)` and
`SetSslCert` borrow (`CURLOPT_POSTFIELDS`, `CURLOPT_SSL_CTX_DATA`), and the others copy,
`SetBody(Body &&)` included (`CURLOPT_COPYPOSTFIELDS`). `GetIntern` and `PostIntern` set
the options, then url if it is not empty, then (in `PostIntern`) body in any case; the
retry thread's session starts with url and body if not empty, then takes the options.
`Get` applies `std::move` to its options, `Post` forwards them as they came; the
launching calls own copies and move those. `CallerDrops` may happen as soon as the
language allows it.

### Session: correspondence with the code

Every setter is an action, and `SetOption` of a type is the setter of that type.
`member` holds the members of the object, `option` what the handle was told,
`chunk` and `list` the `curl_slist` of `CurlHolder` and the lists in memory, `memory` the
strings of the application that `SetBody(const Body &)`, the constructor and
`SetSslCert` make the handle point to. `lent` is not in the code: it is what an
application has to remember in order to use the class correctly, and the guard of
`Assign` is the precondition that this puts on it. A body may go when another one is
set; a certificate only when another one that is not empty is set.

`Construct` makes a handle or a NULL one (`curl_easy_init` failed), on which every
setter but those of plain members does nothing. `Perform` on a NULL handle returns
an arbitrary status with an error, or crashes, because `makeRequest` constructs a
string from the uninitialised `raw_url`. `SetHeaders` is one action: merge, build the
list with some of its appends failing, install it, free the old one. A session has one
thread, so what the handle points to between the last two calls cannot be observed
and is not checked. `cloneHolder`, which nothing calls, is not modelled.

`CURLOPT_COOKIEFILE` with an empty name (`session.cpp:25,51`) has the handle keep the
cookies of its answers. `jar` holds them: any answer leaves any set of cookies, redirects
included, and a request carries those of the jar that its url may have (`Reach`). A
cookie may expire at any time (`Expire`). The other constant options, redirects and
keep-alive, are what `Requests` has its repeated sends from.

A `Timeout` is a signed number of milliseconds, in 64 bits, that `util.h:17-18` casts
to long unchecked. A negative one reaches libcurl, which refuses it, and the timeout before
stays in force; one that does not fit the long wraps and is some other timeout, or
refused. `TimeoutKept` holds for those that fit. Header values of blanks only are merged
and put into the list, but libcurl does not send them.

`SessionContract` knows a record of settings, the cookies left by answers and a request
made from both. The mapping `Setting` reads the settings off the members, the options
and, through the pointers, the application's strings: a pointer to a changed string
would be a setting that changes without having been given.

### Headers: correspondence with the code

`StatusLine`, `Field` and `OtherLine` are libcurl's calls of `writeFunction`, in the order
of the HTTP grammar: a status line, fields, an empty line, perhaps a body and the
fields of a trailer, and then perhaps the next response. `Perform` is the return of
`curl_easy_perform`, at any point. `ParseLine` is one iteration of the loop. A line is
reduced to what the loop can see of it: the test for `HTTP/`, what is before the first
colon, and the characters after it. `LastValues` is stated for every iteration and
against the lines themselves, not against the loop. The names of fields are HTTP
tokens; libcurl rejects responses where they are not.

### Parameters: correspondence with the code

Texts are sequences of bytes, and the operators of `urlEncode` are the code's: what is
left alone, what is escaped, with which digits. What `std::isalnum` says of a byte
above 127, which it is given as a negative `char`, is left open (`HighAlnum`): in the C
locale it is nothing, in others it may be letters, which then reach the url
unescaped. The decoder is that of the URL standard, for queries. `ServerUnderstands`
holds for urls that bring no query or fragment of their own: `makeRequest` appends `?`
to whatever there is. After a query of the url's own that second question mark is
part of a value, or of a key: `MergesOneAtMost` says that this damages one parameter on
each side of it and no more. After a fragment the parameters are not sent at all
(theorem `FragmentHidesParameters`). Parameters that are empty altogether vanish; a parameter
without a value is read back with an empty one. `content` is a public member: an
application that writes to it is on its own.

### SslContext: correspondence with the code

`Connect` is libcurl opening a connection and calling `ctxFunction`; the actions up to
`BIO_free` are the calls in its body, in their order, each failing or not; `Opened` and
`GivenUp` are libcurl's reaction to the value returned, or to the handshake. `bio` and
`cert` are its local variables; `leak` is history: what they referred to when it
returned early. Addresses are reused, so that a reference that was not counted
ends up at somebody else's certificate.

## Runs

| run | instance | shows |
|---|---|---|
| `one_call` | one call; every kind; no retries, two retries with delays on both sides of the cap, two retries the second of whose delays overflows; a 12-bit magnitude (`IntMax` 4095); statuses 200, 404, 503, with 503 recoverable and in one policy failed connections too; two sends; one thread | the retry loop, the sleeps on both systems, the network's races, repeated sends, the refused retry thread of launching calls; that steps run out; refinement of the contract |
| `contention` | two calls of any kind, one retry, one send, three threads, symmetric calls | who is refused a thread and what that leaves behind; with at most one launching call three threads are enough, with two they are not |
| `liveness` | as `one_call`, with fairness | limited calls and their retries end |
| `overflow` | as `one_call`, one status | expected violation: the thread sleeps for another time than the log announces |
| `forwarding` | one call; any subset of five option types, each written as an lvalue, a const or a temporary; positional url and body empty or not; every method and kind | lifetimes, the caller's variables, what retries carry |
| `lost_parameters` | as `forwarding` | expected violation: a retry lacks the parameters of its request |
| `session_headers` | only `SetHeaders`; every map of two names, one in two spellings, to a value, an empty one or a blank one; two addresses for lists | merging, failed appends, one list in memory, what is sent of it; refinement |
| `session_options` | the other setters, with two values where a second one matters, two strings of the application and a cookie for one of two urls | pointers, copies, sticky settings, cookies, repeated requests, the NULL handle; refinement |
| `session_limits` | a long of 4 bits and timeouts of more, negative ones on both sides of its range; a libcurl without HTTP/2 | narrowed and refused timeouts, reported versions |
| `response_headers` | five lines; two statuses, a reason with a colon, two names, one in two spellings, two values | chains, trailers, folded lines, transfers that break off |
| `parameters` | three parameters of seven keys and four values, with every byte that means something in a url and with bytes below 16 and above 127; five urls: plain ones, with a query of one, two and an unfinished parameter, with a fragment | encoding and joining against a decoder; what a query of the url's own costs |
| `ssl_context` | two connections, three texts (one without a certificate), two BIOs, three X509s | counts of references on every path, trust of open connections |

Why the bounds are enough. Calls share nothing but the number of threads, so everything
about one call is checked with one call, and what is about threads with two calls and
three threads, where both outcomes of the capacity property occur. Two retries give a
first, a middle and a last iteration, an exponent of 0 and 1, and a success or a failure
after a retry. The narrow int makes the overflow occur at retry 1 instead of retry 29,
and is wide enough for the milliseconds of the shorter caps. Two sends are a first and a
repeated one; contention has one, because threads do not depend on what the network
does. The setters of a session are split over three runs because the options they set
are independent but for the ones that a run combines. Five lines are a redirect with a
field and a final response with a field twice; the loop of `parseHeaders` has no other
memory than its map. In `ssl_context` a leak uses up addresses; with the last one used
up only failures are left, which the bounds allow to happen after each possible order of
two connections. In `forwarding`, `Authentication` travels like `Headers`, and `Headers`
and `Timeout` have no rule of their own among the checked ones; the proofs cover all of
them. The proofs also lift every other bound.

Deadlock checking is off in all runs but `ssl_context`: all calls being done, the
process or the session being gone, the lines parsed, or the bound on parameters
reached is the normal end.

Fairness (`Fairness` in `Requests`): the operating system runs runnable threads and
ends sleeps, so the steps of both threads of a call are weakly fair;
`curl_easy_perform` is sure to return only with `CURLOPT_TIMEOUT_MS`, so `Answered` is
fair for limited calls only. The application need not call or exit, and the network
need not transmit or serve. Without a `Timeout` option nothing ends a transfer whose
server stays silent, so neither liveness property is claimed for such calls.

## Findings

1. **Overflowing delays** (run `overflow`). `(int)(pow(2, retry) * random)` is narrowed
   before it is capped. Where the product does not fit, x86 builds get `INT_MIN`,
   which no cap catches; the log prints a negative number of seconds and
   `sleep(unsigned)` takes it as 2^31. With the sample's policy this needs about 29
      retries, with delays of an hour about 20. Builds that saturate are capped.
   `SleepsAsAnnounced` is about the branch that announces the seconds: the answer before
   the retry is a recoverable status, not a timeout, whose log line has no number.
2. **Retries lose their parameters** (run `lost_parameters`). One `Parameters` object is
   forwarded twice as an rvalue; the first session takes it. Every `Get` with
   non-const parameters, every asynchronous call and every `Post` with a temporary
   retries without its query. `RetryDiffersOnlyWhere` states the whole list of
   differences, the other two being that options override positional arguments in
   the retry and the other way round in the first request, and that an empty body is
   set in the first request only.
3. Not a subject of a run: `Get` empties its caller's non-const option variables
   (`KeepsCallersOptions` excludes it), and `examples/curlinhoSample.cpp:19` calls
   `SetDefaults`, which the library does not have.

## Proofs

The eight modules of proofs are checked by TLAPS with Z3, Zenon and LS4.

Assumptions: those named in the modules. `Calls` is finite; `IntMax` and `MaxThreads`
are naturals, `MaxSends` is a positive one; statuses are positive, recoverable codes may
include 0; `None` and `Threw` are not answers; policies are
records with `minDelay <= maxDelay` (a precondition of `uniform_int_distribution`);
`Passable` is a set of option types. In `Session` header maps are sets of pairs, timeouts
are integers, the markers `None`, `Gone` and `Damaged` differ from the texts, and a blank
text from the empty one; in `Headers` values are
sequences of characters; in `Parameters` texts and urls are sequences of bytes and `HighAlnum`
is above 127 and without 255, which is `EOF` as a `char`; in `SslContext` `None` is no
object. Nothing is assumed about how many of anything there are.

*Requests.* `TypeOK` is inductive; the only step that is not immediate is the timer's,
because `Timers` must stay in `IntMin..IntMax` whatever an overflow gives
(`TimersAreInts`). The safety properties are not inductive: `GivesUpOnlyWhenDue` says
nothing while the loop runs, so it needs that on a failing request every iteration
made exactly one attempt. `Bookkeeping` is the strengthening: per call, how `pc`,
`worker` and `outcome` go together, how `tries` follows `retry` in each state of the
loop, that `answer` is what the loop looks at, and that the network knows only of
attempts that were made. It is inductive relative to `TypeOK`, with one step per
action and one sub-step per group of conjuncts. From it follow
`BoundedDelivery` (with the cardinality of a product of intervals), `GivesUpOnlyWhenDue`,
`ThrowLeavesNoRetries`, `WaitBounded` and the action property `RetryJustified`.
`WaitBounded` rests on `FittingTimers`: when every product fits, a timer is a product,
capped. That it is not below the least one needs nothing of powers of two but
that products of the policy are not negative (`ProductsAreOrdered`), and that Windows
sleeps as long, that the milliseconds do not wrap (`MillisecondsFit`).
`FittingSleepsAreAnnounced` is the other side of finding 1: an overflow is the only way
to a sleep that the log does not announce. `EnoughThreads` is inductive relative to both: a call
without a retry thread leaves at least one thread of its share unused
(`ShareIsFree`). `Refinement` maps every step to a step of the contract or to a
stutter; `Issue` and `Wake` are its `Attempt`, `Receive` its `Answer`, `Return` its `Tell`, and
the throwing steps its `Refuse`. `ContractPromises` proves an inductive invariant of the
contract alone, and `PromiseKept` carries it over to the threads by the refinement.

*Requests, towards liveness.* Fairness is beyond the prover, but what the liveness
properties rest on is not. `StepsLeft` counts what the threads of a call may still do: up
to four steps of `Get` or `Post`, two for the retry thread's start and end, and three for
each retry allowed. `StepsRunOut` says that each of their steps lowers it and that
nothing raises it; `Moves` lists the steps as changes of place, and `MovesCount` compares
the counts. `StepsCanBeTaken` says that a thread at its place lacks nothing to go on: a
timer can be drawn, and a call with a `Timeout` option can always be answered. What
remains to `LimitedCallsReturn` and `LimitedRetriesEnd` is the fairness itself, and that
part TLC checks.

*Forwarding.* `Custody` is the inductive invariant: which objects are intact at each
stage, that borrowed pointers lead into the thread's own intact objects, and what
the two sessions hold, field by field (`FirstValue`, `RetryValue`). The four other
properties follow from it; `KeepsCallersOptions` is inductive relative to it.

*Session.* `Kept` is the inductive invariant. Beside the four state properties it says
what they need of each other: that a session without a handle has no options
(`Rested`), that whatever the handle points to is lent and unchanged (`Borrowed`), and
that a request just made is the one that would be made again, but for its cookies
(`Fresh`). `TimeoutKept` follows because a timeout that fits the long is cast to itself
(`CastFits`).
`SetHeaders` is the step with work to do: the list freed is not the one installed
(`ReplaceOwns`), and the lines built are sent as the headers they were built from
(`LinesAreSent`), for which an empty value must not become `Name:`. `SessionRefinement` has
one case per action; `Assign` maps to a stutter because of `NoDanglingUse`.

*Headers.* `LastValues` is the loop invariant, relative to `Covered`: a name seen since the
last status line has a first and a last line. `OneResponse` then needs that the code
of libcurl is that of the last status line (`Coded`), and `ValuesTrimmed` that `Trim` leaves
nothing to trim, by least and greatest positions (`Least`, from the well-foundedness
of the naturals).

*Parameters.* `urlEncode` and the decoder are recursive functions. That they have the
values their definitions say is itself proved (`EscapedExists`, `FromExists`): for the
least bound without such a function, one is made from the function for the bound
before. `TypeOK` follows byte by byte. `EncodingLossless` is by descent from the end: at
the place where the bytes for a byte of the text begin (`EncodedPlace`), the decoder
reads that byte (`ReadsBack`) and then the rest.

`Understood`, a recursive function from each position of a query to its end, is shown
to exist in the same way (`ParsesExists`). `Joining` is the theorem about it that
everything else uses: the parameters read out of two texts with an ampersand between
them are those of the one followed by those of the other. Behind the ampersand the
reader does what it does on the second text alone (`PairsAfter`); before it, descending
from the ampersand, what it does on the first (`PairsBefore`). With that, `ContentMeans`,
that `content` is read as what was meant, is inductive: `AddParameter` either joins, or
starts, or adds an empty parameter, and an encoded text has no separator in it
(`TextHasNoSeparator`, from the bytes that `ParametersSafe` knows), so that one pair is
read as one entry (`PairIs`, by `EncodingLossless`). `ServerUnderstandsHolds` adds that the
question mark of a plain url is the first one. For `MergesOneAtMostHolds` the url's own
query is cut at its last ampersand and `content` at its first (`CutAt`), so that by `Joining`
only the segment with the second question mark in it is read as something else
(`Merged`); that this segment is not empty needs that `content` does not begin with an
ampersand (`NoLeadingSeparator`).

*SslContext.* `Owned` is the inductive invariant: where each local variable leads in
each step (`Running`, `Locals`), that no two stores share a certificate and none has
one that was left behind (`Apart`), and the counts as a sum of the three ways to be
referred to (`Counted`).

Only model-checked: the two liveness properties (fairness and `ENABLED` are outside
the prover's reach; `StepsRunOutHolds` and `StepsCanBeTaken` are what can be proved of
them) and, of course, the two violations. Every other property of every run is a
theorem.

## Not modelled

- The vendored libraries, 80 of the 81.7 thousand lines of the repository. They are
  headers of other projects without their sources; what the program uses of them
  is modelled as external definitions. Of the project's own thousand lines nearly
  all that change state or compute something are modelled.
- `util::split` and `Session::cloneHolder`, which nothing calls.
- Texts of requests, responses and logs; elapsed times; the raw url of a response;
  the joining of user and password in `Authentication`.
- Negative numbers in a policy. A negative `numRetries` behaves like 0.
- An application that keeps a `std::future` alive past `main`, and the destruction of
  static objects while detached threads run.
- Concurrent use of one session, which libcurl forbids, and the initialisation of
  libcurl by the first session, which may race with that of another thread.
- The accuracy of `double`: products above 2^53 are far above any int.
- Memory exhaustion, but for the appends of `SetHeaders` and the calls of
  `ctxFunction`. Other failed allocations throw where threads do.
- The Windows branch of `SetSslCert`, which adds the system's certificates. That of
  `CRL_SLEEP` is `MillisecondsSlept`. Above 2147483 seconds, where `x * 1000`
  overflows, `WaitBounded` says only that it does not sleep longer than the cap.
- What a `Timeout` that does not fit a long becomes, beyond a value that libcurl accepts.
- libcurl's own counting of redirects and resends, of which `MaxSends` is all that is
  assumed; a redirected request to another host is not told from one to the same.
- The other certificates of a store, and stores shared between connections, which
  came with later versions of libcurl than the one vendored (7.85).
- Build files.

## Plan

Done: all modules above, their runs and proofs.

Left:
1. Composition: `Forwarding` with `SessionContract` in place of its field map. The field
   map says the same of one call (`RetryDiffersOnlyWhere` is an equivalence); the
   composition would add sessions that are configured more than once, which the
   calls of `curlinho.h` never do.
2. Three hazards have no property. What the first `curl_easy_init` of two threads does,
   and whether timeouts use signals, are decided by how libcurl was built, which the
   repository does not say; that only the first certificate of a text is read would
   need a statement somewhere that there may be several.
