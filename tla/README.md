# TLA+ models of opennap

opennap is a server for the Napster protocol.  Clients log in, chat on channels,
share files and search; servers link up into one network in which every server
knows every user.  Each server is a single process around `select()` (`main.c`):
no threads, but many connections, and a network of such processes that exchange
messages over TCP.  What is hard in this code is therefore the distributed state
(the same tables at every server, changed by floods of messages that cross), and
the state inside one server that several handlers reach through pointers between
the moment a connection is marked for removal and the moment it is removed.

## Inventory

| Component | State | Operations | Talks to | Hard part | What makes it correct |
|---|---|---|---|---|---|
| User table (`login.c`, `kill_user.c`, `client_quit.c`, `free_user.c`, `remove_connection.c`) | `Users`: nick → USER (connection or link, time-stamp, home server, address); `Clients[]` | login, ghost login, nick collision, kill, quit, split | floods LOGIN, QUIT, KILL to all links | crossing logins and kills; connections that are marked but not removed; links that fail and sync | entries and connections point at each other; when nothing is in flight linked servers agree; one session per nick |
| Channels (`channel.c`, `join.c`, `part.c`, `part_channel.c`, `kick.c`, `public.c`) | `Channels`: members and their flags, operators, invitations, bans, modes, limit, level | join, part, kick, clear, op, mode, invite, voice, muzzle, ban, limit, level, drop | every command is passed to the peers and checked again there | pairs of lists that mirror each other; peers that judge with other tables | the lists mirror each other; status follows the operator list; user channels end with their last member; peers come to the same tables |
| Searches (`search.c`) | `Remote_Search`: pending requests with the connection to answer and a count of ENDs | search, remote search, result, end, expiry, cancel | requests spread over the links, results and ENDs return | counting answers while links fail; time-outs; askers that vanish | one end for each search, after its hits; no entry points at a removed connection; nobody waits for ever |
| Server links (`server_login.c`, `server_connect.c`, `server_links.c`, `synch.c`) | `Servers`, `Server_Links`, challenge per connection | connect, login, ack, link info, server quit, sync | user table, channels, bans | two handshakes at once; a sync that overlaps with changes | no cycles of links; both sides hold the union after a sync |
| Main loop and dispatch (`main.c`, `handler.c`, `buffer.c`, `timer.c`) | `Clients[]`, buffers, flood counters, timers | accept, read, dispatch, write, reap, time out | everything | order of phases, limits, commands behind a fatal one | what is marked is removed once, nothing is read from it afterwards |
| Registered users (`userdb.c`, `level.c`, `change.c`, `muzzle.c`) | `User_Db` and its file | register, change, set level, exchange, dump | REGINFO, SETUSERLEVEL floods | time-stamps that must order changes; file replaced in two steps | servers converge on one record; a crash loses no database |
| Bans (`ban.c`) | `Bans` and its file | ban, unban, expire, exchange | floods | expiry and exchange at once | a ban holds until its time and no longer |
| Shared files (`add_file.c`, `remove_file.c`, `search.c`, `browse.c`) | `File_Table`, `MD5`, per-user counts, totals | share, unshare, garbage collection | sharing notices to peers | reference counts in five bits; counts that reach peers late; limits | counts match the tables; nothing freed is found |
| Transfers (`download.c`, `upload_complete.c`, `encapsulated()`, `send_user()`) | upload counters; the rest is in flight | request, push request, accept, refuse, report a closed port | requests and notices from server to server | each server judges and routes with its own tables; files unshared meanwhile | a request gets an answer or reaches its user; nothing circles |
| Hotlists (`hotlist.c`) | hotlists per client and per name | add, remove, sign-on notices | login, quit | limit, both ends of a list | the lists mirror each other |
| Listings, notices, configuration, tools | none that matters here | | | | |

`PROJECT.json` lists the components again with their sources, and the hazards of
the code with the line where each one bites.

## Modules

### UserNet: the distributed user table

One server is a table `users[s]`, the slots `conn[s]` of `Clients[]`, its ends of
the links `end[s]` and the phase of its main loop; `chan[s][t]` is what `s` has
sent to `t` and `t` has not read.  Links are FIFO, and lossless until one end
closes.  One action per handler: `Login` and `RecvLogin` are the two halves of
`login()` (a client's connection, a server's message), `Kill` and `RecvKill` those
of `kill_user()`, `RecvQuit` is `client_quit()`, `Link` and `RecvAck` are
`server_login_ack()` with the user part of `synch_server()` at the side that gets
there first and at the other, `LinkFails`, `RecvEof` and `Disconnect` set
`destroy`, and `ReapUser` and `ReapLink` are `remove_connection()` with
`free_user()` and `server_split()`.  `EndRead` ends the read phase; the reap
actions run until nothing is marked.  `hash_foreach()` visits a table in the order
of a hash function, which `Orders` leaves open.  Nothing is abstracted from the
control of these handlers but refused logins, which change nothing.  The links form no cycle
(`NoCycles`); what cycles do is ServerLink's business.  Levels and
addresses are constants; passwords and accounts are Registry's business, bans at login and a
full server are left out.  With `CalmLinks` a link is set up only while nothing is in
flight and nothing is marked; the run with kills needs this, as UserNetKill below
shows.

### Channels: chat channels

`srv[s]` holds the tables of a server: who is online, the channels, and for each
user the channels joined and the invitations received.  Members and invitations
are kept twice, as in the code (`chan->users` and `user->channels`,
`chan->invited` and `user->invited`).  Each command is a handler that runs for a
client of the server or for a message of a peer: `Handle` drops the message when
the checks fail and otherwise changes the tables and passes it on, as
`pass_message_args()` does.  `join()` is split into what bars a user (`Barred`),
the limit (`Full`), the search for a channel with room (`Landing`, the `do` loop
with its rollover names) and `Enter`.  Links hold and carry at most `MaxQueue`
messages of clients at a time.  A user has one home and one session at a time; the
collisions are UserNet's business.

`LinkUp` queues at both ends what `synch_server()` tells a new peer of users and
channels (`Sync`, with `SyncUser` and `SyncChan`); the peer's ordinary handlers then
carry it out, with the sender `None` for a server, whose rights no handler checks.
`LinkDown` is the removal of the link at both ends: the users behind it leave all
channels and their QUITs go to the other peers.  Whether the time-stamp of a limit or
level is newer than the channel's is left open (`Newer`).  Left out: topics, the
modes PRIVATE and TOPIC (which guard listings and topics only), cloaking, and
notices.  Multi-name commands (`OP` with several nicks, `MODE` with several flags)
are taken one name at a time.

### Search and SearchService: searches

`pend[s]` is the list `Remote_Search` of server `s`, in order, because
`find_search()` expires entries on its way to the one it looks for.
`SearchInternal` is the common part of `search()` and `remote_search()`:
local hits, an entry and requests for the links, or the END at once.  `RecvResult`
and `RecvEnd` are the handlers of the answers, `ReapClient` and `ReapLink` the
calls of `cancel_search()`.  `server_disconnect()` takes a link out of `Servers` at once
(`ServerDisconnect`), a failed link stays there until it is removed; `Servers` are what
new searches count and `Links` all that has not been removed, which `cancel_search()`
goes by.  A disconnected link is read no more, unless the command came over it with more
behind it in the buffer (`reading`).  A file is a hit or not (`Hits`), so the tokens and
qualifiers of a request are left out; whether a server knows a user named in a
message is a choice (`Views`), because it depends on the user table.  Ids are
random strings of eight letters in the code and never repeat in the model.  The
asking client sees only numbers of hits and ENDs (`heard`).  Handlers and
removals interleave without the two phases of UserNet, which allows all that the
phases allow.  UserNet, Sessions, Channels and Transfers have no `server_disconnect()`:
there a marked link is in `Servers` until it is removed.

`SearchService` is what a client may expect: hits, then one end, then silence,
and the end comes unless the connection is dropped.  `Search` implements it
(`Serves`), with the state of a search computed from `asker`, `heard` and the
client's connection.

### Sessions: what hangs on a session

`Sessions` extends UserNet, so that its sessions end in all the ways UserNet ends
them.  `ext[s][n]` are the counters of a USER entry, `opt[s][c]` the USEROPT of a
connection (files and hotlist), `hot[s]` the global table `Hotlist`, `num` and
`loc` are `Num_Files` and `Local_Files`.  `Release` is the part of `free_user()`,
`remove_user()` and `login()` that concerns them; it goes with every step of UserNet
and reads off the step which entries were freed, which connections closed and who
signed on.  `AddFile`, `RemoveFile`, `Upload`, `AddHotlist` and `RemoveHotlist` are
commands of clients; before each of them `handle_connection()` may report the end
of a series of shares to the peers (`Reports`, `Report`).  `RecvSharing` and
`RecvUpload` are the peers' side, and `SyncUser` is `sync_user()` with the count of
files.  `told` is not in the code: it records which notice a client got last.  Left
out: sizes in kB, which change where the counts do; the counter of downloads, whose
code is that of uploads; the kill command, whose effect on a session is that of a
quit here.

### FileIndex: the files of one server

`files[c]` is the file table of a connection, `bins` are the lists of `File_Table`,
`md5` those of `MD5`, and `datum` is the memory of the DATUMs with their counts.
`Share` is `insert_datum()`, `Unshare` and `Leave` free a user's references, and
`CollectWords` and `CollectMD5` are the two timers that run
`fdb_garbage_collect()`.  `FreeDatum(x, k)` is `free_datum()` called `k` times, with
the arithmetic of a field of five bits.  A file is a sequence of tokens, as
`tokenize()` returns it, and the set of words that occur in its name, as `match()`
sees it.  Separators at the end make `tokenize()` return an empty token (`Empty`), which
is indexed, and which `match()` finds in no name.  Sizes are the client's: `Accepted` is
what `add_file()`, `share_file()` and `add_directory()` let through for the `libsize` of
the user, and `Invalid`, (unsigned) -1, is a size as well as the mark of garbage.
`given` is not in the code: it records which size a client gave.  `Found` is
`fdb_search()` without a limit.

### Transfers: arranging a transfer

`Process` is `download()` for the requests 203 and 500, `RecvUploadRequest`,
`RecvEncapsulated` and `RecvDataPortError` are the handlers for messages of servers,
`Accept`, `QueueLimit` and `DataPortError` commands of clients.  `heard[n]` collects
what the client of `n` was told.  Links hold and users stay; the ways a user can be
unknown are UserNet's.

### ServerLink: how servers link

`con[s][l]` is the CONNECTION of server `s` on the link `l`, named by the server that
opens it and the one that accepts; `net[s][l]` is the stream towards the peer, with an
EOF when `s` has closed its end; `links[s]` is `Server_Links`, in order, because
`server_quit()` looks for the first record that fits.  `Connect` and `Disconnect` are
the administrators' halves of `server_connect()` and `server_disconnect()`,
`RecvConnect` and `RecvDisconnect` those for a server; `Connected` is
`complete_connect()` with the peer's `accept()`; `RecvLogin`, `RecvAck`,
`RecvLinkInfo` and `RecvServerQuit` are the handlers of their messages, and
`RemoveConnection` is `remove_connection()` with `remove_links()`.  A connection that
was marked by a command it sent still has the rest of its buffer carried out
(`Buffered`: any number of the commands behind).  `served` remembers that
`handle_connection()` reads each connection that is logging in once before the
removal.  `Beyond` is `mark_links()`, the least set closed under the records.  Names
stand for addresses: a server is always where its name says, and has one port.  With
`Careful` an administrator asks for a link when the news of the one before is out.

### Registry: one account

`db[s]` is the entry of the account in `User_Db` of `s`, `user[s]` that of its user in
`Users`; accounts do not touch each other, so one is enough.  `Handle` runs the same
handler for a client's command and for a server's message: `LevelCmd`, `Muzzle`,
`Unmuzzle`, `Cloak`, `SetPass` (`change_pass()` and `alter_pass()`), `Nuke` and
`Register`; `RecvLogin` and `Login` are the two halves of `login()` as far as it looks
at the account (`Admit` with what it tells the other servers, `Told`), `RecvRegInfo` is
`reginfo()`, `SyncUser` is `sync_user()`.  Read and write phase are one step here, and
links come up and go down at both ends at once.  `Dump`, `WriteTmp`, `UnlinkUsers` and
`RenameTmp` are the steps of `userdb_dump()` on the files `users` and `users.tmp`, with
the expiry of accounts in `dump_userdb()`.  `fopen()` leaves `users.tmp` short.  A write
may fail and be noticed by `fflush()` or `fclose()`; at the servers of `Faulty` it may
also fail unnoticed, since `fputs()` and `fprintf()` are not checked, and `unlink()` and
`rename()` may fail, after which the server goes on.  `slip` is not in the code: it
records which of these failures has happened since `users` was last replaced.
`Crash` may come between any two steps, `Start` is `userdb_init()`, which needs a file
`users` and takes a short one for what it has.  With `Careful`
the commands, logins and link-ups wait for the effects of what was before, and
commands on the account come in different seconds: the time-stamps count seconds.
Administrators are elite, and the server options are those of the sample
configuration (neither `registered_only` nor `auto_register`).

## Runs

| Run | Config | Shows |
|---|---|---|
| roam | UserNetRoam | Two linked servers, one nick used at both, two addresses, six logins: one session is left, no session gives way to a newer one, connections own their entries, floods die out |
| resident | UserNetResident | A line of three servers, three link-ups with failures in between, a moderator and a user at one end, ghost logins, a quit and a kill: each entry stays backed by the server it came from, the KILL replaces the QUIT, and after the dust settles linked servers agree |
| channel | Channels | Two linked servers, a user and a moderator at one of them, a channel of the channels file that rolls over to a second one, all commands but those on voices and muzzles: lists, status and lifetime, and the peer comes to the same tables |
| channel_sync | ChannelsSync | Two servers, three users apart, one channel; commands before, between and after two link-ups: same members and flags in the end, muzzled users stay silent |
| search_whole | SearchWhole | Three servers, two clients, three searches: END after all answers, enough hits |
| search_served | SearchServed | Three servers, two searches, a failed or disconnected link and its return, a leaving client, time-outs: live connections, sane counts, SearchService |
| session_files | SessionsFiles | Two servers, two sessions of a user, three files and a limit of one (which lets two in), an upload, two link-ups: totals, counts and the peers' copies of them |
| session_hotlists | SessionsHotlist | Two servers, a nick that is used at both with ghosts and collisions, a moderator who watches it and leaves, a failing link: both ends of the hotlists, true notices |
| file_index | FileIndex | Two users, three files (one of 31 words), memory for three DATUMs, the real widths 30 and 32: sizes with the mark among them, names with an empty token: no dangling and no lost memory, sound searches |
| transfers | Transfers | Three servers in a line, four users, two of them behind firewalls, three of nine requests, a file unshared meanwhile: who is asked can be reached, near requests are answered |
| server_links | ServerLinks | Three servers that may all link with each other, three requests, one cut, one failure or crash: no cycle, no half link, true tables, an end |
| registry | Registry | Two servers, one of which saves its file on a disk that may fail, and crashes, three levels, two passwords, two commands of each kind, a login, two link-ups: levels, muzzles, the file, an end |

Bounds.  Two servers are enough for two messages to cross; a line of three adds
the server that relays and that keeps two links while one of them fails, and three
are the least that can form a cycle.  One or
two nicks: handlers treat nicks apart, except for a killer and a victim.  Two
slots per server hold an old and a new connection of a nick.  Clocks, logins,
kills, link-ups, splits and queues are bounded by the constants `Max...`; each is
large enough for an event, its opposite and a third one to overlap.  In Sessions a
client acts only while fewer than `MaxQueue` messages wait on each link, and one
upload at a time (`MaxUploads`) is enough for its end to meet another's absence.  In
FileIndex three cells let two files be shared while a third one waits for its
collection, and cells are used again afterwards; the widths of the count are those of the source, an
unsigned int has 16 values (`SizeRange`) and a kB two bytes (`Kilo`), so that the mark 15
and another size are accepted at first and refused when they would overflow `libsize`.
In Transfers `MaxRequests` lets three requests
overlap and `MaxChanges` unshares one file at any point.  In ServerLink `MaxConnects`
requests are one more than a line of three needs, so that one is made that would close
the cycle.  In Registry a command before and one after a split
(`MaxCommands` 2) and two link-ups (`MaxLinks` 2) let entries differ and meet again;
`MaxTime` 2 tells an older entry from a newer one and reaches `NickExpire`; one dump
(`MaxDumps` 1) meets every failure and a crash after any step, and two in a row are in
RegistryExpired, where `Recoverable` holds too.  A system
in which all bounds are used up stops, hence `CHECK_DEADLOCK FALSE`.

Restrictions.  Some runs keep to a part of what can happen, because outside of it the
code does not do what the properties say; each has a configuration under
Disagreements, or a sentence here, that shows what lies outside.  `UniqueTime` in
roam: no two logins in one second (UserNetTie).  `CalmLinks` in resident: no link-up
during a kill (UserNetKill).  `Ghosts` FALSE in roam: `OldestWins` compares the
sessions of different addresses.  `Careful` in server_links (ServerLinksLoop,
ServerLinksRelay) and in registry (RegistryNuke); users of channel_sync are voiced and muzzled by
moderators of their own server where flags are compared (`RuledAtHome`), since a VOICE
that crosses a JOIN is lost at one server only; kicks are left to channel, where they
cannot cross a JOIN.  registry has two servers (RegistryLevels) and says nothing of
cloaks (RegistryCloak).  ServerLinksRefused is server_links with wrong passwords and
missing entries; it passes too, and is run by hand.

Fairness.  `FairSpec` in UserNet, Search and ServerLink asks that the main loop of a server
goes on: it reads what has arrived on a link, and removes what is marked.  Search asks less: as long as something has arrived or is marked
at any server, some of it is dealt with (`Work`).  That is enough because searches give
rise to finitely many messages, so that none can be put off for ever, and it follows from
what the others ask.  The
loop in `main.c` has no other exit than a signal, and `select()` reports a
readable socket again until it is read.  In FileIndex the two collection timers go
off again and again (`add_timer (Collect_Interval, -1, ...)` in `main.c`); in
Transfers servers read what arrives; in Registry they do, and a dump that has begun
comes to its end.  Clients, clocks and links owe nothing.

## Disagreements

These configurations state what a comment, an assertion or a document says, and TLC
finds each violated by what the code does.  They are run by hand
(`tlc -config UserNetOldest.cfg MCUserNet`, and so on); `PROJECT.json` quotes the
lines.

- UserNetOldest (`OldestWins`): three logins as one nick cross, and a KILL meant for
  the newest session, which names only the nick, ends the oldest (`login.c` 434).
- ChannelsModes (`ListsNotEmpty`, with `-continue`): moderators and operators enter an invite-only
  channel without an invitation, and `join()` hands empty lists to `list_delete()`,
  which asserts the opposite (`list.c` 27).
- SearchPeers (`AssertedServers`, with `-continue`): `server_disconnect()` takes a link
  out of `Servers` (`server_connect.c` 204), `cancel_search()` lowers `numServers` when the
  connection is removed, and an END that is read in between finds an entry that waits for
  more of them than there are servers, which `remote_search_end()` asserts it does not
  (`search.c` 836).
- SearchPeers (`AllAnswered`): `cancel_search()` lowers the number of expected ENDs
  also for a link that has already answered, so an end can come early (`search.c` 840).
- SearchZap (`EndsReachSomebody`): a search outlives the class of its connection, and
  `remote_search_end()` asserts a server where there is none (`search.c` 848).
- SessionsStale (`RemovalCounted`): a sharing notice of an older session is applied to
  a local user of the same nick, whose count then no longer matches `Local_Files`
  (`remove_file.c` 43 asserts that it is positive).
- FileIndexAssert (`CountPositive`): 30 words, the user and MD5 make 32 references,
  stored as 0, where `free_datum()` asserts a positive count (`search.c` 195).  The
  count wraps, so nothing is freed early: `NoDanglingDatum` holds.
- FileIndexAssert (`IndexedIsFound`, with `-continue`): a file whose client gives the size
  4294967295 passes the check for overflow while `libsize` is 0 (`add_file.c` 232) and is
  garbage from the start; and a token that ends a name in separators is indexed but found
  in no name (`search.c` 150, 286), where `fdb_search()` is to find all files "which
  contain all search tokens" (`search.c` 334).
- TransfersFar (`EveryRequestAnswered`): `upload_request()` passes a request on to all
  links except the one the user is behind, so beyond one link it is lost
  (`napster.txt` 834).
- UserNetTie (`OneWinner`): equal time-stamps leave two sessions of a nick.
- UserNetQuit (`QuitMeansClosed`): the QUIT of a collision's loser removes the winner
  from the peers' tables (`README` 215).
- UserNetKill (`NoGhost`): a link that comes up between a kill and the removal of the
  connection carries a LOGIN that no QUIT follows (`ChangeLog` 507).
- ChannelsLimit (`LimitHeld`): crossing joins pass a channel's limit (`NEWS` 253).
- ServerLinksLoop (`NoLoop`): two overlapping requests pass `is_linked()` and close a
  cycle of links (`ChangeLog` 1817).
- ServerLinksRelay (`RequestsHarmless`): a relayed request for a link that exists cuts
  the link it came by (`server_connect.c` 338).
- ServerLinksAssert (`ServersNotEmpty`): a disconnected server is taken out of `Servers`
  twice, the second time perhaps out of an empty list (`list.c` 27).
- RegistryLevels (`LevelsAgree`): `level()` passes a level on without its time-stamp, so
  that three servers in a line end with different ones (`login.c` 608).
- RegistryCloak (`CloaksAgree`): a cloak is passed on as a toggle (`login.c` 645).
- RegistryCloak (`CloakedAreModerators`, with `-continue`): an older entry lowers the level of a cloaked
  account, and its next login fails an assertion (`login.c` 640).
- RegistryPass (`NobodyKilled`): a user who has changed the password is killed when a
  link comes up, which still sends the old one (`login.c` 387).
- RegistryNuke (`SynchsAll`): the account of a moderator who is online is nuked, and
  `sync_user()` asserts that it is there (`synch.c` 49).
- RegistryExpired (`MuzzlesAgree`): the account of a user who stays online expires, and
  the muzzle with it (`muzzle.c` 95).
- RegistryExpired (`CopyOnDisk`, with `-continue`): no whole copy of the users file is left
  after a write that failed unnoticed (`userdb.c` 162-180), or when `users.tmp`, the only
  copy after a failed `rename()`, is opened again by the next dump (`userdb.c` 217-221, 191).
- ChannelsModes (`ModesArrive`): a new peer does not hear of INVITE and TOPIC
  (`synch.c` 109, `README` 433).
- SearchPeers (`MaxResultsHeld`, with `-continue`): two peers together return more than
  `max_results` (`sample.conf` 37).
- SearchAny (`FoundEnough`): with `max_results` 0 no search leaves its server
  (`ChangeLog` 2780).

The limits on a user's channels, shared files and hotlist entries are off by one: each
check lets one more in (`join.c` 78 against `sample.conf` 22, `add_file.c` 212,
`hotlist.c` 26).  `upload_request()` does not look at the
ignore list of the user it asks, so users are asked for files by remote users they
ignore (`IgnoredNeverAsk` of Transfers); no document promises otherwise.

## Proofs

`UserNetProofs` proves of UserNet, for all servers, slots, nicks, links and bounds:

- TypeCorrect: `TypeOK`;
- OwnedEntries: `ConnectionsOwnEntries`;
- NoDanglingEntries: `EntriesHaveConnections`.

The last two are what keeps `user->con` and `con->user` from dangling, and neither
is inductive alone.  A kill marks a connection through the entry, so it needs
entries to point at live connections; a removal deletes the entry of the
connection's nick, so it needs connections to own their entries; and both need
that an entry with a local connection is known to be local.  The inductive
invariant `IInv` is their conjunction with `TypeOK` and `EntriesHaveHomes` (a
known entry carries the home server and the address that a LOGIN sends, so the
state sent over a new link is made of well-formed messages).  The proof has one
lemma per action.  It assumes the named assumptions of UserNet:
server names, slots and nicks are disjoint, nicks are finite, the constants have
their types.

Of the agreement between servers it proves, on the hypothesis `Settled`:

- EntriesBacked: `Backed`;
- ServersAgree: `Agreement`;
- NoGhosts: `NoGhost`.

`Settled` says that each nick has one home server (`OneHome`), and that there are no kills, or
only kills of users at the killer's own server on a network with `CalmLinks`; the run
`resident` satisfies it.  Without it the statements are false: under
UserNetQuit.cfg, where everybody may log in anywhere on a line of three servers, TLC
finds `Backed` and `Agreement` violated after a collision, and UserNetKill has the ghost
that a kill makes while a link comes up (both are under "Disagreements").  (`OneWinner`
and `OldestWins` are about collisions, and would say nothing under `Settled`.)
`NoCycles` is assumed in addition to the assumptions above.

What a server knows and what a peer has told it differ by the messages that are
still under way, so the invariant has to say what those messages are.  On a network
without cycles the news of a nick with one home crosses each link one way
(`Carried`).  `FlowInv` says that the messages from `t` to `s` are a `History` of these
nicks: there is a sequence of views, one before and one after each message, that
begins with what `s` knows, ends with what `t` shows to its peers, and of which each step
is what the handler of that message does (`TakesTo`).  It holds while both ends are
there (`Live`); where one is gone, the end of the stream is what is on its way
(`LinkEnds`).  A LOGIN thus arrives where nobody is known by that nick, a KILL where its
sender is still known, and a session that was known once stays so until a QUIT or a
KILL (`Lasts`).  A server that changes what it knows adds a step at the end of the
histories it writes, one that reads takes the first step off the one it reads, and
passing a message on does both; `HistoryJoin` and its neighbours are the lemmas about
that.  Agreement is then the case of a history without messages.

`FileIndexProofs` proves of FileIndex, for all connections, files, words, tokens,
queries, memory and widths:

- TypeCorrect: `TypeOK`;
- SharedIsValid: `ValidWhileShared`;
- SearchIsSound: `SearchSound`;
- FreedWithLast: `NoDanglingDatum`.

Here the inductive invariant adds to the types that a DATUM that no table holds is
invalid, and that one is held under its own name, by one connection only and with the
size that was given (`Holding`); and that what is shared and not of the size `Invalid` is
in the bins of all its indexed words (`InItsBins`; a collection takes the others out),
which is what makes the choice of the smallest bin harmless.  A search finds such a file
unless the empty token is among its words, which is why `SearchSound` leaves that out.
Unsharing, leaving and the two collections are one kind of step (`LetsGo`): some cells
become invalid, and the tables lose exactly those.  That a new DATUM meets no old
reference, and that a shared one is not freed when the bins let go of it, as they do of
one of size `Invalid`, takes the count of the references, so this invariant is proved
together with `Counted`, which is `FreedWithLast` as well: it says that a cell is used iff something refers to it, that the field is the number of
references modulo its range, and that this number is never beyond the range.  The last
part is what makes "the field is 0" mean "no reference is left" after a decrement,
where a DATUM of 30 words has 32 references and a field that says 0; the proof follows
the set of bins that hold a cell and its cardinality through each operation.  The
proofs assume `Setting` (tokens of a file but the empty one occur in its name, queries
are not empty, words are finite) and `CountFits`: the loop of `insert_datum()` lets through as many
words as leave room for the user's table and, with RESUME, for MD5.  That is so with
the constants of the source, and with one word more the theorem would be false.

`RegistryProofs` proves of Registry, for all servers, entries and bounds:

- AlwaysRecoverable: `Recoverable`.

`Recoverable` alone is not inductive: that `users` may be unlinked needs `users.tmp` to
be whole by then, and that `users.tmp` may be opened anew needs `users` to be whole.
`DumpInOrder` says which of the two is whole at each step of `userdb_dump()`, as long as
`slip` has nothing worse than a failed `rename()`; after that one `users.tmp` is the copy,
until the next dump opens it.  A crash
leaves the files and forgets the step, after which `DumpInOrder` says nothing but
`Recoverable` still does; a server starts only where there is a file `users`.

`ChannelsProofs` proves of Channels, for all servers, users, channels, levels, limits
and links:

- AlwaysMirrored: `ListsMirror`;
- AlwaysPopulated: `UserChannelsPopulated`;
- AlwaysOpsMatch: `OpsMatch`;
- AlwaysSilent: `MuzzledAreSilent`.

All four speak of the tables of one server at a time, and the proof shows that a server
keeps them in order by itself: nothing is assumed of what a peer sends, so the messages
on the links need no type and a peer that is out of step does no harm to them.  The
inductive invariant `AllInOrder` says of each server that both lists of every pair
mirror each other (`Mirrors`) and of each channel that it is populated, that status
follows the operator list and that nobody is voiced and muzzled (`Sound`).  They need
each other: `part_channel()` empties a channel for good only because nobody's list names
it any more, a channel that `join()` makes has nobody invited because one that does not
exist is on no list, and a user that is freed is on no list because the channels were
those of `user->channels`.  `Formed` and `ChanFormed` say that the tables are records
and functions of the right shape, whatever values they hold.  One lemma per operator
(`PartKeepsOrder`, `FreeKeepsOrder`, `EnterKeepsOrder`, ...) carries the argument, and
`HandlerKeepsOrder` applies them to the handlers.  No assumption on the constants is
used.

`SessionsProofs` proves of Sessions, for all servers, connections, nicks, files, links
and bounds:

- AlwaysMirrored: `HotlistsMirror`;
- AlwaysTold: `NoticesTrue`;

and, where every nick has one home (`OneHome`):

- AlwaysCounted: `FilesMatch`;
- SessionsTyped: `SessionsTypeOK`;
- RemovalsCounted: `RemovalCounted`;
- SharesKnown: `SharesReach`;
- UploadsReal: `NoPhantomUploads`.

A notice goes to the connections that `hotlist->users` names, and what a client was told
is judged by its own `user->hotlist`, so `NoticesTrue` needs the two ends to agree; that
is the whole inductive invariant of the hotlists (`HotlistInv`, with the shape of the
lists).  The weight is in `ReleaseKeeps`: whatever a step of UserNet does to the table and
the connections of a server, a collision, a kill or a split included, the lists of the
connections it closes are released and the nicks that come and go are told to those that
watch them.  Nothing is used of UserNet's own invariants; of the assumptions only `Limits`
is.

`FilesMatch` does need them, and more.  `free_user()` takes the count of an entry off two
totals, one of them only if the entry has a connection that is a user's, and
`remove_user()` drops the files of a connection; the three agree because the entries freed
locally and the connections closed are paired off, one with one.  So `Tables` carries the
invariants of `UserNetProofs` that relate the two tables along (they are proved again
here, because Sessions sends messages of its own), and `Orderly` says of each step of
UserNet that it keeps them, that a local entry changes only when its connection closes and
that a connection that stays logged in keeps its nick (`Held`).  `ReleaseTallies` then has
the rest.  The hypothesis is what `user_sharing()` needs: it takes a notice for a local
user as readily as for a remote one, and the count of a local user would no longer be the
files held.  Where each nick has one home, the news of a nick crosses each link away from
it (`Posts`, with `Carried` and `OneWay` of `UserNetProofs`), so that no server hears of
its own users.  The run session_files satisfies `OneHome`; SessionsStale, under
"Disagreements", is `RemovalCounted` where it does not hold.  `Tallied` is the inductive
part, with an entry that is not known counting nothing and a connection that is not a
user's holding nothing.

Totals are folds (`SumFunctionOnSet`), and the table sent over a new link is a
`FlattenSeq`, both defined by recursion.  What is needed of them (`SumChange`,
`SumCleared`, `SumPaired`, `Flattening`, ...) is proved by least counterexample, from the
well-foundedness of `<` on Nat, which takes a set where induction would take a predicate:
`Counting` and `Building` are that argument, once for numbers and once for the subsets of a
finite set.

`SharesReach` and `NoPhantomUploads` relate two servers, and say something of a quiet
network only, so the inductive invariant `MirrorInv` speaks of what is under way.  `Takes`
says what reading a queue makes of what a server counts of a nick: a LOGIN makes it known
with nothing counted, a QUIT or a KILL unknown, and the reports on files and uploads
change one number each.  Of two servers with a link between them, one tells the other of
the nick (`Carried`), and then what the reader counts and what it has yet to read take it
to what the teller counts (`Tells`), but for two things (`Matches`): a report that the
teller owes until the next command of its own client, and uploads that it knew of before
the link came up, of which the reader may have fewer.  START and END both keep that
order, because an END takes an upload off a count only where there is one.  A server that
changes its count adds the same change to the queues it writes (`CommandKeeps`,
`CountKeeps`), one that reads takes it off (`ReadNews`), and `synch_server()` writes LOGIN and count for each nick on a link
that has seen neither (`TakesSync`).  `OwnEntries` is for both ends of the way: an unknown
nick counts nothing, a report is owed by the nick's own server only.

The two theorems then follow the way home of a nick, link by link (`NextOnTheWay`).  That
it ends at the nick's own server is where the network being finite and without cycles is
used: servers that passed one another the news round and round would each have another
behind it on the way to one of them, one too many (`NoEndlessWay`).

These theorems assume `NoCycles`, `FiniteNicks`, `FiniteSlots` and `FiniteNet` (a server
has finitely many connections, a network finitely many servers), `DisjointNames` and
`Limits`.

`SearchProofs` proves of Search, for all networks, clients, searches and bounds:

- TypeCorrect: `TypeOK`;
- NeverDangling: `NoDanglingSearch`;
- AlwaysWaits: `WaitsForLinks`;
- NeverEchoes: `NoEcho`;
- SearchServesSafely: each step of Search is a step of SearchService or a stutter
  (`ServesSafely`, the safety part of what the run search_served checks);
- EndsWhenAnswered: `AllAnswered`, where nothing fails or times out (`Undisturbed`).

Each entry of `Remote_Search` is judged by the clients and links of its own server alone
(`InOrder`), so the invariant `SearchInv` is about one server at a time, and an END that
nobody asked for does no harm.  A new entry waits for all links of `Servers` but the one it came by,
and these have not been removed (`PeersAreLinks`); an END that does not close it leaves
one to wait for; a disconnected link is still one of `Links`; a link that is removed takes
one END and one link away (`ReapLinkOrdered`), and what waits for none is closed with it.  That no
entry waits for nothing is also why `cancel_search()` for a client closes only the entries
of that client (`CancelClient`), though its test would close others.  What a look-up or a
removal leaves of a list is defined by the ranks of the places that stay (`Sift`); `Ranks`
proves that each rank is taken once, by comparing cardinalities.  The first three assume
`Setting` and `FiniteNet`: the numbers of servers are finite, clients are not servers.

The other three are about the whole network and assume `NoCycles` as well: from every
server there is a way to every other, and each link is passed in one direction on it.
(The documentation asks the administrators for such a network, and `is_linked()` is meant
to keep them to it; ServerLinksLoop, under "Disagreements", is how it can fail.)
`RoutedInv` says which way each message goes: a SEARCH and the entries it leaves lead
away from the server of its asker, hits and ends towards it.  `ServiceInv` adds that a
server has at most one entry for each search and that a client that was told the end
has none left, from which `SearchServesSafely` maps each step to one of the service.

`EndsWhenAnswered` has hypotheses of its own: no link fails (`MaxSplits = 0`) and the
clock does not pass the time-out (`MaxTime <= Search_Timeout`).  Neither can be left out:
SearchPeers, under "Disagreements", is what becomes of `AllAnswered` where a link fails,
and an entry that times out sends its END at once.  `Undisturbed` is what the run
search_whole has, on a network of three; the theorem has it on all of them, with clients
that leave or are cut off, files whose owners are unknown and limits on the hits.  An END
that is counted twice, or for another search, would let a search end early, so
`AnsweredInv` says for each pair of servers and each search where the request is: on its
way, in an entry, or as an END on the way back, and never at two of these (`Exclusive`) or
twice at one (`Singles`, `Sole`).  An entry then waits for as many ENDs as there are links
with an open request (`Counts`), an open request has an entry behind it or was sent for
the asker himself (`Rooted`), and who was told the end has no open request (`Over`).
`WaitsForLess` is the step where an END is counted.  That no open request leads back to
where the entry's answer goes is the absence of cycles once more (`OpenAway`).

`TransfersProofs` proves of Transfers, for all servers, users, firewalls, ignore lists and
requests:

- TypeCorrect: `TypeOK`;
- AlwaysConnectable: `Connectable`.

What a client hears is decided at one server and said by another, after messages that
are overtaken by others.  The inductive invariant `TransfersInv` says that every notice is
justified (`Just`) by the requests made and replied to so far, wherever it is: in the
ears of a client, in a message between servers or inside an encapsulated one (`Honest`).
Requests and replies are never taken back, so what is justified stays so (`StaysTrue`),
however late it arrives.

`ServerLinkProofs` proves of ServerLink, for all servers, servers files, passwords,
administrators and bounds:

- TypeCorrect: `TypeOK`;
- NoHalfLinks: `NoHalfLink`.

`NoHalfLink` speaks of a quiet network; the inductive invariant `LinkInv` says what holds
of the two ends of a link and the two streams between them in every state (`LinkOK`).
`Handshake` is where two live ends stand: the LOGIN of the one that connects is on its
way; or the answer, a LOGIN and an ACK, is; or each end is a server or has the ACK that
will make it one at the head of its stream.  The last alternative is what allows one end
to send LINK_INFO, SERVER_QUIT and the rest before the other has read its ACK.  `Half` is
for the end whose peer has gone: it is still connecting or has the end of the stream
ahead of it, last.  `EndOK` relates the class of a connection, the list Servers and the
mark.  The protocol is symmetric (`SeenFrom`), so each handler is looked at from the
server it runs at, and is one of five changes of a link (`Growing`, `Reading`, `Marking`,
`LoggingIn` with `Acknowledging`, `Removing`); a crash is the last of them on every link.
It holds for any network, with or without cycles, and for administrators who are not
careful.  The proofs assume `Setting` and `FiniteNet`.

Only model-checked: what UserNet says of collisions (`OneWinner`, `OldestWins`), what Channels says of two servers
(`MembersAgree`, `Replicated`), `FoundEnough` of Search, `NoLoop` and
`TablesMatch` of ServerLink, the levels and muzzles of Registry, and the liveness
properties (`EventuallyQuiet`, `EventuallySettled`, `Serves`, `Reclaimed`, `Answered`,
`Drains`).  Liveness is beyond the prover.  `NoLoop` is not a theorem at all: it holds
while administrators are careful about everything in flight, and ServerLinksLoop.cfg
has a counterexample where they are not.

## Plan

1. Proofs: `LevelsAgree` of Registry, and `Replicated` of Channels, which would need the
   history argument of UserNet and Sessions for the members of a channel.
2. Bans with their expiry and exchange, as a module like Registry.
3. The limits of the main loop: ejecting a client from a full server, flood control,
   the login time-out, queue limits.

## Not modelled

The byte level (buffers, compression, packet framing), configuration, listings and
the stand-alone tools: sequential input and output.  Private messages, pings and whois
only pass a message on.  Bans, and the limits of the main loop, are left for later, as
the plan has it.  A crash of a server is modelled where it has an effect of its own:
in ServerLink, where its peers lose links and it loses its tables, and in Registry,
where it reads its file again; elsewhere it is, for its peers, the failure of its
links.  The channels file and the bans file are read once and not written.
