-------------------------- MODULE ChannelsProofs --------------------------
(***************************************************************************)
(* Proofs about the tables of a server in Channels, for all users,         *)
(* channels, levels, limits and links.  Nothing is assumed of a message    *)
(* that a peer sends: each handler keeps the tables in order by itself.    *)
(***************************************************************************)
EXTENDS Channels, TLAPS

\* v is made of the parts of Tables
Formed(v) ==
  /\ v = [on |-> v.on, via |-> v.via, chan |-> v.chan, joined |-> v.joined, asked |-> v.asked]
  /\ v.chan = [c \in Chan |-> v.chan[c]]
  /\ v.joined = [n \in Nick |-> v.joined[n]] /\ v.asked = [n \in Nick |-> v.asked[n]]
ChanFormed(h) ==
  /\ h = [exists |-> h.exists, user |-> h.user, modes |-> h.modes, limit |-> h.limit,
          level |-> h.level, members |-> h.members, flags |-> h.flags, ops |-> h.ops,
          invited |-> h.invited, bans |-> h.bans]
  /\ h.flags = [n \in Nick |-> h.flags[n]]

\* Nobody is voiced and muzzled.
Exclusive(h) == \A n \in Nick : ~("voice" \in h.flags[n] /\ "muzzled" \in h.flags[n])

\* The channel h alone is in order.
Sound(h) == ChanFormed(h) /\ Populated(h) /\ StatusTrue(h) /\ Exclusive(h)

\* The inductive invariant, one server at a time.
InOrder(v)  == Formed(v) /\ Mirrors(v) /\ \A c \in Chan : Sound(v.chan[c])
AllInOrder  == srv = [s \in Server |-> srv[s]] /\ \A s \in Server : InOrder(srv[s])

-----------------------------------------------------------------------------
(* The operators the handlers are made of *)

\* A channel that is made, or that is gone, has nobody in it.
LEMMA FreshChannels ==
  /\ Sound(NoChan) /\ NoChan.members = {} /\ NoChan.invited = {} /\ ~NoChan.exists
  /\ Sound(Predefined) /\ Predefined.members = {} /\ Predefined.invited = {}
  /\ ChanFormed(NewChan) /\ NewChan.members = {} /\ NewChan.invited = {} /\ NewChan.exists
  /\ Exclusive(NewChan)
<1>1. /\ ChanFormed(NewChan) /\ NewChan.members = {} /\ NewChan.invited = {} /\ NewChan.exists
      /\ Exclusive(NewChan)
  BY DEF ChanFormed, NewChan, Exclusive
<1>2. NoChan = [NewChan EXCEPT !.exists = FALSE]
  BY DEF NoChan
<1>3. Predefined = [NewChan EXCEPT !.user = FALSE, !.ops = FileOps]
  BY DEF Predefined
<1>4. /\ ChanFormed(NoChan) /\ NoChan.members = {} /\ NoChan.invited = {} /\ ~NoChan.exists
      /\ NoChan.flags = NewChan.flags
  BY <1>1, <1>2 DEF ChanFormed
<1>5. /\ ChanFormed(Predefined) /\ Predefined.members = {} /\ Predefined.invited = {}
      /\ ~Predefined.user /\ Predefined.flags = NewChan.flags
  BY <1>1, <1>3 DEF ChanFormed
<1>6. QED
  BY <1>1, <1>4, <1>5 DEF Sound, Populated, StatusTrue, Exclusive

\* One channel that loses the members of G but is not destroyed.
LEMMA LossKeepsSound ==
  ASSUME NEW h, Sound(h), NEW G, ~Emptied(h, G) \/ G = {}
  PROVE  /\ Sound(Lose(h, G)) /\ Lose(h, G).members = h.members \ G
         /\ Lose(h, G).invited = h.invited /\ Lose(h, G).exists = h.exists
<1> DEFINE r == Lose(h, G)
<1>1. r = [h EXCEPT !.members = @ \ G,
                    !.flags = [n \in Nick |-> IF n \in G THEN {} ELSE @[n]]]
  BY DEF Lose
<1> HIDE DEF r
<1>2. /\ r.members = h.members \ G /\ r.invited = h.invited /\ r.exists = h.exists
      /\ r.flags = [n \in Nick |-> IF n \in G THEN {} ELSE h.flags[n]]
      /\ r.ops = h.ops /\ r.user = h.user
      /\ r = [exists |-> h.exists, user |-> h.user, modes |-> h.modes, limit |-> h.limit,
               level |-> h.level, members |-> h.members \ G, flags |-> r.flags, ops |-> h.ops,
               invited |-> h.invited, bans |-> h.bans]
  BY <1>1 DEF Sound, ChanFormed
<1>3. ChanFormed(r)
  BY <1>2 DEF ChanFormed
<1>4. Populated(r) /\ StatusTrue(r) /\ Exclusive(r)
  BY <1>2 DEF Sound, Populated, StatusTrue, Exclusive, Emptied
<1>5. QED
  BY <1>2, <1>3, <1>4 DEF Sound, r

\* part_channel() of any users and channels at once.
LEMMA PartKeepsOrder ==
  ASSUME NEW v, InOrder(v), NEW S
  PROVE  /\ InOrder(PartAll(v, S)) /\ PartAll(v, S).on = v.on
         /\ \A n \in Nick : PartAll(v, S).joined[n] = v.joined[n] \ {c \in Chan : <<n, c>> \in S}
<1> DEFINE gone(c) == {n \in Nick : <<n, c>> \in S}
           dead == {c \in Chan : gone(c) # {} /\ Emptied(v.chan[c], gone(c))}
           w == PartAll(v, S)
<1>1. w = [on |-> v.on, via |-> v.via,
           chan |-> [c \in Chan |-> IF c \in dead THEN NoChan ELSE Lose(v.chan[c], gone(c))],
           joined |-> [n \in Nick |-> v.joined[n] \ {c \in Chan : <<n, c>> \in S}],
           asked |-> Withdraw(v, dead)]
  <2> DEFINE ch == [c \in Chan |-> IF c \in dead THEN NoChan ELSE Lose(v.chan[c], gone(c))]
             jo == [n \in Nick |-> v.joined[n] \ {c \in Chan : <<n, c>> \in S}]
             as == Withdraw(v, dead)
  <2>1. w = [v EXCEPT !.chan = ch, !.joined = jo, !.asked = as]
    BY DEF InOrder, Formed, PartAll
  <2>2. v = [on |-> v.on, via |-> v.via, chan |-> v.chan, joined |-> v.joined, asked |-> v.asked]
    BY DEF InOrder, Formed
  <2> HIDE DEF w, ch, jo, as
  <2>3. w = [on |-> v.on, via |-> v.via, chan |-> ch, joined |-> jo, asked |-> as]
    BY <2>1, <2>2
  <2>4. QED
    BY <2>3 DEF ch, jo, as
<1>2. dead \subseteq Chan /\ \A c \in dead : Emptied(v.chan[c], gone(c))
  OBVIOUS
<1>3. \A c \in Chan \ dead : ~Emptied(v.chan[c], gone(c)) \/ gone(c) = {}
  OBVIOUS
<1> HIDE DEF w, dead
<1>4. /\ w.on = v.on /\ w.via = v.via
      /\ w.chan = [c \in Chan |-> IF c \in dead THEN NoChan ELSE Lose(v.chan[c], gone(c))]
      /\ w.joined = [n \in Nick |-> v.joined[n] \ {c \in Chan : <<n, c>> \in S}]
      /\ w.asked = [n \in Nick |-> v.asked[n] \ {c \in dead : n \in v.chan[c].invited}]
      /\ w = [on |-> w.on, via |-> w.via, chan |-> w.chan, joined |-> w.joined, asked |-> w.asked]
  BY <1>1 DEF Withdraw
<1>5. Formed(w)
  BY <1>4 DEF Formed
<1>6. ASSUME NEW c \in Chan, c \notin dead
      PROVE  /\ Sound(w.chan[c]) /\ w.chan[c].members = v.chan[c].members \ gone(c)
             /\ w.chan[c].invited = v.chan[c].invited /\ w.chan[c].exists = v.chan[c].exists
  <2>1. /\ Sound(v.chan[c]) /\ w.chan[c] = Lose(v.chan[c], gone(c))
        /\ ~Emptied(v.chan[c], gone(c)) \/ gone(c) = {}
    BY <1>3, <1>4, <1>6 DEF InOrder
  <2> HIDE DEF gone
  <2>2. QED
    BY <2>1, LossKeepsSound
<1>7. ASSUME NEW c \in dead
      PROVE  w.chan[c] = NoChan /\ v.chan[c].members \subseteq gone(c)
  BY <1>2, <1>4 DEF Emptied
<1>8. Mirrors(w)
  <2> SUFFICES ASSUME NEW n \in Nick, NEW c \in Chan
      PROVE  /\ n \in w.chan[c].members <=> c \in w.joined[n]
             /\ n \in w.chan[c].invited <=> c \in w.asked[n]
             /\ n \in w.chan[c].members \cup w.chan[c].invited => n \in w.on /\ w.chan[c].exists
    BY DEF Mirrors
  <2>1. /\ n \in v.chan[c].members <=> c \in v.joined[n]
        /\ n \in v.chan[c].invited <=> c \in v.asked[n]
        /\ n \in v.chan[c].members \cup v.chan[c].invited => n \in v.on /\ v.chan[c].exists
    BY DEF InOrder, Mirrors
  <2>2. /\ c \in w.joined[n] <=> c \in v.joined[n] /\ n \notin gone(c)
        /\ c \in w.asked[n] <=> c \in v.asked[n] /\ ~(c \in dead /\ n \in v.chan[c].invited)
    BY <1>4
  <2> HIDE DEF gone
  <2>4. CASE c \in dead
    BY <1>7, <2>1, <2>2, <2>4, FreshChannels
  <2>5. CASE c \notin dead
    BY <1>4, <1>6, <2>1, <2>2, <2>5
  <2>6. QED
    BY <2>4, <2>5
<1>9. \A c \in Chan : Sound(w.chan[c])
  BY <1>6, <1>7, FreshChannels
<1>10. QED
  BY <1>4, <1>5, <1>8, <1>9 DEF InOrder, w

\* v with the channel g for c, if c is a channel
With(v, c, g) == [v EXCEPT !.chan[c] = g]
Alike(g, h) == Sound(g) /\ g.members = h.members /\ g.invited = h.invited /\ g.exists = h.exists

\* Other fields of a channel than its lists of members and of invitations change.
LEMMA ChangeKeepsSound ==
  ASSUME NEW h, Sound(h), NEW r,
         r = [exists |-> h.exists, user |-> r.user, modes |-> r.modes, limit |-> r.limit,
              level |-> r.level, members |-> h.members, flags |-> r.flags, ops |-> r.ops,
              invited |-> h.invited, bans |-> r.bans],
         r.flags = [n \in Nick |-> r.flags[n]], Populated(r), StatusTrue(r) /\ Exclusive(r)
  PROVE  Alike(r, h)
<1>1. r.members = h.members /\ r.invited = h.invited /\ r.exists = h.exists
  OBVIOUS
<1>2. ChanFormed(r)
  BY <1>1 DEF ChanFormed
<1>3. QED
  BY <1>1, <1>2 DEF Sound, Alike

LEMMA ChangeKeepsOrder ==
  ASSUME NEW v, InOrder(v), NEW c, NEW g, c \in Chan => Alike(g, v.chan[c])
  PROVE  InOrder(With(v, c, g))
<1> DEFINE w == With(v, c, g)
<1>1. w = [v EXCEPT !.chan[c] = g]
  BY DEF With
<1> HIDE DEF w
<1>2. /\ w = [on |-> v.on, via |-> v.via, chan |-> w.chan, joined |-> v.joined, asked |-> v.asked]
      /\ w.on = v.on /\ w.joined = v.joined /\ w.asked = v.asked /\ w.via = v.via
      /\ w.chan = [d \in Chan |-> IF d = c THEN g ELSE v.chan[d]]
  BY <1>1 DEF InOrder, Formed
<1>3. Formed(w)
  BY <1>2 DEF InOrder, Formed
<1>4. Mirrors(w)
  BY <1>2 DEF InOrder, Mirrors, Alike
<1>5. \A d \in Chan : Sound(w.chan[d])
  BY <1>2 DEF InOrder, Alike
<1>6. QED
  BY <1>3, <1>4, <1>5 DEF InOrder, w

\* free_user() of any users: they are on no list any more.
LEMMA FreeKeepsOrder == ASSUME NEW v, InOrder(v), NEW S PROVE InOrder(FreeUser(v, S))
<1> DEFINE P == {p \in S \X Chan : p[2] \in v.joined[p[1]]}
           u == PartAll(v, P)
           w == FreeUser(v, S)
<1>1. InOrder(u)
  BY PartKeepsOrder
<1>2. \A n \in Nick \cap S, c \in Chan : c \notin u.joined[n]
  <2> SUFFICES ASSUME NEW n \in Nick \cap S, NEW c \in Chan PROVE c \notin u.joined[n]
    OBVIOUS
  <2>1. u.joined[n] = v.joined[n] \ {d \in Chan : <<n, d>> \in P}
    BY PartKeepsOrder
  <2>2. c \in v.joined[n] => <<n, c>> \in P
    OBVIOUS
  <2>3. QED
    BY <2>1, <2>2
<1>3. w = Forget(u, S)
  BY DEF FreeUser
<1> HIDE DEF u, w
<1>4. /\ w.on = u.on \ S /\ w.joined = u.joined
      /\ w.asked = [n \in Nick |-> IF n \in S THEN {} ELSE u.asked[n]]
      /\ w.chan = [c \in Chan |-> Uninvite(u.chan[c], {n \in S : c \in u.asked[n]})]
      /\ w = [on |-> w.on, via |-> w.via, chan |-> w.chan, joined |-> w.joined, asked |-> w.asked]
  <2> DEFINE x  == DropInvites(u, S)
             ch == [c \in Chan |-> Uninvite(u.chan[c], {n \in S : c \in u.asked[n]})]
             as == [n \in Nick |-> IF n \in S THEN {} ELSE u.asked[n]]
             vi == [n \in Nick |-> IF n \in S THEN None ELSE u.via[n]]
  <2>1. u = [on |-> u.on, via |-> u.via, chan |-> u.chan, joined |-> u.joined, asked |-> u.asked]
    BY <1>1 DEF InOrder, Formed
  <2>2. x = [u EXCEPT !.chan = ch, !.asked = as]
    BY <2>1 DEF DropInvites
  <2> HIDE DEF ch, as, x
  <2>3. x = [on |-> u.on, via |-> u.via, chan |-> ch, joined |-> u.joined, asked |-> as]
    BY <2>1, <2>2
  <2>4. w = [x EXCEPT !.on = u.on \ S, !.via = vi]
    BY <1>3, <2>3 DEF Forget, x
  <2> HIDE DEF vi
  <2>5. w = [on |-> u.on \ S, via |-> vi, chan |-> ch, joined |-> u.joined, asked |-> as]
    BY <2>3, <2>4
  <2>6. QED
    BY <2>5 DEF ch, as
<1>5. Formed(w)
  BY <1>1, <1>4 DEF InOrder, Formed
<1>6. ASSUME NEW c \in Chan
      PROVE  /\ Sound(w.chan[c]) /\ w.chan[c].members = u.chan[c].members
             /\ w.chan[c].exists = u.chan[c].exists
             /\ w.chan[c].invited = u.chan[c].invited \ {n \in S : c \in u.asked[n]}
  <2> DEFINE h == u.chan[c]
             r == w.chan[c]
             G == {n \in S : c \in u.asked[n]}
  <2>1. r = [h EXCEPT !.invited = @ \ G]
    BY <1>4 DEF Uninvite
  <2>2. Sound(h)
    BY <1>1 DEF InOrder
  <2> HIDE DEF h, r, G
  <2>3. /\ r = [exists |-> h.exists, user |-> h.user, modes |-> h.modes, limit |-> h.limit,
                level |-> h.level, members |-> h.members, flags |-> h.flags, ops |-> h.ops,
                invited |-> h.invited \ G, bans |-> h.bans]
        /\ r.members = h.members /\ r.exists = h.exists /\ r.invited = h.invited \ G
        /\ r.flags = h.flags /\ r.user = h.user /\ r.ops = h.ops
    BY <2>1, <2>2 DEF Sound, ChanFormed
  <2>4. ChanFormed(r)
    BY <2>2, <2>3 DEF Sound, ChanFormed
  <2>5. Sound(r)
    BY <2>2, <2>3, <2>4 DEF Sound, Populated, StatusTrue, Exclusive
  <2>6. QED
    BY <2>3, <2>5 DEF h, r, G
<1>7. Mirrors(w)
  <2> SUFFICES ASSUME NEW n \in Nick, NEW c \in Chan
      PROVE  /\ n \in w.chan[c].members <=> c \in w.joined[n]
             /\ n \in w.chan[c].invited <=> c \in w.asked[n]
             /\ n \in w.chan[c].members \cup w.chan[c].invited => n \in w.on /\ w.chan[c].exists
    BY DEF Mirrors
  <2>1. /\ n \in u.chan[c].members <=> c \in u.joined[n]
        /\ n \in u.chan[c].invited <=> c \in u.asked[n]
        /\ n \in u.chan[c].members \cup u.chan[c].invited => n \in u.on /\ u.chan[c].exists
    BY <1>1 DEF InOrder, Mirrors
  <2>2. w.asked[n] = IF n \in S THEN {} ELSE u.asked[n]
    BY <1>4
  <2>3. QED
    BY <1>2, <1>4, <1>6, <2>1, <2>2
<1>8. QED
  BY <1>5, <1>6, <1>7 DEF InOrder, w

\* join(): n is on one more list, and so is c.
LEMMA EnterKeepsOrder ==
  ASSUME NEW v, InOrder(v), NEW c \in Chan, NEW n \in v.on PROVE InOrder(Enter(v, n, c))
<1> DEFINE h == IF v.chan[c].exists THEN v.chan[c] ELSE NewChan
           g == Entered(h, n)
           w == Enter(v, n, c)
<1>1. /\ w = [v EXCEPT !.chan[c] = g, !.joined[n] = @ \cup {c},
                       !.asked[n] = IF "INVITE" \in h.modes THEN @ \ {c} ELSE @]
      /\ g = [h EXCEPT !.members = @ \cup {n},
                       !.flags[n] = IF n \in h.ops THEN {"op"} ELSE {},
                       !.invited = IF "INVITE" \in h.modes THEN @ \ {n} ELSE @]
  BY DEF Enter, Entered
<1>2. /\ ChanFormed(h) /\ StatusTrue(h) /\ Exclusive(h) /\ h.exists
      /\ \A k \in Nick : /\ k \in h.members <=> c \in v.joined[k]
                         /\ k \in h.invited <=> c \in v.asked[k]
                         /\ k \in h.members \cup h.invited => k \in v.on
  <2>1. CASE v.chan[c].exists
    BY <2>1 DEF InOrder, Mirrors, Sound
  <2>2. CASE ~v.chan[c].exists
    BY <2>2, FreshChannels DEF InOrder, Mirrors, StatusTrue, Exclusive
  <2>3. QED
    BY <2>1, <2>2
<1> HIDE DEF h, g, w
<1>3. /\ g = [exists |-> h.exists, user |-> h.user, modes |-> h.modes, limit |-> h.limit,
              level |-> h.level, members |-> h.members \cup {n}, flags |-> g.flags,
              ops |-> h.ops, invited |-> g.invited, bans |-> h.bans]
      /\ g.members = h.members \cup {n} /\ g.ops = h.ops /\ g.exists = h.exists
      /\ g.invited = IF "INVITE" \in h.modes THEN h.invited \ {n} ELSE h.invited
      /\ g.flags = [k \in Nick |-> IF k = n THEN IF n \in h.ops THEN {"op"} ELSE {}
                                            ELSE h.flags[k]]
  BY <1>1, <1>2 DEF ChanFormed
<1>4. Sound(g)
  <2>1. ChanFormed(g)
    BY <1>3 DEF ChanFormed
  <2>2. Populated(g) /\ StatusTrue(g) /\ Exclusive(g)
    BY <1>2, <1>3 DEF Populated, StatusTrue, Exclusive
  <2>3. QED
    BY <2>1, <2>2 DEF Sound
<1>5. /\ w = [on |-> v.on, via |-> v.via, chan |-> w.chan, joined |-> w.joined, asked |-> w.asked]
      /\ w.on = v.on
      /\ w.chan = [d \in Chan |-> IF d = c THEN g ELSE v.chan[d]]
      /\ w.joined = [k \in Nick |-> IF k = n THEN v.joined[k] \cup {c} ELSE v.joined[k]]
      /\ w.asked = [k \in Nick |-> IF k = n /\ "INVITE" \in h.modes THEN v.asked[k] \ {c}
                                   ELSE v.asked[k]]
  BY <1>1 DEF InOrder, Formed
<1>6. Formed(w)
  BY <1>5 DEF Formed
<1>7. Mirrors(w)
  <2> SUFFICES ASSUME NEW k \in Nick, NEW d \in Chan
      PROVE  /\ k \in w.chan[d].members <=> d \in w.joined[k]
             /\ k \in w.chan[d].invited <=> d \in w.asked[k]
             /\ k \in w.chan[d].members \cup w.chan[d].invited => k \in w.on /\ w.chan[d].exists
    BY DEF Mirrors
  <2>1. CASE d = c
    BY <1>2, <1>3, <1>5, <2>1
  <2>2. CASE d # c
    BY <1>5, <2>2 DEF InOrder, Mirrors
  <2>3. QED
    BY <2>1, <2>2
<1>8. \A d \in Chan : Sound(w.chan[d])
  BY <1>4, <1>5 DEF InOrder
<1>9. QED
  BY <1>6, <1>7, <1>8 DEF InOrder, w

\* channel_op(): the list and the flag of a member change together.
LEMMA OpKeepsOrder ==
  ASSUME NEW v, InOrder(v), NEW c, NEW n
  PROVE  InOrder(Op(v, c, n)) /\ InOrder(Deop(v, c, n))
<1> DEFINE h == v.chan[c]
           p == [h EXCEPT !.ops = @ \cup {n}, !.user = FALSE,
                          !.flags[n] = IF n \in h.members THEN @ \cup {"op"} ELSE @]
           q == [h EXCEPT !.ops = @ \ {n}, !.flags[n] = @ \ {"op"}]
<1>1. Op(v, c, n) = With(v, c, p) /\ Deop(v, c, n) = With(v, c, q)
  BY DEF Op, Deop, With
<1>2. c \in Chan => Sound(h)
  BY DEF InOrder
<1>3. ASSUME c \in Chan
      PROVE  Alike(p, h) /\ Alike(q, h)
  <2>1. p = [h EXCEPT !.ops = @ \cup {n}, !.user = FALSE,
                      !.flags[n] = IF n \in h.members THEN @ \cup {"op"} ELSE @]
    OBVIOUS
  <2>2. q = [h EXCEPT !.ops = @ \ {n}, !.flags[n] = @ \ {"op"}]
    OBVIOUS
  <2> HIDE DEF h, p, q
  <2>3. /\ p = [exists |-> h.exists, user |-> p.user, modes |-> p.modes, limit |-> p.limit,
                level |-> p.level, members |-> h.members, flags |-> p.flags, ops |-> p.ops,
                invited |-> h.invited, bans |-> p.bans]
        /\ p.flags = [k \in Nick |-> IF k = n /\ n \in h.members THEN h.flags[k] \cup {"op"}
                                     ELSE h.flags[k]]
        /\ p.ops = h.ops \cup {n} /\ ~p.user /\ p.members = h.members
    BY <1>2, <1>3, <2>1 DEF Sound, ChanFormed
  <2>4. /\ q = [exists |-> h.exists, user |-> q.user, modes |-> q.modes, limit |-> q.limit,
                level |-> q.level, members |-> h.members, flags |-> q.flags, ops |-> q.ops,
                invited |-> h.invited, bans |-> q.bans]
        /\ q.flags = [k \in Nick |-> IF k = n THEN h.flags[k] \ {"op"} ELSE h.flags[k]]
        /\ q.ops = h.ops \ {n} /\ q.user = h.user /\ q.members = h.members /\ q.exists = h.exists
    BY <1>2, <1>3, <2>2 DEF Sound, ChanFormed
  <2>5. Populated(p) /\ StatusTrue(p) /\ Exclusive(p)
    BY <1>2, <1>3, <2>3 DEF Sound, Populated, StatusTrue, Exclusive
  <2>6. Populated(q) /\ StatusTrue(q) /\ Exclusive(q)
    BY <1>2, <1>3, <2>4 DEF Sound, Populated, StatusTrue, Exclusive
  <2>7. p.flags = [k \in Nick |-> p.flags[k]] /\ q.flags = [k \in Nick |-> q.flags[k]]
    BY <2>3, <2>4
  <2>8. Alike(p, h)
    BY <1>2, <1>3, <2>3, <2>5, <2>7, ChangeKeepsSound
  <2>9. Alike(q, h)
    BY <1>2, <1>3, <2>4, <2>6, <2>7, ChangeKeepsSound
  <2>10. QED
    BY <2>8, <2>9
<1> HIDE DEF p, q
<1>4. QED
  BY <1>1, <1>3, ChangeKeepsOrder

\* channel_voice() and channel_muzzle(): the status of an operator stays.
LEMMA MarkKeepsOrder ==
  ASSUME NEW v, InOrder(v), NEW c, NEW n, NEW plus, NEW minus, "op" \notin plus \cup minus,
         "voice" \in plus => "muzzled" \in minus \ plus,
         "muzzled" \in plus => "voice" \in minus \ plus
  PROVE  InOrder(Mark(v, c, n, plus, minus))
<1> DEFINE h == v.chan[c]
           r == [h EXCEPT !.flags[n] = IF n \in h.members THEN (@ \ minus) \cup plus ELSE @]
<1>1. Mark(v, c, n, plus, minus) = With(v, c, r)
  BY DEF Mark, With
<1>2. ASSUME c \in Chan PROVE Alike(r, h)
  <2>1. Sound(h)
    BY <1>2 DEF InOrder
  <2>2. r = [h EXCEPT !.flags[n] = IF n \in h.members THEN (@ \ minus) \cup plus ELSE @]
    OBVIOUS
  <2> HIDE DEF h, r
  <2>3. /\ r = [exists |-> h.exists, user |-> r.user, modes |-> r.modes, limit |-> r.limit,
                level |-> r.level, members |-> h.members, flags |-> r.flags, ops |-> r.ops,
                invited |-> h.invited, bans |-> r.bans]
        /\ r.flags = [k \in Nick |-> IF k = n /\ n \in h.members
                                     THEN (h.flags[k] \ minus) \cup plus ELSE h.flags[k]]
        /\ r.ops = h.ops /\ r.user = h.user /\ r.members = h.members /\ r.exists = h.exists
    BY <2>1, <2>2 DEF Sound, ChanFormed
  <2>4. Populated(r) /\ StatusTrue(r) /\ Exclusive(r)
    BY <2>1, <2>3 DEF Sound, Populated, StatusTrue, Exclusive
  <2>5. r.flags = [k \in Nick |-> r.flags[k]]
    BY <2>3
  <2>6. QED
    BY <2>1, <2>3, <2>4, <2>5, ChangeKeepsSound
<1> HIDE DEF r
<1>3. QED
  BY <1>1, <1>2, ChangeKeepsOrder

\* The fields that ListsMirror, OpsMatch and UserChannelsPopulated do not read.
Remode(h, x) == [h EXCEPT !.modes = x]
Relimit(h, x) == [h EXCEPT !.limit = x]
Relevel(h, x) == [h EXCEPT !.level = x]
Reban(h, x)  == [h EXCEPT !.bans = x]

LEMMA SettingKeepsSound ==
  ASSUME NEW h, Sound(h), NEW x
  PROVE  /\ Alike(Remode(h, x), h) /\ Alike(Relimit(h, x), h)
         /\ Alike(Relevel(h, x), h) /\ Alike(Reban(h, x), h)
<1>1. ASSUME NEW r, r \in {Remode(h, x), Relimit(h, x), Relevel(h, x), Reban(h, x)}
      PROVE  Alike(r, h)
  <2>1. \/ r = [h EXCEPT !.modes = x] \/ r = [h EXCEPT !.limit = x]
        \/ r = [h EXCEPT !.level = x] \/ r = [h EXCEPT !.bans = x]
    BY <1>1 DEF Remode, Relimit, Relevel, Reban
  <2>2. /\ r = [exists |-> h.exists, user |-> r.user, modes |-> r.modes, limit |-> r.limit,
                level |-> r.level, members |-> h.members, flags |-> r.flags, ops |-> r.ops,
                invited |-> h.invited, bans |-> r.bans]
        /\ r.flags = h.flags /\ r.ops = h.ops /\ r.user = h.user
        /\ r.members = h.members /\ r.exists = h.exists
    BY <2>1 DEF Sound, ChanFormed
  <2>3. r.flags = [k \in Nick |-> r.flags[k]] /\ Populated(r) /\ StatusTrue(r) /\ Exclusive(r)
    BY <2>2 DEF Sound, ChanFormed, Populated, StatusTrue, Exclusive
  <2>4. QED
    BY <2>2, <2>3, ChangeKeepsSound
<1>2. QED
  BY <1>1

\* channel_drop(): what is kept has members, what is destroyed has none.
LEMMA DropKeepsOrder == ASSUME NEW v, InOrder(v), NEW c PROVE InOrder(Drop(v, c))
<1> DEFINE h == v.chan[c]
<1>1. CASE h.members # {}
  <2> DEFINE r == [h EXCEPT !.user = TRUE]
  <2>1. Drop(v, c) = With(v, c, r)
    BY <1>1 DEF Drop, With
  <2>2. ASSUME c \in Chan PROVE Alike(r, h)
    <3>1. Sound(h)
      BY <2>2 DEF InOrder
    <3>2. r = [h EXCEPT !.user = TRUE]
      OBVIOUS
    <3> HIDE DEF h, r
    <3>3. /\ r = [exists |-> h.exists, user |-> r.user, modes |-> r.modes, limit |-> r.limit,
                  level |-> r.level, members |-> h.members, flags |-> r.flags, ops |-> r.ops,
                  invited |-> h.invited, bans |-> r.bans]
          /\ r.flags = h.flags /\ r.ops = h.ops /\ r.members = h.members
      BY <3>1, <3>2 DEF Sound, ChanFormed
    <3>4. r.flags = [k \in Nick |-> r.flags[k]] /\ Populated(r) /\ StatusTrue(r) /\ Exclusive(r)
      BY <1>1, <3>1, <3>3 DEF Sound, ChanFormed, Populated, StatusTrue, Exclusive
    <3>5. QED
      BY <3>1, <3>3, <3>4, ChangeKeepsSound
  <2> HIDE DEF r
  <2>3. QED
    BY <2>1, <2>2, ChangeKeepsOrder
<1>2. CASE h.members = {}
  <2> DEFINE w == Drop(v, c)
  <2>1. w = [v EXCEPT !.chan[c] = NoChan, !.asked = Withdraw(v, {c})]
    BY <1>2 DEF Drop
  <2> HIDE DEF w
  <2>2. /\ w = [on |-> w.on, via |-> w.via, chan |-> w.chan, joined |-> w.joined, asked |-> w.asked]
        /\ w.on = v.on /\ w.joined = v.joined
        /\ w.chan = [d \in Chan |-> IF d = c THEN NoChan ELSE v.chan[d]]
        /\ w.asked = [n \in Nick |-> v.asked[n] \ {d \in {c} : n \in v.chan[d].invited}]
    BY <2>1 DEF InOrder, Formed, Withdraw
  <2>3. Formed(w)
    BY <2>2 DEF InOrder, Formed
  <2>4. Mirrors(w)
    <3> SUFFICES ASSUME NEW n \in Nick, NEW d \in Chan
        PROVE  /\ n \in w.chan[d].members <=> d \in w.joined[n]
               /\ n \in w.chan[d].invited <=> d \in w.asked[n]
               /\ n \in w.chan[d].members \cup w.chan[d].invited
                    => n \in w.on /\ w.chan[d].exists
      BY DEF Mirrors
    <3>1. /\ n \in v.chan[d].members <=> d \in v.joined[n]
          /\ n \in v.chan[d].invited <=> d \in v.asked[n]
          /\ n \in v.chan[d].members \cup v.chan[d].invited => n \in v.on /\ v.chan[d].exists
      BY DEF InOrder, Mirrors
    <3>2. CASE d = c
      BY <1>2, <2>2, <3>1, <3>2, FreshChannels
    <3>3. CASE d # c
      BY <2>2, <3>1, <3>3
    <3>4. QED
      BY <3>2, <3>3
  <2>5. \A d \in Chan : Sound(w.chan[d])
    BY <2>2, FreshChannels DEF InOrder
  <2>6. QED
    BY <2>3, <2>4, <2>5 DEF InOrder, w
<1>3. QED
  BY <1>1, <1>2

\* channel_invite(): both lists of invitations grow.
LEMMA InviteKeepsOrder ==
  ASSUME NEW v, InOrder(v), NEW c, v.chan[c].exists, NEW n \in v.on
  PROVE  InOrder(Ask(v, c, n))
<1> DEFINE h == v.chan[c]
           r == [h EXCEPT !.invited = @ \cup {n}]
           w == Ask(v, c, n)
<1>1. r = [h EXCEPT !.invited = @ \cup {n}]
  OBVIOUS
<1>2. w = [v EXCEPT !.chan[c] = r, !.asked[n] = @ \cup {c}]
  BY DEF Ask
<1> HIDE DEF r, w
<1>3. /\ w = [on |-> w.on, via |-> w.via, chan |-> w.chan, joined |-> w.joined, asked |-> w.asked]
      /\ w.on = v.on /\ w.joined = v.joined
      /\ w.chan = [d \in Chan |-> IF d = c THEN r ELSE v.chan[d]]
      /\ w.asked = [k \in Nick |-> IF k = n THEN v.asked[k] \cup {c} ELSE v.asked[k]]
  BY <1>2 DEF InOrder, Formed
<1>4. Formed(w)
  BY <1>3 DEF InOrder, Formed
<1>5. ASSUME c \in Chan
      PROVE  /\ Sound(r) /\ r.members = h.members /\ r.exists = h.exists
             /\ r.invited = h.invited \cup {n}
  <2>1. Sound(h)
    BY <1>5 DEF InOrder
  <2> HIDE DEF h
  <2>2. /\ r = [exists |-> h.exists, user |-> h.user, modes |-> h.modes, limit |-> h.limit,
                level |-> h.level, members |-> h.members, flags |-> h.flags, ops |-> h.ops,
                invited |-> h.invited \cup {n}, bans |-> h.bans]
        /\ r.members = h.members /\ r.exists = h.exists /\ r.invited = h.invited \cup {n}
        /\ r.flags = h.flags /\ r.user = h.user /\ r.ops = h.ops
    BY <1>1, <2>1 DEF Sound, ChanFormed
  <2>3. ChanFormed(r)
    BY <2>1, <2>2 DEF Sound, ChanFormed
  <2>4. QED
    BY <2>1, <2>2, <2>3 DEF Sound, Populated, StatusTrue, Exclusive
<1>6. Mirrors(w)
  <2> SUFFICES ASSUME NEW k \in Nick, NEW d \in Chan
      PROVE  /\ k \in w.chan[d].members <=> d \in w.joined[k]
             /\ k \in w.chan[d].invited <=> d \in w.asked[k]
             /\ k \in w.chan[d].members \cup w.chan[d].invited => k \in w.on /\ w.chan[d].exists
    BY DEF Mirrors
  <2>1. /\ k \in v.chan[d].members <=> d \in v.joined[k]
        /\ k \in v.chan[d].invited <=> d \in v.asked[k]
        /\ k \in v.chan[d].members \cup v.chan[d].invited => k \in v.on /\ v.chan[d].exists
    BY DEF InOrder, Mirrors
  <2>2. CASE d = c
    <3>1. c \in Chan
      BY <2>2
    <3>2. w.chan[d] = r /\ w.joined[k] = v.joined[k]
      BY <1>3, <2>2
    <3>3. w.asked[k] = IF k = n THEN v.asked[k] \cup {c} ELSE v.asked[k]
      BY <1>3
    <3>4. /\ r.members = v.chan[d].members /\ r.exists
          /\ r.invited = v.chan[d].invited \cup {n}
      BY <1>5, <2>2, <3>1
    <3>5. QED
      BY <1>3, <2>1, <2>2, <3>2, <3>3, <3>4
  <2>3. CASE d # c
    BY <1>3, <2>1, <2>3
  <2>4. QED
    BY <2>2, <2>3
<1>7. ASSUME NEW d \in Chan PROVE Sound(w.chan[d])
  <2>1. CASE d = c
    BY <1>3, <1>5, <2>1
  <2>2. CASE d # c
    BY <1>3, <2>2 DEF InOrder
  <2>3. QED
    BY <2>1, <2>2
<1>8. QED
  BY <1>4, <1>6, <1>7 DEF InOrder, w

\* login(): one more user is online.
LEMMA LoginKeepsOrder ==
  ASSUME NEW v, InOrder(v), NEW n, NEW t, NEW w,
         w = [v EXCEPT !.on = @ \cup {n}, !.via[n] = t]
  PROVE  InOrder(w)
<1>1. /\ w = [on |-> w.on, via |-> w.via, chan |-> v.chan, joined |-> v.joined, asked |-> v.asked]
      /\ w.on = v.on \cup {n} /\ w.chan = v.chan /\ w.joined = v.joined /\ w.asked = v.asked
  BY DEF InOrder, Formed
<1>2. Formed(w)
  BY <1>1 DEF InOrder, Formed
<1>3. Mirrors(w)
  BY <1>1 DEF InOrder, Mirrors
<1>4. QED
  BY <1>1, <1>2, <1>3 DEF InOrder

-----------------------------------------------------------------------------
(* The handlers *)

\* A handler replaces the tables of one server, if its checks pass.
LEMMA HandleKeepsOrder ==
  ASSUME NEW s \in Server, NEW from, NEW m, NEW ok, NEW v, NEW out,
         AllInOrder, Handle(s, from, m, ok, v, out), ok => InOrder(v)
  PROVE  AllInOrder'
<1>1. CASE ok
  <2>1. srv' = [srv EXCEPT ![s] = v]
    BY <1>1 DEF Handle
  <2>2. QED
    BY <1>1, <2>1 DEF AllInOrder
<1>2. CASE ~ok
  <2>1. srv' = srv
    BY <1>2 DEF Handle
  <2>2. QED
    BY <2>1 DEF AllInOrder
<1>3. QED
  BY <1>1, <1>2

LEMMA HandlerKeepsOrder ==
  ASSUME AllInOrder, NEW s \in Server, NEW from, NEW m, Handler(s, from, m)
  PROVE  AllInOrder'
<1> DEFINE v == srv[s]
           c == m.ch
           h == v.chan[c]
<1>0. InOrder(v)
  BY DEF AllInOrder
<1>1. CASE Login(s, from, m)
  <2> DEFINE w == [v EXCEPT !.on = @ \cup {m.by}, !.via[m.by] = from]
  <2>1. Handle(s, from, m, m.by \notin v.on, w, m)
    BY <1>1 DEF Login
  <2>2. InOrder(w)
    BY <1>0, LoginKeepsOrder
  <2>3. QED
    BY <2>1, <2>2, HandleKeepsOrder
<1>2. CASE Quit(s, from, m)
  BY <1>0, <1>2, FreeKeepsOrder, HandleKeepsOrder DEF Quit
<1>3. CASE Join(s, from, m)
  <2> DEFINE d  == Landing(v, m.by)[m.ch]
             ok == m.by \in v.on /\ MayJoin(v, m)
  <2>1. Handle(s, from, m, ok, Enter(v, m.by, d), [m EXCEPT !.ch = d])
    BY <1>3 DEF Join
  <2>2. ok => InOrder(Enter(v, m.by, d))
    BY <1>0, EnterKeepsOrder DEF MayJoin
  <2> HIDE DEF ok, d, v
  <2>3. QED
    BY <2>1, <2>2, HandleKeepsOrder
<1>4. CASE Part(s, from, m)
  BY <1>0, <1>4, PartKeepsOrder, HandleKeepsOrder DEF Part
<1>5. CASE Kick(s, from, m)
  <2>1. PICK ok : Handle(s, from, m, ok, PartAll(v, {<<m.nick, m.ch>>}), m)
    BY <1>5 DEF Kick
  <2>2. QED
    BY <1>0, <2>1, PartKeepsOrder, HandleKeepsOrder
<1>6. CASE Clear(s, from, m)
  <2>1. PICK ok : Handle(s, from, m, ok, PartAll(v, Cleared(v, m.ch, m.by) \X {m.ch}), m)
    BY <1>6 DEF Clear
  <2>2. QED
    BY <1>0, <2>1, PartKeepsOrder, HandleKeepsOrder
<1>7. CASE SetOp(s, from, m)
  <2>1. PICK ok, w : /\ Handle(s, from, m, ok, w, m)
                     /\ w \in {v, Op(v, m.ch, m.nick), Deop(v, m.ch, m.nick)}
    BY <1>7 DEF SetOp
  <2>2. InOrder(w)
    BY <1>0, <2>1, OpKeepsOrder
  <2>3. QED
    BY <2>1, <2>2, HandleKeepsOrder
<1>8. CASE Mode(s, from, m)
  <2>1. PICK ok, x : Handle(s, from, m, ok, With(v, c, Remode(h, x)), m)
    BY <1>8 DEF Mode, With, Remode
  <2>2. InOrder(With(v, c, Remode(h, x)))
    BY <1>0, SettingKeepsSound, ChangeKeepsOrder DEF InOrder
  <2>3. QED
    BY <2>1, <2>2, HandleKeepsOrder
<1>9. CASE Invite(s, from, m)
  <2> DEFINE ok == /\ Valid(v, m) /\ "INVITE" \in h.modes /\ Level[m.by] >= h.level
                   /\ m.by \in h.members /\ m.nick \in v.on \ h.members
                   /\ m.ch \notin v.asked[m.nick]
  <2>1. Handle(s, from, m, ok, Ask(v, m.ch, m.nick), m)
    BY <1>9 DEF Invite
  <2>2. ok => InOrder(Ask(v, m.ch, m.nick))
    BY <1>0, InviteKeepsOrder DEF Valid
  <2> HIDE DEF ok
  <2>3. QED
    BY <2>1, <2>2, HandleKeepsOrder
<1>10. CASE Voice(s, from, m) \/ Muzzle(s, from, m)
  <2>1. PICK ok, plus, minus :
          /\ Handle(s, from, m, ok, Mark(v, m.ch, m.nick, plus, minus), m)
          /\ <<plus, minus>> \in {<<{"voice"}, {"muzzled"}>>, <<{}, {"voice"}>>,
                                  <<{"muzzled"}, {"voice"}>>, <<{}, {"muzzled"}>>}
    <3>1. CASE Voice(s, from, m)
      <4>1. CASE m.cmd = "VOICE"
        BY <3>1, <4>1 DEF Voice
      <4>2. CASE m.cmd # "VOICE"
        BY <3>1, <4>2 DEF Voice
      <4>3. QED
        BY <4>1, <4>2
    <3>2. CASE Muzzle(s, from, m)
      <4>1. CASE m.cmd = "MUZZLE"
        BY <3>2, <4>1 DEF Muzzle
      <4>2. CASE m.cmd # "MUZZLE"
        BY <3>2, <4>2 DEF Muzzle
      <4>3. QED
        BY <4>1, <4>2
    <3>3. QED
      BY <1>10, <3>1, <3>2
  <2>2. /\ "op" \notin plus \cup minus
        /\ "voice" \in plus => "muzzled" \in minus \ plus
        /\ "muzzled" \in plus => "voice" \in minus \ plus
    BY <2>1
  <2>3. QED
    BY <1>0, <2>1, <2>2, MarkKeepsOrder, HandleKeepsOrder
<1>11. CASE Ban(s, from, m) \/ ClearBans(s, from, m)
  <2>1. PICK ok, x : Handle(s, from, m, ok, With(v, c, Reban(h, x)), m)
    BY <1>11 DEF Ban, ClearBans, With, Reban
  <2>2. InOrder(With(v, c, Reban(h, x)))
    BY <1>0, SettingKeepsSound, ChangeKeepsOrder DEF InOrder
  <2>3. QED
    BY <2>1, <2>2, HandleKeepsOrder
<1>12. CASE Limit(s, from, m)
  <2>1. PICK ok, out : Handle(s, from, m, ok, With(v, c, Relimit(h, m.val)), out)
    BY <1>12 DEF Limit, With, Relimit
  <2>2. InOrder(With(v, c, Relimit(h, m.val)))
    BY <1>0, SettingKeepsSound, ChangeKeepsOrder DEF InOrder
  <2>3. QED
    BY <2>1, <2>2, HandleKeepsOrder
<1>13. CASE SetLevel(s, from, m)
  <2>1. PICK ok, out : Handle(s, from, m, ok, With(v, c, Relevel(h, m.val)), out)
    BY <1>13 DEF SetLevel, With, Relevel
  <2>2. InOrder(With(v, c, Relevel(h, m.val)))
    BY <1>0, SettingKeepsSound, ChangeKeepsOrder DEF InOrder
  <2>3. QED
    BY <2>1, <2>2, HandleKeepsOrder
<1>14. CASE DropChan(s, from, m)
  <2>1. PICK ok : Handle(s, from, m, ok, Drop(v, m.ch), m)
    BY <1>14 DEF DropChan
  <2>2. QED
    BY <1>0, <2>1, DropKeepsOrder, HandleKeepsOrder
<1>15. QED
  BY <1>1, <1>2, <1>3, <1>4, <1>5, <1>6, <1>7, <1>8, <1>9, <1>10, <1>11, <1>12, <1>13, <1>14
     DEF Handler

-----------------------------------------------------------------------------
(* The specification *)

LEMMA InitInOrder == ASSUME Init PROVE AllInOrder
<1> SUFFICES ASSUME NEW s \in Server PROVE InOrder(srv[s])
  BY DEF Init, AllInOrder
<1> DEFINE v == srv[s]
<1>1. v = [on |-> {}, via |-> [n \in Nick |-> None],
           chan |-> [c \in Chan |-> IF c \in Registered THEN Predefined ELSE NoChan],
           joined |-> [n \in Nick |-> {}], asked |-> [n \in Nick |-> {}]]
  BY DEF Init
<1> HIDE DEF v
<1>2. Formed(v)
  BY <1>1 DEF Formed
<1>3. Mirrors(v)
  BY <1>1, FreshChannels DEF Mirrors
<1>4. \A c \in Chan : Sound(v.chan[c])
  BY <1>1, FreshChannels
<1>5. QED
  BY <1>2, <1>3, <1>4 DEF InOrder, v

LEMMA NextKeepsOrder == ASSUME AllInOrder, [Next]_vars PROVE AllInOrder'
<1>1. ASSUME NEW s \in Server, Client(s) PROVE AllInOrder'
  BY <1>1, HandlerKeepsOrder DEF Client
<1>2. ASSUME NEW s \in Server, NEW t \in Server, Receive(s, t) PROVE AllInOrder'
  BY <1>2, HandlerKeepsOrder DEF Receive
<1>3. ASSUME NEW s \in Server, NEW t \in Server, LinkUp(s, t) PROVE AllInOrder'
  BY <1>3 DEF LinkUp, AllInOrder
<1>4. ASSUME NEW s \in Server, NEW t \in Server, LinkDown(s, t) PROVE AllInOrder'
  <2> DEFINE gone == [u \in Server |-> {n \in Nick : <<u, srv[u].via[n]>> \in {<<s, t>>, <<t, s>>}}]
  <2>1. srv' = [u \in Server |-> FreeUser(srv[u], gone[u])]
    BY <1>4 DEF LinkDown
  <2> HIDE DEF gone
  <2>2. QED
    BY <2>1, FreeKeepsOrder DEF AllInOrder
<1>5. CASE UNCHANGED vars
  BY <1>5 DEF vars, AllInOrder
<1>6. QED
  BY <1>1, <1>2, <1>3, <1>4, <1>5 DEF Next

LEMMA AlwaysAllInOrder == Spec => []AllInOrder
BY InitInOrder, NextKeepsOrder, PTL DEF Spec

\* Whatever clients ask, peers send and links do, the lists of members, of channels
\* and of invitations say the same: no handler follows a dangling pointer.
THEOREM AlwaysMirrored == Spec => []ListsMirror
<1>1. AllInOrder => ListsMirror
  BY DEF AllInOrder, InOrder, ListsMirror
<1>2. QED
  BY <1>1, AlwaysAllInOrder, PTL

\* No channel of users stands empty, on any server at any time.
THEOREM AlwaysPopulated == Spec => []UserChannelsPopulated
<1>1. AllInOrder => UserChannelsPopulated
  BY DEF AllInOrder, InOrder, Sound, UserChannelsPopulated
<1>2. QED
  BY <1>1, AlwaysAllInOrder, PTL

\* The operator flags of the members are always true to the operator list.
THEOREM AlwaysOpsMatch == Spec => []OpsMatch
<1>1. AllInOrder => OpsMatch
  BY DEF AllInOrder, InOrder, Sound, OpsMatch
<1>2. QED
  BY <1>1, AlwaysAllInOrder, PTL

\* A muzzled member never gets past check_permission(), since channel_voice() and
\* channel_muzzle() leave nobody with both flags.
THEOREM AlwaysSilent == Spec => []MuzzledAreSilent
<1>1. AllInOrder => MuzzledAreSilent
  BY DEF AllInOrder, InOrder, Sound, Exclusive, MuzzledAreSilent, MaySpeak
<1>2. QED
  BY <1>1, AlwaysAllInOrder, PTL

=============================================================================
