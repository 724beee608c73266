------------------------------- MODULE SdpGroups -------------------------------
(***************************************************************************)
(* Names and groups of media lines in an SDP agent: kmssdpgroupmanager.c,  *)
(* kmssdpmidext.c, kmssdpbasegroup.c, kmssdpbundlegroup.c and              *)
(* kmssdprejectmediahandler.c, with the parts of kmssdpagent.c that use    *)
(* them.  SdpAgent has the rest of the agent; here an offer or an answer   *)
(* is one step and the lines carry only what names and groups depend on.   *)
(*                                                                         *)
(* A line has a kind, a name (a=mid) and is on or off (port 0).  Our names *)
(* are the kind and a number; a peer may choose the same ones.  It keeps   *)
(* the names of the lines that exist and gives new lines new names.  There *)
(* is at most one group, the BUNDLE group.                                 *)
(***************************************************************************)
EXTENDS Integers, Sequences, FiniteSets, SequencesExt, FiniteSetsExt

CONSTANTS LineKinds,    \* media types
          MaxNumber,    \* bound: numbers in the names a peer chooses
          MaxLineHandlers,  \* bound: handlers of the agent
          MaxGroupOps   \* bound: operations in a run

VARIABLES
  bundle,      \* the agent has a BUNDLE group
  lineHandlers,\* the handlers, with their data of the group manager (MidExtData, groups)
  used_mids,   \* the list used_mids
  mids,        \* the next number for a kind
  agreed,      \* the lines agreed with the peer
  lastMade,    \* the description made by the last step or not answered yet, and the one it answers
  offerPending,\* an offer of ours is not answered yet
  cancelled,   \* an offer was cancelled
  groupOps

groupVars == <<bundle, lineHandlers, used_mids, mids, agreed, lastMade, offerPending, cancelled, groupOps>>

ASSUME GroupAssumption ==
  {MaxNumber, MaxLineHandlers, MaxGroupOps} \subseteq Nat /\ "none" \notin LineKinds

NoMid == <<"none", 0>>
Mid == LineKinds \X Nat
NamedLine == [kind : LineKinds, mid : Mid \cup {NoMid}, on : BOOLEAN]
GroupedLines == [lines : Seq(NamedLine), group : SUBSET Mid]
LineHandler ==
  [kind : LineKinds, mid : Mid \cup {NoMid}, line : Nat, negotiated : BOOLEAN,
   grouped : BOOLEAN, reject : BOOLEAN, removed : BOOLEAN]

NoLines == [lines |-> <<>>, group |-> {}]
NothingMade == [to |-> NoLines, new |-> 1, by |-> NoLines]
GroupStep == groupOps < MaxGroupOps /\ groupOps' = groupOps + 1
HandlersOf(hs, i) == {j \in DOMAIN hs : hs[j].line = i}

(* add_handler: a handler with its mid extension. *)
NewLineHandler(k, reject) ==
  [kind |-> k, mid |-> NoMid, line |-> 0, negotiated |-> FALSE, grouped |-> FALSE,
   reject |-> reject, removed |-> FALSE]

(* add_media_handler of the group; bundle_group_add_media_handler looks at handler->groups
   first, which nothing fills. *)
add_to_group(hs, j) == [hs EXCEPT ![j].grouped = TRUE]

(* remove_handler: out of the groups and of the tables; used_mids keeps the name. *)
remove_from_groups(hs, j) == [hs EXCEPT ![j].grouped = FALSE]

-----------------------------------------------------------------------------
(* A mutated form: a name taken from the peer is not entered in the list. *)
update_mid_unlisted(a, j, mid) == [a EXCEPT !.hs[j].mid = mid]

(* update_mid: the new name takes the place of the old one. *)
update_mid(a, j, mid) ==
  LET old == {i \in 1 .. Len(a.used) : a.used[i] = a.hs[j].mid}
      rest == IF old = {} THEN a.used ELSE RemoveAt(a.used, Min(old))
  IN  [a EXCEPT !.hs[j].mid = mid, !.used = Append(rest, mid)]

(* assign_mid: numbers go on until a name is free. *)
assign_mid(a, k) ==
  Min({n \in a.next[k] .. a.next[k] + Len(a.used) : ~Contains(a.used, <<k, n>>)})

(* on_offer_mid_cb: a handler keeps the name it has. *)
on_offer_mid(a, j) ==
  LET n == assign_mid(a, a.hs[j].kind)
  IN  IF a.hs[j].mid # NoMid THEN a
      ELSE [update_mid(a, j, <<a.hs[j].kind, n>>) EXCEPT !.next[a.hs[j].kind] = n + 1]

(* The mid extension in an offer: the line gets the name of its handler. *)
OfferName(a, j, line) ==
  LET b == on_offer_mid(a, j)
  IN  [b EXCEPT !.lines = Append(@, [line EXCEPT !.mid = b.hs[j].mid])]

(* on_answer_mid_cb: a handler that is negotiated must have the name already (NamesAgreed). *)
on_answer_mid(a, j, mid) == IF a.hs[j].negotiated THEN a ELSE update_mid(a, j, mid)

(* The mid extension in an answer: a line that was offered without a name gets none. *)
AnswerName(a, j, line) == IF line.mid = NoMid THEN a ELSE on_answer_mid(a, j, line.mid)

-----------------------------------------------------------------------------
(* add_handler of the endpoint: add_proto_handler and group_add. *)
AddLineHandler(k) ==
  LET added == Append(lineHandlers, NewLineHandler(k, FALSE))
  IN  /\ GroupStep /\ ~offerPending
      /\ Len(lineHandlers) < MaxLineHandlers
      /\ lineHandlers' = IF bundle THEN add_to_group(added, Len(added)) ELSE added
      /\ lastMade' = NothingMade
      /\ UNCHANGED <<bundle, used_mids, mids, agreed, offerPending, cancelled>>

(* remove_proto_handler *)
RemoveLineHandler(j) ==
  /\ GroupStep /\ ~offerPending
  /\ ~lineHandlers[j].removed /\ ~lineHandlers[j].reject
  /\ lineHandlers' = [remove_from_groups(lineHandlers, j) EXCEPT ![j].removed = TRUE]
  /\ lastMade' = NothingMade
  /\ UNCHANGED <<bundle, used_mids, mids, agreed, offerPending, cancelled>>

(* group_remove *)
RemoveFromGroup(j) ==
  /\ GroupStep /\ ~offerPending
  /\ lineHandlers[j].grouped
  /\ lineHandlers' = remove_from_groups(lineHandlers, j)
  /\ lastMade' = NothingMade
  /\ UNCHANGED <<bundle, used_mids, mids, agreed, offerPending, cancelled>>

(* append_enabled_medias for all the handlers of the group: the names of their lines that
   are on, and among the names of the filter. *)
GroupOf(hs, lines, filter) ==
  {lines[i].mid : i \in {i \in DOMAIN lines :
     /\ lines[i].on /\ lines[i].mid # NoMid /\ lines[i].mid \in filter
     /\ \E j \in HandlersOf(hs, i) : hs[j].grouped}}

AllNames(lines) == {lines[i].mid : i \in DOMAIN lines}

(* base_group_add_offer_attributes and base_group_add_answer_attributes *)
OfferedGroup(hs, lines) == IF bundle THEN GroupOf(hs, lines, AllNames(lines)) ELSE {}
AnsweredGroup(hs, lines, offered) == IF bundle THEN GroupOf(hs, lines, offered) ELSE {}

(* reject_sdp_media, or the reject handler: the line as offered, with port 0. *)
RejectLine(line) == [line EXCEPT !.on = FALSE]

-----------------------------------------------------------------------------
(* create_proper_media_offer for a handler that has no line yet: the next line is its own. *)
OfferFirst(a, j) ==
  IF a.hs[j].line # 0 \/ a.hs[j].removed THEN a
  ELSE OfferName([a EXCEPT !.hs[j].line = Len(a.lines) + 1], j,
                 [kind |-> a.hs[j].kind, mid |-> NoMid, on |-> TRUE])

(* merge_offer_handlers lets go of the handler of line i, with its name and its group. *)
LetGo(hs, i) ==
  [j \in 1 .. Len(hs) |->
     IF hs[j].line = i THEN [NewLineHandler(hs[j].kind, hs[j].reject) EXCEPT !.removed = TRUE]
     ELSE hs[j]]

(* A line that exists.  If its handler was removed or refuses it, the first handler that has
   no line takes its place (merge_offer_handlers).  A line that stays refused keeps its name,
   any other gets the one of its handler (create_proper_media_offer). *)
OfferAgain(a, line) ==
  LET n == Len(a.lines) + 1
      here == {j \in HandlersOf(a.hs, n) : ~a.hs[j].removed /\ ~a.hs[j].reject}
      free == {j \in 1 .. Len(a.hs) : a.hs[j].line = 0 /\ ~a.hs[j].removed}
  IN  CASE here = {} /\ free # {} -> OfferFirst([a EXCEPT !.hs = LetGo(a.hs, n)], Min(free))
        [] here # {} /\ line.on   -> OfferName(a, CHOOSE j \in here : TRUE, line)
        [] OTHER                  -> [a EXCEPT !.lines = Append(@, RejectLine(line))]

(* The lines that exist, in order. *)
OfferLines(a, lines) ==
  LET upTo[n \in 0 .. Len(lines)] ==
        IF n = 0 THEN a ELSE OfferAgain(upTo[n - 1], lines[n])
  IN  upTo[Len(lines)]

(* The handlers that have no line, in order. *)
OfferHandlers(a) ==
  LET upTo[n \in 0 .. Len(a.hs)] == IF n = 0 THEN a ELSE OfferFirst(upTo[n - 1], n)
  IN  upTo[Len(a.hs)]

(* An offer: the lines that exist, then one for every other handler;
   base_group_add_offer_attributes. *)
MakeGroupOffer ==
  LET start == [hs |-> lineHandlers, used |-> used_mids, next |-> mids, lines |-> <<>>]
      end == OfferHandlers(OfferLines(start, agreed))
  IN  /\ GroupStep /\ ~offerPending
      /\ end.lines # <<>>
      /\ lineHandlers' = end.hs /\ used_mids' = end.used /\ mids' = end.next
      /\ lastMade' = [to |-> NoLines, new |-> Len(agreed) + 1, by |-> [lines |-> end.lines,
                  group |-> OfferedGroup(end.hs, end.lines)]]
      /\ offerPending' = TRUE
      /\ UNCHANGED <<bundle, agreed, cancelled>>

(* The answer to it: the handlers are negotiated. *)
AnswerComes(off) ==
  /\ GroupStep /\ offerPending
  /\ agreed' = [i \in DOMAIN lastMade.by.lines |-> [lastMade.by.lines[i] EXCEPT !.on = @ /\ i \notin off]]
  /\ lineHandlers' = [j \in DOMAIN lineHandlers |->
       [lineHandlers[j] EXCEPT !.negotiated = @ \/ lineHandlers[j].line # 0]]
  /\ offerPending' = FALSE
  /\ lastMade' = NothingMade
  /\ UNCHANGED <<bundle, used_mids, mids, cancelled>>

(* cancel_offer before anything is agreed: no handler has a line, and they keep their names.
   A later offer that is cancelled leaves its handlers in the list of lines, as in SdpAgent;
   here only the first one may be. *)
CancelGroupOffer ==
  /\ GroupStep /\ offerPending /\ agreed = <<>>
  /\ lineHandlers' = [j \in DOMAIN lineHandlers |-> [lineHandlers[j] EXCEPT !.line = 0]]
  /\ offerPending' = FALSE /\ cancelled' = TRUE
  /\ lastMade' = NothingMade
  /\ UNCHANGED <<bundle, used_mids, mids, agreed>>

-----------------------------------------------------------------------------
(* is_handler_valid_for_groups *)
ValidForGroups(h, line, group) ==
  IF line.mid = NoMid THEN ~h.grouped ELSE h.grouped <=> line.mid \in group

(* set_handler_group: a handler made for a line goes into the group if the line is in it. *)
set_handler_group(hs, j, line, group) ==
  IF bundle /\ line.mid \in group THEN add_to_group(hs, j) ELSE hs

(* get_handler_for_media: the first free handler that suits, else a new one, else one that
   rejects the line. *)
HandlerFor(hs, line, group, supply) ==
  LET suits == {j \in 1 .. Len(hs) : /\ hs[j].line = 0 /\ ~hs[j].removed
                                     /\ hs[j].kind = line.kind
                                     /\ ValidForGroups(hs[j], line, group)}
      new == Append(hs, NewLineHandler(line.kind, ~supply))
  IN  IF suits # {} THEN [sel |-> Min(suits), hs |-> hs]
      ELSE [sel |-> Len(new),
            hs  |-> IF supply THEN set_handler_group(new, Len(new), line, group) ELSE new]

(* A new line of the peer: its handler takes the name, and accepts or refuses the line. *)
AnswerLine(a, line, group, supply) ==
  LET for == HandlerFor(a.hs, line, group, supply)
      b == AnswerName([a EXCEPT !.hs = [for.hs EXCEPT ![for.sel].line = Len(a.lines) + 1]],
                      for.sel, line)
  IN  [b EXCEPT !.lines = Append(@, IF b.hs[for.sel].reject THEN RejectLine(line) ELSE line),
                !.hs[for.sel].negotiated = TRUE]

(* An offer of the peer and the answer to it: the lines that exist, some switched off, and
   possibly a new one; base_group_add_answer_attributes.  A peer does not offer a line again
   whose handler was removed: that handler would answer once more, and from then on fail, as
   nobody listens to the signals of its mid extension any more. *)
PeerGroupOffer(off, new, group, supply) ==
  LET old == [i \in DOMAIN agreed |-> [agreed[i] EXCEPT !.on = @ /\ i \notin off]]
      offer == old \o new
      start == [hs |-> lineHandlers, used |-> used_mids, next |-> mids, lines |-> old]
      end == IF new = <<>> THEN start ELSE AnswerLine(start, new[1], group, supply)
  IN  /\ GroupStep /\ ~offerPending
      /\ Len(lineHandlers) + Len(new) <= MaxLineHandlers
      /\ offer # <<>>
      /\ \A i \in DOMAIN old : old[i].on =>
           \A j \in HandlersOf(lineHandlers, i) : ~lineHandlers[j].removed
      /\ \A i, j \in DOMAIN offer : (i # j /\ i > Len(old)) => (offer[i].mid # offer[j].mid
                                                                 \/ offer[i].mid = NoMid)
      /\ lineHandlers' = end.hs /\ used_mids' = end.used
      /\ agreed' = end.lines
      /\ lastMade' = [to |-> [lines |-> offer, group |-> group], new |-> Len(old) + 1,
                  by |-> [lines |-> end.lines,
                          group |-> AnsweredGroup(end.hs, end.lines, group)]]
      /\ UNCHANGED <<bundle, mids, offerPending, cancelled>>

(* The lines a peer may add, one in an offer, the lines it switches off, and its groups:
   none, the lines that exist, or these and the new one. *)
PeerNew == {<<>>} \cup {<<l>> : l \in [kind : LineKinds, on : {TRUE},
                                      mid : (LineKinds \X (0..MaxNumber)) \cup {NoMid}]}
SwitchedOff(lines) == {{}} \cup {{i} : i \in DOMAIN lines}
PeerGroups(old, new) == {{}, AllNames(old) \ {NoMid}, AllNames(old \o new) \ {NoMid}}

GroupInit ==
  /\ bundle \in BOOLEAN
  /\ lineHandlers = <<>> /\ used_mids = <<>> /\ mids = [k \in LineKinds |-> 0]
  /\ agreed = <<>> /\ lastMade = NothingMade
  /\ offerPending = FALSE /\ cancelled = FALSE
  /\ groupOps = 0

GroupNext ==
  \/ \E k \in LineKinds : AddLineHandler(k)
  \/ \E j \in DOMAIN lineHandlers : RemoveLineHandler(j) \/ RemoveFromGroup(j)
  \/ MakeGroupOffer \/ CancelGroupOffer
  \/ \E off \in SwitchedOff(lastMade.by.lines) : AnswerComes(off)
  \/ \E off \in SwitchedOff(agreed), new \in PeerNew, supply \in BOOLEAN :
       \E group \in PeerGroups(agreed, new) : PeerGroupOffer(off, new, group, supply)

GroupSpec == GroupInit /\ [][GroupNext]_groupVars

-----------------------------------------------------------------------------
GroupTypeOK ==
  /\ bundle \in BOOLEAN /\ offerPending \in BOOLEAN /\ cancelled \in BOOLEAN
  /\ lineHandlers \in Seq(LineHandler) /\ Len(lineHandlers) \in 0 .. MaxLineHandlers
  /\ used_mids \in Seq(Mid) /\ mids \in [LineKinds -> Nat]
  /\ agreed \in Seq(NamedLine)
  /\ lastMade \in [to : GroupedLines, new : Nat, by : GroupedLines]
  /\ groupOps \in 0 .. MaxGroupOps

(* The lines of a description have names of their own, whoever named them first, as long as
   no offer was cancelled: on_offer_mid_cb of a handler whose offer was cancelled gives the
   old name again, without looking whether a peer has used it meanwhile. *)
NamesDiffer ==
  ~cancelled => \A i, j \in DOMAIN lastMade.by.lines :
    (i # j /\ lastMade.by.lines[i].mid # NoMid) => lastMade.by.lines[i].mid # lastMade.by.lines[j].mid

(* A handler that has a line keeps the name the line was agreed with. *)
NamesAgreed ==
  \A j \in DOMAIN lineHandlers : (lineHandlers[j].negotiated /\ ~lineHandlers[j].removed) =>
    agreed[lineHandlers[j].line].mid \in {NoMid, lineHandlers[j].mid}

(* An answer groups only lines that were offered in the group and are accepted, and all
   the new ones of those, so that both sides put them on the same transport.  Once an offer
   was cancelled two lines may have one name, as said above, and an accepted one of them
   then brings the other, refused one into the group. *)
GroupsMatch ==
  lastMade.to # NoLines =>
    /\ lastMade.by.group \subseteq lastMade.to.group
    /\ ~cancelled => \A i \in DOMAIN lastMade.by.lines :
         lastMade.by.lines[i].mid \in lastMade.by.group => lastMade.by.lines[i].on
    /\ bundle => \A i \in lastMade.new..Len(lastMade.by.lines) :
         (lastMade.by.lines[i].on /\ lastMade.by.lines[i].mid \in lastMade.to.group)
           => lastMade.by.lines[i].mid \in lastMade.by.group

(* Names and groups of lines are understood by both sides (assign_mid, update_mid,
   on_answer_mid_cb, is_handler_valid_for_groups and append_enabled_medias). *)
LinesNamed == NamesDiffer /\ NamesAgreed /\ GroupsMatch
=============================================================================
