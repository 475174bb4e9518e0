------------------------------ MODULE Pictures ------------------------------
(***************************************************************************)
(* A picture or a clip on its way into a prompt: the expansion of its      *)
(* placeholder (encode_pending_image and encode_pending_video of crates/   *)
(* server/src/scheduler.rs), the sizes of crates/model/src/qwen35_vision.rs,*)
(* and the passes of forward_batch_rows that put the picture's features    *)
(* over the placeholders, a chunk of the prompt at a time and beside other *)
(* rows, each token at its three-axis position (time, height, width).      *)
(*                                                                         *)
(* A feature is the place it was computed from: whose picture, which group *)
(* of frames, which block of patches. Frames are told apart by their looks;*)
(* square roots are exact. How long a chunk is depends on the other rows   *)
(* (module Scheduler): here a pass takes any.                              *)
(***************************************************************************)
EXTENDS Integers, FiniteSetsExt, SequencesExt

CONSTANTS
  PictureRows,    \* rows that run, one request each
  PictureAsks,    \* what a request may ask: [kind, prompt, h, w, frames]
  Patch, Merge,   \* pixels of a patch, patches of a block, along an edge
  TemporalPatch,  \* frames in a group
  Ratio,          \* the longest edge a picture may have, in shortest ones
  MaxPatches,     \* --vision-max-patches
  DropRedundant,  \* whether groups of frames that look alike are dropped
  MaxContext,     \* tokens a row can hold
  PassTokens      \* tokens a pass can carry

VARIABLES
  wish,      \* history: what each row was asked, or None
  seat,      \* Running, of the rows that were admitted
  embedded,  \* device memory: per row, what each token was embedded as and where
  broken     \* whether a pass was refused

picturevars == << wish, seat, embedded, broken >>

Tok(what) == << what, 0 >>
Stamp(group) == << "seconds", group >>
ImagePad == Tok("image_pad")
VideoPad == Tok("video_pad")
PadOf(ask) == IF ask.kind = "video" THEN VideoPad ELSE ImagePad

NoSeat == [ prompt |-> << >>, features |-> << >>, held |-> FALSE, had_vision |-> FALSE,
            pad |-> Tok("none"), grid |-> << 0, 0 >>, groups |-> << >>, mrope |-> << >>,
            delta |-> 0, running |-> FALSE ]

PictureInit ==
  /\ wish = [r \in PictureRows |-> "none"]
  /\ seat = [r \in PictureRows |-> NoSeat]
  /\ embedded = [r \in PictureRows |-> << >>]
  /\ broken = FALSE

-----------------------------------------------------------------------------
(* smart_resize: both edges to whole blocks, within the pixels allowed.     *)
Longer(a, b) == IF a >= b THEN a ELSE b
RoundHalfEven(n, f) ==
  LET whole == n \div f  rest == 2 * (n % f)
  IN  IF rest < f \/ (rest = f /\ whole % 2 = 0) THEN whole ELSE whole + 1
(* The blocks along edge a, beside b, if the picture had `pixels`. *)
Shrunk(a, b, pixels, f) == Max({ n \in 0 .. a : n * n * f * f * b <= a * pixels })
Grown(a, b, pixels, f) == Min({ n \in 0 .. a + pixels : n * n * f * f * b >= a * pixels })
TooThin(h, w) == Longer(h, w) > Ratio * (IF h <= w THEN h ELSE w)
SmartResize(h, w, least, most) ==
  LET f == Patch * Merge
      rows == RoundHalfEven(h, f)  cols == RoundHalfEven(w, f)
  IN  IF rows * cols * f * f > most
      THEN << f * Longer(1, Shrunk(h, w, most, f)), f * Longer(1, Shrunk(w, h, most, f)) >>
      ELSE IF rows * cols * f * f < least
      THEN << f * Grown(h, w, least, f), f * Grown(w, h, least, f) >>
      ELSE << f * rows, f * cols >>

(* video_resize_budget: a clip's groups of frames share the budget. *)
GroupsOf(frames) == (frames + TemporalPatch - 1) \div TemporalPatch
GroupBudget(frames, budget) == budget \div GroupsOf(frames)

NoSize == [ok |-> FALSE, groups |-> 0, grid |-> << 0, 0 >>, run |-> 0]
SizeFor(h, w, groups, budget) ==
  LET size == SmartResize(h, w, Patch * Patch * Merge * Merge, budget * Patch * Patch)
      grid == << size[1] \div Patch, size[2] \div Patch >>
  IN  IF TooThin(h, w) THEN NoSize
      ELSE [ ok |-> TRUE, groups |-> groups, grid |-> grid,
             run |-> (grid[1] * grid[2]) \div (Merge * Merge) ]
(* vision_resize and vision_resize_video. *)
ImageSize(ask) == SizeFor(ask.h, ask.w, 1, MaxPatches)
ClipSize(ask, frames, budget) ==
  IF frames = 0 \/ GroupBudget(frames, budget) < Merge * Merge THEN NoSize
  ELSE SizeFor(ask.h, ask.w, GroupsOf(frames), GroupBudget(frames, budget))

(* drop_redundant_groups: a group stays if it does not look like the last   *)
(* one that stayed. The first frame of a group stands for a missing second. *)
GroupLooks(frames, g) ==
  << frames[2 * g - 1], IF 2 * g <= Len(frames) THEN frames[2 * g] ELSE frames[2 * g - 1] >>
Differs(frames, g, last) == GroupLooks(frames, g) # GroupLooks(frames, last)
KeptGroups(frames) ==
  FoldLeft(LAMBDA kept, g :
             IF kept = << >> \/ Differs(frames, g, kept[Len(kept)]) THEN Append(kept, g) ELSE kept,
           << >>, [g \in 1 .. GroupsOf(Len(frames)) |-> g])

(* The groups a clip is encoded with, and how many frames that makes. *)
ClipGroups(ask) ==
  IF DropRedundant THEN KeptGroups(ask.frames) ELSE [g \in 1 .. GroupsOf(Len(ask.frames)) |-> g]
ClipFrames(ask) ==
  IF DropRedundant THEN 2 * Len(ClipGroups(ask)) ELSE Len(ask.frames)

Pads(n, pad) == [i \in 1 .. n |-> pad]
(* What stands for the placeholder: per group its time and its own run. *)
Replacement(ask, groups, size) ==
  IF ask.kind = "image" THEN Pads(size.run, ImagePad)
  ELSE FlattenSeq([ i \in DOMAIN groups |->
         << Stamp(groups[i]), Tok("vision_start") >> \o Pads(size.run, VideoPad)
           \o << Tok("vision_end") >> ])

(* Up to four budgets, each half of the one before, until the prompt fits. *)
Rest(ask) == Len(ask.prompt) - 1
FitsContext(ask, groups, size) ==
  Rest(ask) + Len(Replacement(ask, groups, size)) <= MaxContext
Budgets == << MaxPatches, MaxPatches \div 2, MaxPatches \div 4, MaxPatches \div 8 >>
Attempt(ask, n) == ClipSize(ask, ClipFrames(ask), Budgets[n])
FinalSize(ask) ==
  IF ask.kind = "image" THEN ImageSize(ask)
  ELSE LET stops == { n \in 1 .. 4 : ~Attempt(ask, n).ok
                        \/ FitsContext(ask, ClipGroups(ask), Attempt(ask, n)) }
       IN  Attempt(ask, IF stops = {} THEN 4 ELSE Min(stops))

(* encode_clip: the tower's scratch has room for MaxPatches. *)
FitsTower(size) == size.groups * size.grid[1] * size.grid[2] <= MaxPatches
Wrapped(ask) ==
  \E i \in 2 .. Len(ask.prompt) - 1 :
    SubSeq(ask.prompt, i - 1, i + 1) = << Tok("vision_start"), VideoPad, Tok("vision_end") >>
Encodable(ask, groups, size) ==
  /\ Len(SelectSeq(ask.prompt, LAMBDA t : t = PadOf(ask))) = 1
  /\ ask.kind = "video" => Wrapped(ask)
  /\ size.ok /\ FitsContext(ask, groups, size) /\ FitsTower(size)

(* patch_row_col: patches come block by block, so that the merger's feature *)
(* k is made of the Merge * Merge patches of one block.                     *)
PatchRowCol(p, grid) ==
  LET across == grid[2] \div Merge
  IN  << (p \div (Merge * Merge * across)) * Merge + ((p \div Merge) % Merge),
         ((p \div (Merge * Merge)) % across) * Merge + (p % Merge) >>
Pixels(r, group, k, grid) ==
  LET at == PatchRowCol(Merge * Merge * k, grid)
  IN  << "pixels", r, group, at[1] \div Merge, at[2] \div Merge >>
Features(r, groups, size) ==
  FlattenSeq([ i \in DOMAIN groups |->
    [ k \in 1 .. size.run |-> Pixels(r, groups[i], k - 1, size.grid) ] ])

(* llm_position_ids: text advances by one a token, a visual run lays its    *)
(* tokens out over its grid and advances by the longer edge of it.          *)
Positions(prompt, pad, grid) ==
  LET down == grid[1] \div Merge  across == grid[2] \div Merge
      Lay(st, t) ==
        IF t # pad
        THEN [ st EXCEPT !.next = @ + 1, !.out = Append(@, << st.next, st.next, st.next >>) ]
        ELSE [ next |-> IF st.k + 1 = down * across THEN st.next + Longer(down, across) ELSE st.next,
               k    |-> (st.k + 1) % (down * across),
               out  |-> Append(st.out, << st.next, st.next + (st.k \div across),
                                          st.next + (st.k % across) >>) ]
  IN  FoldLeft(Lay, [next |-> 0, k |-> 0, out |-> << >>], prompt).out

(* mrope_from_grids: what a running length has to be moved by afterwards. *)
DeltaOf(mrope) ==
  Max({ mrope[i][axis] : i \in DOMAIN mrope, axis \in 1 .. 3 }) + 1 - Len(mrope)

(* encode_pending_*, and what admit keeps of it. *)
Expanded(ask, groups, size) ==
  ReplaceSubSeqAt(SelectInSeq(ask.prompt, LAMBDA t : t = PadOf(ask)), Replacement(ask, groups, size),
                  << PadOf(ask) >>, ask.prompt)
Seated(r, ask, groups, size) ==
  LET prompt == Expanded(ask, groups, size)
      mrope  == Positions(prompt, PadOf(ask), size.grid)
  IN  [ prompt |-> prompt, features |-> Features(r, groups, size), held |-> TRUE,
        had_vision |-> TRUE, pad |-> PadOf(ask), grid |-> size.grid, groups |-> groups,
        mrope |-> mrope, delta |-> DeltaOf(mrope), running |-> TRUE ]
SeatedText(ask) == [NoSeat EXCEPT !.prompt = ask.prompt, !.running = TRUE]

Seat(r) ==
  /\ wish[r] = "none"
  /\ \E name \in DOMAIN PictureAsks :
       LET ask == PictureAsks[name]
           groups == IF ask.kind = "video" THEN ClipGroups(ask) ELSE << 1 >>
           size == FinalSize(ask)
           row == IF ask.kind = "text" THEN SeatedText(ask) ELSE Seated(r, ask, groups, size)
       IN  /\ wish' = [wish EXCEPT ![r] = name]
           /\ IF ask.kind # "text" /\ ~Encodable(ask, groups, size)
              THEN seat' = seat
              ELSE seat' = [seat EXCEPT ![r] = IF Len(row.prompt) + 1 <= MaxContext THEN row ELSE NoSeat]
  /\ UNCHANGED << embedded, broken >>

-----------------------------------------------------------------------------
Fed(r) == Len(embedded[r])
InPrompt(r) == Fed(r) < Len(seat[r].prompt)
CountPads(r, n) == Len(SelectSeq(SubSeq(seat[r].prompt, 1, n), LAMBDA t : t = seat[r].pad))

(* Mutant of RowOffset: how far behind the first placeholder a chunk starts, *)
(* instead of how many placeholders lie before it.                          *)
RowOffsetByIndex(r) ==
  LET at == SelectInSeq(seat[r].prompt, LAMBDA t : t = seat[r].pad)
  IN  Longer(0, Fed(r) - (at - 1))
(* vision_row_offset: the features that earlier chunks used. *)
RowOffset(r) == CountPads(r, Fed(r))

(* A row's part in a pass: a chunk of its prompt, or a token it chose. *)
PictureItem(r, n) ==
  [ row |-> r, decode |-> ~InPrompt(r),
    tokens |-> IF InPrompt(r) THEN SubSeq(seat[r].prompt, Fed(r) + 1, Fed(r) + n) ELSE << Tok("chosen") >>,
    mrope |-> IF InPrompt(r) /\ seat[r].mrope # << >> THEN SubSeq(seat[r].mrope, Fed(r) + 1, Fed(r) + n)
              ELSE << >>,
    offset |-> IF InPrompt(r) /\ seat[r].held THEN RowOffset(r) ELSE 0 ]
ItemSizes(r) == IF InPrompt(r) THEN 1 .. Len(seat[r].prompt) - Fed(r) ELSE {1}

(* vision_targets: the placeholders of an item, by their place in it. *)
Targets(item) ==
  SelectSeq([i \in DOMAIN item.tokens |-> i], LAMBDA i : item.tokens[i] \in {ImagePad, VideoPad})
Splices(item) == seat[item.row].held /\ ~item.decode /\ Targets(item) # << >>
CanSplice(item) ==
  Splices(item) => item.offset + Len(Targets(item)) <= Len(seat[item.row].features)

(* forward_batch_rows: the pass is laid out flat, its tokens are embedded,  *)
(* and the features written over the rows of each item's placeholders.      *)
Base(pass, i) == FoldLeft(LAMBDA n, item : n + Len(item.tokens), 0, SubSeq(pass, 1, i - 1))
Gathered(pass) == FlattenSeq([i \in DOMAIN pass |-> pass[i].tokens])
Spliced(x, base, item) ==
  IF ~Splices(item) THEN x
  ELSE [ n \in DOMAIN x |->
           LET hits == { j \in DOMAIN Targets(item) : base + Targets(item)[j] = n }
           IN  IF hits = {} THEN x[n]
               ELSE seat[item.row].features[item.offset + CHOOSE j \in hits : TRUE] ]
Embeddings(pass) ==
  FoldLeft(LAMBDA x, i : Spliced(x, Base(pass, i), pass[i]), Gathered(pass), [i \in DOMAIN pass |-> i])
RopeOf(item) ==
  IF item.mrope # << >> THEN item.mrope
  ELSE [ k \in DOMAIN item.tokens |->
           LET p == Fed(item.row) + k - 1 + seat[item.row].delta IN << p, p, p >> ]
Added(pass, x, i) ==
  [ k \in DOMAIN pass[i].tokens |-> [ as |-> x[Base(pass, i) + k], at |-> RopeOf(pass[i])[k] ] ]

(* The features go when the last placeholder has been fed. *)
StillHeld(r, fed) == seat[r].held /\ CountPads(r, fed) < Len(seat[r].features)

RunPass(pass) ==
  LET mine(r) == { i \in DOMAIN pass : pass[i].row = r }
      fits == \A i \in DOMAIN pass : CanSplice(pass[i])
      x == Embeddings(pass)
  IN  /\ broken' = ~fits
      /\ embedded' = [ r \in PictureRows |->
           IF ~fits \/ mine(r) = {} THEN embedded[r]
           ELSE embedded[r] \o Added(pass, x, CHOOSE i \in mine(r) : TRUE) ]
      /\ seat' = [ r \in PictureRows |->
           IF ~fits \/ mine(r) = {} THEN seat[r]
           ELSE [ seat[r] EXCEPT !.held = StillHeld(r, Len(embedded'[r])) ] ]
      /\ UNCHANGED wish

CanRun(r) == seat[r].running /\ Fed(r) < MaxContext
PicturePass ==
  /\ ~broken
  /\ \E order \in SetToAllKPermutations({ r \in PictureRows : CanRun(r) }) \ {<< >>} :
     \E n \in [PictureRows -> 1 .. PassTokens] :
       /\ \A r \in PictureRows \ ToSet(order) : n[r] = 1
       /\ \A i \in DOMAIN order : n[order[i]] \in ItemSizes(order[i])
       /\ FoldLeft(LAMBDA sum, r : sum + n[r], 0, order) <= PassTokens
       /\ RunPass([i \in DOMAIN order |-> PictureItem(order[i], n[order[i]])])

PictureNext == PicturePass \/ \E r \in PictureRows : Seat(r)
PictureSpec == PictureInit /\ [][PictureNext]_picturevars

-----------------------------------------------------------------------------
(* What token i of a row has to be embedded as, and where, in the words of  *)
(* the picture: of the placeholders before it, every Area filled one group; *)
(* a block's place in time and space is its place in the group.             *)
Sentence(r) == seat[r].prompt \o Pads(Longer(0, Fed(r) - Len(seat[r].prompt)), Tok("chosen"))
Down(r) == seat[r].grid[1] \div Merge
Across(r) == seat[r].grid[2] \div Merge
PadsBefore(r, i) == Cardinality({ j \in 1 .. i - 1 : Sentence(r)[j] = seat[r].pad })
Origin(r, i) ==
  IF ~seat[r].had_vision THEN i - 1
  ELSE LET n == PadsBefore(r, i)  filled == n \div (Down(r) * Across(r))
       IN  (i - 1 - n) + filled * Longer(Down(r), Across(r))
Due(r, i) ==
  LET t == Sentence(r)[i]  from == Origin(r, i)
  IN  IF ~seat[r].had_vision \/ t # seat[r].pad
      THEN [ as |-> t, at |-> << from, from, from >> ]
      ELSE LET n == PadsBefore(r, i)  area == Down(r) * Across(r)
               down == (n % area) \div Across(r)  across == n % Across(r)
           IN  [ as |-> << "pixels", r, seat[r].groups[(n \div area) + 1], down, across >>,
                 at |-> << from, from + down, from + across >> ]

(* However a prompt is cut into chunks and whatever shares its passes, every *)
(* placeholder of a row is embedded as the block of its own picture that is  *)
(* due there, at that block's place in time and space, every other token as  *)
(* itself, and what the row generates goes on from there. No pass is refused.*)
PicturesInPlace ==
  /\ ~broken
  /\ \A r \in PictureRows : seat[r].running =>
       \A i \in 1 .. Fed(r) : embedded[r][i] = Due(r, i)

=============================================================================
