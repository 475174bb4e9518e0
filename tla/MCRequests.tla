----------------------------- MODULE MCRequests -----------------------------
(***************************************************************************)
(* The small components a request passes through, or is served by, beside   *)
(* the scheduler. They share no state, so they are explored one at a time:  *)
(* `part` says which one moves.                                            *)
(***************************************************************************)
EXTENDS RateLimiter, Reply, JsonGrammar, Branches, Pictures, Tokenizer,
        DecodeGraphs

VARIABLE part
others == << limiter, replyvars, jsonvars, branchvars, picturevars, tokenizervars, graphvars >>

-----------------------------------------------------------------------------
(* Two callers of one address, and one with an exempt token. *)
MCKeys == {"address", "token"}
MCBearer == "c1" :> None @@ "c2" :> None @@ "c3" :> "token"
MCPeer == [c \in {"c1", "c2", "c3"} |-> "address"]

(* Replies whose characters and stop strings tokens can split anywhere, and  *)
(* texts with tool calls that are whole, cut short, nested or only alike.   *)
MCWords == { << "a", "b", "a", "a", "b" >>, << "b", "a", "C3", "A9", "b" >>,
             << "a", "C3", "A9", "a", "C3" >>, << "a", "b", "C3", "A9" >>,
             << "a", "A9", "a", "b", "C3", "b" >> }
MCStopSets == { {}, {<< "a", "b" >>}, {<< "a", "a", "b" >>, << "b" >>, << >>},
                {<< "a", "C3A9", "b" >>, << "b", "C3A9" >>} }
CallOf(name, params) == << "<tool", "_call>", "<function=", name, ">" >> \o params \o << "</function>", "</tool_call>" >>
ParamOf(name, raw) == << "<parameter=", name, ">" >> \o raw \o << "</parameter>" >>
MCTexts == {
  << "a", "<tool" >>, << "<tool", "a", "<tool", "_call>", "a" >>,
  << " ", "a", " ", "<tool", "_call>", " ", "<function=", "f", ">", "</function>", "</tool_call>", "b" >>,
  CallOf("f", ParamOf("p", << " ", "1" >>) \o ParamOf("p", << "1", "1" >>) \o << " " >>),
  CallOf("f", << >>) \o << "<tool", "_call>", "<function=", "g", ">", "</function>" >>,
  CallOf("f", ParamOf("p", << "<tool", "_call>" >>)) \o << " " >> \o CallOf("g", << >>) }
MCReplies ==
  { [bytes |-> w, stop |-> s, max_tokens |-> n, tools |-> FALSE, types |-> << >>, stream |-> TRUE] :
      w \in MCWords, s \in MCStopSets, n \in {3, 9} }
  \cup { [bytes |-> w, stop |-> s, max_tokens |-> 22, tools |-> TRUE,
          types |-> (<< << "f" >>, << "p" >> >> :> "integer"), stream |-> b] :
      w \in MCTexts, s \in { {}, {<< "_call>", "a" >>} }, b \in BOOLEAN }

(* Schemas with every type; one name begins another; tokens of several bytes,*)
(* of none, and of more than one part of the grammar.                       *)
A == << "a" >>
AB == << "a", "b" >>
JsonJob(schema, max_tokens, prompt) == [schema |-> schema, max_tokens |-> max_tokens, prompt |-> prompt]
MCJobs ==
  { JsonJob(ObjectOf(<< Property(A, Typed("integer")), Property(AB, Typed("boolean")) >>, {A}), 11, 1),
    JsonJob(ObjectOf(<< Property(A, ArrayOf(Typed("number"))), Property(AB, ObjectOf(<< >>, {})) >>, {AB}), 10, 1),
    JsonJob(ArrayOf(ObjectOf(<< Property(A, EnumOf({A, AB, << "b", "a" >>})) >>, {})), 8, 1),
    JsonJob(Typed("any"), 4, 1) }
  \cup { JsonJob(Typed("number"), 5, prompt) : prompt \in {0, 1, 9, 13} }
MCBytes == { "{", "}", Control, "[", "]", Quote, Backslash, ",", ":", "-", ".", "0", "1", " ",
             "a", "b", "t", "f", "rue", "alse" }
MCVocabulary == { << b >> : b \in MCBytes }
  \cup { << Quote, ":" >>, << ",", Quote >>, << "{", Quote >>, << "1", "," >>, << "}", "]" >>,
         << "t", "rue", "}" >>, << "]", "}" >>, << >> }
Member(name, value) == Quoted(name) \o << ":" >> \o value
MCSamples ==
  { << "{" >> \o Member(A, << "1" >>) \o << "," >> \o Member(AB, << "t", "rue" >>) \o << "}" >>,
    << "{" >> \o Member(AB, << "f", "alse" >>) \o << "," >> \o Member(A, << "-", "1", "0" >>) \o << "}" >>,
    << " ", "{" >> \o Member(A, << "[", "0", ".", "0", "1", ",", "1", "]" >>) \o << "," >>
      \o Member(AB, << "{", "}" >>) \o << "}" >>,
    << "[", "{", "}", ",", "{" >> \o Member(A, Quoted(AB)) \o << "}", "]" >>,
    << "[", " ", "]" >>, << Quote, "a", Backslash, Quote, "}", Quote >>,
    << "-", "0", ".", "1" >>, << "1", "0", "1" >> }

(* Texts that share a pass, need several or fit none; questions with up to   *)
(* two options.                                                             *)
W(n) == [i \in 1 .. n |-> << "a", "b", "c", "d", "e", "f" >>[i]]
Y(n) == [i \in 1 .. n |-> << "t", "u", "v", "w", "x", "y", "z" >>[i]]
Asked(instr, options) == [instr |-> instr, options |-> options]
BranchJob(kind, prefix, texts) ==
  [kind |-> kind, texts |-> texts, prefix |-> prefix, suffix |-> IF kind = "rerank" THEN << "z" >> ELSE << >>]
UpTo(n, texts) == UNION { [1 .. k -> texts] : k \in 0 .. n }
MCQuestions == { Asked(<< >>, << >>), Asked(Y(1), << W(0), W(1) >>), Asked(Y(1), << W(0) >>), Asked(W(3), << W(2) >>) }
MCBranchJobs ==
  { BranchJob("embed", << >>, texts) : texts \in UpTo(3, {W(0), W(1), Y(2), W(3), Y(7)}) }
  \cup { BranchJob("embed", << >>, [i \in 1 .. n |-> W(1)]) : n \in {4, 5} }
  \cup { BranchJob("rerank", << "p" >>, texts) : texts \in UpTo(3, {W(1), Y(2), W(3)}) }
  \cup { BranchJob("decide", state, texts) : state \in {W(0), W(2), W(6)}, texts \in UpTo(3, MCQuestions) }
MCSlots == 1 .. 30
MCTokenIds == { "<state>", "<q>", "<opt>", "</opt>", "<decide>", "p", "z" }
  \cup { W(6)[i] : i \in 1 .. 6 } \cup { Y(7)[i] : i \in 1 .. 7 }

(* Pictures that are wide, tall, smaller than a block, or too thin, one that *)
(* leaves no room for its prompt, and clips: with groups that look alike,    *)
(* with an odd frame, with a run that has to shrink to fit.                  *)
Words(n) == [i \in 1 .. n |-> Tok("word")]
Framed(pad) == << Tok("vision_start"), pad, Tok("vision_end") >>
PictureAsk(kind, prompt, h, w, frames) ==
  [kind |-> kind, prompt |-> prompt, h |-> h, w |-> w, frames |-> frames]
Picture(n, h, w) == PictureAsk("image", Words(n) \o Framed(ImagePad) \o Words(1), h, w, << >>)
Clip(n, h, w, frames) == PictureAsk("video", Framed(VideoPad) \o Words(n), h, w, frames)
MCPictureAsks ==
  [ text   |-> PictureAsk("text", Words(4), 0, 0, << >>),
    wide   |-> Picture(1, 4, 7), tall |-> Picture(1, 9, 3), tiny |-> Picture(0, 1, 1),
    thin   |-> Picture(1, 1, 18), strip |-> Picture(1, 1, 21), banner |-> Picture(1, 2, 36),
    late   |-> Picture(9, 4, 7),
    clip   |-> Clip(1, 2, 6, << "p", "p", "q", "q", "q" >>),
    still  |-> Clip(1, 4, 4, << "p", "p", "p", "p", "p", "q", "q" >>),
    long   |-> Clip(3, 2, 6, << "p", "q", "r", "s", "t" >>) ]

(* Rules that overlap, that build on one another, on a space or on a mark's  *)
(* letters; one of a piece that is missing. A mark begins another.          *)
CharsOf(letters) == { << c >> : c \in letters }
MCAlphabet == CharsOf({"a", "b", "G", "<", ">"})
RuleTable(rules, marks) ==
  [ merges |-> rules, marks |-> marks,
    pieces |-> MCAlphabet \cup ({ rules[r][1] \o rules[r][2] : r \in DOMAIN rules } \ {<< "b", "b", "a" >>}) ]
MCMarks == { << "<", "a", ">" >>, << "<", "a", ">", ">" >> }
MCVocabularies ==
  { RuleTable(<< << << "a" >>, << "a" >> >>, << << "b", "b" >>, << "a" >> >>, << << "a" >>, << "b" >> >> >>, MCMarks),
    RuleTable(<< << << "a" >>, << "b" >> >>, << << "G" >>, << "a", "b" >> >>, << << "a", "b" >>, << "a" >> >> >>, MCMarks),
    RuleTable(<< << << "G" >>, << "a" >> >>, << << "b" >>, << "a" >> >>, << << "<" >>, << "a" >> >>,
                 << << "b", "a" >>, << "b", "a" >> >> >>, MCMarks) }
EncodeAsk(asked, parse) == [text |-> asked, bos |-> ~parse, parse |-> parse]
MCEncodeAsks ==
  { EncodeAsk(asked, FALSE) : asked \in [1 .. 4 -> {"a", "b"}] }
  \cup { EncodeAsk(asked, parse) : parse \in BOOLEAN, asked \in
      { << >>, << "b", "a", "b", "a", "b", "a" >>, << " ", " ", "a", "b", " ", " " >>,
        << "a", "<", "a", ">", ">", " ", "a", "<" >>, << "<", "<", "a", ">", "<", "a", ">", ">" >>,
        << "a", " ", "<", "a", ">", "a", "a", "a" >>, << "<", "a", " ", ">", " ", "a", "b", "a" >> } }

(* Rows that decode, read their prompt or verify, alone and together, such   *)
(* that many of these passes are as long and reach into the same bucket.     *)
PassItem(kind, id, from, len) == [kind |-> kind, id |-> id, from |-> from, len |-> len]
PassOf(owner, members) == [pool |-> owner, items |-> members]
Decoding(id, from) == PassItem("token", id, from, 1)
Verifying(id, from, len) == PassItem("verify", id, from, len)
MCGraphPasses ==
  { PassOf("server", << Decoding(0, 2), Decoding(1, 4) >>), PassOf("server", << PassItem("prompt", 1, 4, 2) >>),
    PassOf("server", << Verifying(0, 4, 2) >>), PassOf("server", << Verifying(1, 5, 2) >>),
    PassOf("server", << Verifying(0, 4, 2), Verifying(1, 2, 2) >>),
    PassOf("server", << Verifying(1, 5, 2), Verifying(0, 1, 2) >>),
    PassOf("server", << PassItem("prompt", 0, 4, 4) >>),
    PassOf("server", << Decoding(1, 4), PassItem("last", 0, 0, 3) >>),
    PassOf("server", << Decoding(0, 0), Decoding(1, 4), PassItem("prompt", 2, 4, 2) >>),
    PassOf("server", << Decoding(0, 8), Decoding(1, 4) >>),
    PassOf("job", << PassItem("last", 0, 4, 2) >>) }

-----------------------------------------------------------------------------
RequestsInit ==
  /\ part \in {"limiter", "reply", "json", "branches", "pictures", "tokenizer", "graphs"}
  /\ LimiterInit /\ ReplyInit /\ JsonInit /\ BranchInit /\ PictureInit /\ TokenizerInit
  /\ GraphInit
  /\ part # "tokenizer" => vocabulary = CHOOSE any \in Vocabularies : TRUE

RequestsNext ==
  \/ part = "limiter" /\ LimiterNext
     /\ UNCHANGED << part, replyvars, jsonvars, branchvars, picturevars, tokenizervars, graphvars >>
  \/ part = "reply" /\ ReplyNext
     /\ UNCHANGED << part, limiter, jsonvars, branchvars, picturevars, tokenizervars, graphvars >>
  \/ part = "json" /\ JsonNext
     /\ UNCHANGED << part, limiter, replyvars, branchvars, picturevars, tokenizervars, graphvars >>
  \/ part = "branches" /\ BranchNext
     /\ UNCHANGED << part, limiter, replyvars, jsonvars, picturevars, tokenizervars, graphvars >>
  \/ part = "pictures" /\ PictureNext
     /\ UNCHANGED << part, limiter, replyvars, jsonvars, branchvars, tokenizervars, graphvars >>
  \/ part = "tokenizer" /\ TokenizerNext
     /\ UNCHANGED << part, limiter, replyvars, jsonvars, branchvars, picturevars, graphvars >>
  \/ part = "graphs" /\ GraphNext
     /\ UNCHANGED << part, limiter, replyvars, jsonvars, branchvars, picturevars, tokenizervars >>

RequestsSpec == RequestsInit /\ [][RequestsNext]_<< part, others >>

=============================================================================
