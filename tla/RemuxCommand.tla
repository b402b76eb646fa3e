---------------------------- MODULE RemuxCommand ----------------------------
(***************************************************************************)
(* The command line a channel is run with (pkg/remuxcmd) and the URLs in   *)
(* it (pkg/avurl, pkg/hostutil, domain/channel/validate.go).               *)
(*                                                                         *)
(* A text is a sequence of characters: "1" is any that means nothing here, *)
(* "?" is also "#".  A percent-encoded character is one as well, whether   *)
(* it was escaped here or written by the caller: "%2F", "%3F" and "%3A"    *)
(* stand for "/", "?" and ":", and "%31" for any other; a "%" that begins  *)
(* none means nothing.  An argument is a text; those that begin with "--"  *)
(* are one character, and "--map-video=true" is two.  Numbers are always   *)
(* emitted alike, so one stands for each group of them.                    *)
(*                                                                         *)
(* Operators named after a mistake (JoinPrintedPort, ...) are faulty       *)
(* variants of the one that follows; no specification uses them.           *)
(***************************************************************************)
EXTENDS Naturals, Sequences, FiniteSets
Args == INSTANCE SequencesExt

CONSTANTS
  Starts,  \* how the URLs that are looked at begin
  UrlChars,  \* the characters they go on with
  MaxMore,   \* how many may follow
  MaxOuts    \* the longest list of outputs

Chars == {"1", ":", "/", "?", "@", "[", "]", "%2F", "%3F", "%3A", "%31"}
Encoded == {"%2F", "%3F", "%3A", "%31"}
NoText == <<"nil">>

ASSUME StartsAssumption == Starts \subseteq Seq(Chars) /\ UrlChars \subseteq Chars

VARIABLES
  inputURL,   \* the input URL of a channel
  outputList  \* its outputs

commandVars == <<inputURL, outputList>>

Outs == {o \in [url : {NoText, <<"1">>}, localaddr : {NoText, <<>>, <<"1">>},
                enabled : BOOLEAN, maps : {{"video"}, {"video", "audio"}}] :
           o.enabled => o.url # NoText}

-----------------------------------------------------------------------------
(* pkg/avurl *)

\* Where the first of these characters is, or the last, counting from 1; or 0.
FirstOf(S, s) ==
  IF \A i \in DOMAIN s : s[i] \notin S THEN 0
  ELSE CHOOSE i \in DOMAIN s : s[i] \in S /\ \A j \in 1 .. i - 1 : s[j] \notin S
LastOf(c, s) ==
  IF \A i \in DOMAIN s : s[i] # c THEN 0
  ELSE CHOOSE i \in DOMAIN s : s[i] = c /\ \A j \in i + 1 .. Len(s) : s[j] # c
Upto(s, i) == SubSeq(s, 1, i)
After(s, i) == SubSeq(s, i + 1, Len(s))

NoParts == [schema |-> <<>>, userinfo |-> <<>>, host |-> <<>>, port |-> <<>>, path |-> <<>>,
            hasSchema |-> FALSE, slashNum |-> 0, hasAtSign |-> FALSE, hasBrks |-> FALSE,
            hasPort |-> FALSE, junk |-> <<>>]

SlashNum(s) == CHOOSE n \in 0..2 : /\ n <= Len(s) /\ \A i \in 1..n : s[i] = "/"
                                   /\ n = 2 \/ n = Len(s) \/ s[n + 1] # "/"

\* userinfo is everything up to the LAST '@'
avurlSplitAuthority(authority) ==
  LET at == LastOf("@", authority)
      target == After(authority, at)
      bracket == FirstOf({"]"}, target)
      brks == bracket # 0 /\ target[1] = "["
      colon == IF brks THEN IF bracket < Len(target) /\ target[bracket + 1] = ":"
                            THEN bracket + 1 ELSE 0
                       ELSE FirstOf({":"}, target)
  IN  [NoParts EXCEPT
         !.userinfo = IF at = 0 THEN <<>> ELSE Upto(authority, at - 1),
         !.hasAtSign = at # 0,
         !.hasBrks = brks,
         !.host = IF brks THEN SubSeq(target, 2, bracket - 1)
                  ELSE IF colon # 0 THEN Upto(target, colon - 1) ELSE target,
         !.hasPort = colon # 0,
         !.port = IF colon # 0 THEN After(target, colon) ELSE <<>>,
         !.junk = IF brks /\ colon = 0 THEN After(target, bracket) ELSE <<>>]

avurlSplit(u) ==
  LET colon == FirstOf({":"}, u)
      slashes == SlashNum(After(u, colon))
      rest == After(u, colon + slashes)
      stop == FirstOf({"/", "?"}, rest)
      pathAt == IF stop = 0 THEN Len(rest) ELSE stop - 1
  IN  IF colon = 0 THEN [NoParts EXCEPT !.path = u]
      ELSE [avurlSplitAuthority(Upto(rest, pathAt)) EXCEPT
              !.hasSchema = TRUE, !.schema = Upto(u, colon - 1),
              !.slashNum = slashes, !.path = After(rest, pathAt)]

If(c, s) == IF c THEN s ELSE <<>>

JoinPrintedPort(p) ==
  p.schema \o If(p.hasSchema, <<":">>) \o [i \in 1..p.slashNum |-> "/"]
    \o p.userinfo \o If(p.hasAtSign, <<"@">>)
    \o If(p.hasBrks, <<"[">>) \o p.host \o If(p.hasBrks, <<"]">>)
    \o If(p.port # <<>>, <<":">>) \o p.port \o p.junk \o p.path
avurlJoin(p) ==
  p.schema \o If(p.hasSchema, <<":">>) \o [i \in 1..p.slashNum |-> "/"]
    \o p.userinfo \o If(p.hasAtSign, <<"@">>)
    \o If(p.hasBrks, <<"[">>) \o p.host \o If(p.hasBrks, <<"]">>)
    \o If(p.hasPort, <<":">>) \o p.port \o p.junk \o p.path

\* Labels are shorter than 63 here, and the groups of an address than 5.
validateHostname(h) == h # <<>> /\ \A i \in DOMAIN h : h[i] = "1"
validateIPv6(h) ==
  LET gaps == {i \in 1..(Len(h) - 1) : h[i] = ":" /\ h[i + 1] = ":"} IN
  /\ \A i \in DOMAIN h : h[i] \in {"1", ":"}
  /\ Cardinality(gaps) = 1
  /\ h[1] = ":" => 1 \in gaps
  /\ h[Len(h)] = ":" => Len(h) - 1 \in gaps
ValidateHost(h) == IF FirstOf({":"}, h) # 0 THEN validateIPv6(h) ELSE validateHostname(h)

\* Zeros and numbers above 65535 are not told apart.
isPort(p) == p # <<>> /\ \A i \in DOMAIN p : p[i] = "1"

Parsed(u) ==
  LET p == avurlSplit(u) IN
  /\ p.junk = <<>> /\ ~p.hasAtSign
  /\ p.host # <<>> => ValidateHost(p.host)
  /\ p.port # <<>> => isPort(p.port)

validateInputURL(u) == Parsed(u) /\ avurlSplit(u).schema # <<>>

\* A "%" is not escaped, so what was percent-encoded before stays as it is.
Escape == [c \in Chars |-> CASE c = "/" -> "%2F" [] c = "?" -> "%3F" [] c = ":" -> "%3A"
                             [] OTHER -> c]

escapUsername(s) == [i \in DOMAIN s |-> Escape[s[i]]]
escapPassword(s) == [i \in DOMAIN s |-> IF s[i] = ":" THEN ":" ELSE Escape[s[i]]]

EmbedUnescaped(u, username, password) ==
  IF username = NoText THEN avurlJoin([avurlSplit(u) EXCEPT !.userinfo = <<>>])
  ELSE avurlJoin([avurlSplit(u) EXCEPT
         !.hasAtSign = TRUE,
         !.userinfo = escapPassword(username)
                        \o If(password # NoText, <<":">> \o escapPassword(password))])
EmbeddUserinfo(u, username, password) ==
  IF username = NoText THEN avurlJoin([avurlSplit(u) EXCEPT !.userinfo = <<>>])
  ELSE avurlJoin([avurlSplit(u) EXCEPT
         !.hasAtSign = TRUE,
         !.userinfo = escapUsername(username)
                        \o If(password # NoText, <<":">> \o escapPassword(password))])

-----------------------------------------------------------------------------
(* pkg/remuxcmd *)

WithStringPFlag(flag, v) == If(v \notin {NoText, <<>>}, <<<<flag>>, v>>)
WithStringFlag(flag, v) == If(v # <<>>, <<<<flag>>, v>>)
WithBoolFlag(flag, b) == <<<<flag, IF b THEN "=true" ELSE "=false">>>>
WithStringP(v) == If(v \notin {NoText, <<>>}, <<v>>)

OutputArgs(o) ==
  <<<<"--output">>>> \o WithStringP(o.url) \o WithStringPFlag("--localaddr", o.localaddr)
    \o WithStringFlag("--pkt-size", <<"1">>)
    \o WithBoolFlag("--map-video", "video" \in o.maps)
    \o WithBoolFlag("--map-audio", "audio" \in o.maps)

\* The input of ch has the flags that differ in kind.
InputArgs(ch) ==
  WithStringFlag("--id", <<"1">>) \o WithBoolFlag("--interactive", ch.interactive)
    \o <<<<"--input">>>> \o WithStringP(EmbeddUserinfo(ch.url, ch.username, ch.password))
    \o WithStringPFlag("--avioflags", ch.avioflags) \o WithStringFlag("--probesize", <<"1">>)
    \o WithStringPFlag("--localaddr", ch.localaddr) \o WithStringFlag("--timeout", <<"1">>)

\* The outputs in turn, each behind what was written before it.
BuildArgvUnmarked(ch) ==
  LET args[k \in 0 .. Len(ch.outputs)] ==
        IF k = 0 THEN InputArgs(ch)
        ELSE args[k - 1] \o IF ch.outputs[k].enabled THEN OutputArgs(ch.outputs[k])
                                                     ELSE Tail(OutputArgs(ch.outputs[k]))
  IN  args[Len(ch.outputs)]
BuildArgv(ch) ==
  LET args[k \in 0 .. Len(ch.outputs)] ==
        IF k = 0 THEN InputArgs(ch)
        ELSE args[k - 1] \o If(ch.outputs[k].enabled, OutputArgs(ch.outputs[k]))
  IN  args[Len(ch.outputs)]

-----------------------------------------------------------------------------
(* Every URL and list of outputs, an element at a time *)

CommandInit == inputURL \in Starts /\ outputList = <<>>

WriteUrl(c) ==
  /\ outputList = <<>>
  /\ \E p \in Starts : Args!IsPrefix(p, inputURL) /\ Len(inputURL) < Len(p) + MaxMore
  /\ inputURL' = Append(inputURL, c)
  /\ UNCHANGED outputList

AddOutput(o) ==
  /\ Len(outputList) < MaxOuts
  /\ inputURL \in Starts /\ validateInputURL(inputURL)
  /\ outputList' = Append(outputList, o)
  /\ UNCHANGED inputURL

CommandNext == (\E c \in UrlChars : WriteUrl(c)) \/ (\E o \in Outs : AddOutput(o))

CommandSpec == CommandInit /\ [][CommandNext]_commandVars

-----------------------------------------------------------------------------
(* Properties *)

Credentials == {NoText, <<>>, <<"1">>, <<":", "1">>, <<"/", "@">>, <<"@", ":", "?">>,
                <<"[", "]">>, <<"%2F", "@">>, <<"1", ":", "%31">>}
Unescaped(s) == [i \in DOMAIN s |-> CASE s[i] = "%2F" -> "/" [] s[i] = "%3F" -> "?"
                                      [] s[i] = "%3A" -> ":" [] s[i] = "%31" -> "1"
                                      [] OTHER -> s[i]]

\* Reading it, what is percent-encoded is decoded.  So a text is read as it
\* was said if it had nothing of that kind, else as what it is decoded to.
ReadAs(written, said) ==
  /\ Unescaped(written) = Unescaped(said)
  /\ (\A i \in DOMAIN said : said[i] \notin Encoded) => Unescaped(written) = said

(* "url must equal re-joined parts" (avurl/av_url.go:24): no text is lost  *)
(* or written twice by taking it apart, however odd it is.                 *)
JoinUndoesSplit == avurlJoin(avurlSplit(inputURL)) = inputURL

(* A user name and password written into a URL that was accepted leave it  *)
(* with the same protocol, host, port and path, whatever they contain, and *)
(* are told apart in it and read out of it again: as they were if they     *)
(* contain nothing percent-encoded, and decoded if they do (EmbeddUserinfo; *)
(* FFmpeg takes the URL apart as avurlSplit does).                         *)
EmbedKeepsTarget ==
  outputList = <<>> /\ validateInputURL(inputURL) =>
    \A username, password \in Credentials :
      LET old == avurlSplit(inputURL)
          new == avurlSplit(EmbeddUserinfo(inputURL, username, password))
          colon == FirstOf({":"}, new.userinfo)
      IN  /\ \A part \in DOMAIN old \ {"userinfo", "hasAtSign"} : new[part] = old[part]
          /\ new.hasAtSign <=> username # NoText
          /\ username # NoText /\ password = NoText =>
               colon = 0 /\ ReadAs(new.userinfo, username)
          /\ username # NoText /\ password # NoText =>
               /\ ReadAs(Upto(new.userinfo, colon - 1), username)
               /\ ReadAs(After(new.userinfo, colon), password)

(* Both: taking a URL apart and putting it together again, and with what   *)
(* credentials, changes nothing else of it.                                *)
UrlsSurvive == JoinUndoesSplit /\ EmbedKeepsTarget

(* "Raw characters (plain-text, NOT percent-encoded)", says the API of     *)
(* user names and passwords (zmux-b2b-api-spec-v1.0.2.yaml:680): different *)
(* ones are not the same to the source.  False: escapUsername leaves "%"   *)
(* as it is, and "%2F" and "/" make one URL.                               *)
CredentialsAreRaw ==
  outputList = <<>> /\ validateInputURL(inputURL) =>
    \A a, b \in (Credentials \ {NoText}) \X Credentials :
      EmbeddUserinfo(inputURL, a[1], a[2]) = EmbeddUserinfo(inputURL, b[1], b[2]) => a = b

(* What follows a "--input" or "--output" is what remux applies to it, up  *)
(* to the next one.                                                        *)
Marks(args) == {i \in 1 .. Len(args) : args[i] \in {<<"--input">>, <<"--output">>}}
EndsSection(args, i, e) ==
  /\ \A j \in i + 1 .. e : j \notin Marks(args)
  /\ e = Len(args) \/ e + 1 \in Marks(args)
Section(args, i) == SubSeq(args, i + 1, CHOOSE e \in i .. Len(args) : EndsSection(args, i, e))

SaysFlag(said, flag, v) ==
  LET at == {i \in 1 .. Len(said) : said[i] = <<flag>>} IN
  IF v \in {NoText, <<>>} THEN at = {} ELSE \E i \in at : at = {i} /\ i < Len(said) /\ said[i + 1] = v

SaysInput(said, ch) ==
  /\ said[1] = ch.url
  /\ SaysFlag(said, "--avioflags", ch.avioflags)
  /\ SaysFlag(said, "--localaddr", ch.localaddr)

MapFlags == [video |-> "--map-video", audio |-> "--map-audio"]
SaysOutput(said, o) ==
  /\ said[1] = o.url
  /\ SaysFlag(said, "--localaddr", o.localaddr)
  /\ \A m \in DOMAIN MapFlags : \E i \in 1 .. Len(said) :
       said[i] = <<MapFlags[m], IF m \in o.maps THEN "=true" ELSE "=false">>

\* How many of S come before i.
CountBefore(S, i) == Cardinality({j \in S : j < i})

SaysChannel(args, ch) ==
  LET marks == Marks(args)
      running == {k \in 1 .. Len(ch.outputs) : ch.outputs[k].enabled}
  IN  /\ Cardinality(marks) = 1 + Cardinality(running)
      /\ \A i \in marks :
           /\ CountBefore(marks, i) = 0 =>
                args[i] = <<"--input">> /\ SaysInput(Section(args, i), ch)
           /\ \A k \in running : CountBefore(marks, i) = 1 + CountBefore(running, k) =>
                args[i] = <<"--output">> /\ SaysOutput(Section(args, i), ch.outputs[k])

(* The command says of the input and of each enabled output, in order,     *)
(* what the channel says, although both kinds share the flag --localaddr,  *)
(* any optional text may be missing, and disabled outputs lie in between.  *)
CommandSaysChannel ==
  inputURL \in Starts /\ validateInputURL(inputURL) =>
    \A avioflags \in {NoText, <<>>, <<"1">>}, localaddr \in {NoText, <<>>, <<"1", "1">>} :
      LET ch == [url |-> inputURL, username |-> NoText, password |-> NoText,
                 interactive |-> TRUE, avioflags |-> avioflags,
                 localaddr |-> localaddr, outputs |-> outputList]
      IN  SaysChannel(BuildArgv(ch), ch)

=============================================================================
