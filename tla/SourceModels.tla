---------------------------- MODULE SourceModels ----------------------------
(***************************************************************************)
(* The models that pass between Dart and a source (models.rs): how each is *)
(* read and how it is written, and a payload under way: the source encodes *)
(* it, the bytes may be cut or changed, the host decodes it, and Dart may  *)
(* hand it back as the argument of a later call, which encodes it again    *)
(* (Dart's mirrors of manga, chapters and listings copy field by field).   *)
(*                                                                         *)
(* A tag that is a word in the code ("text", "sort" ...) is one byte here. *)
(***************************************************************************)
EXTENDS Postcard

-----------------------------------------------------------------------------
(* What from_postcard reads *)
Strings == Opt(List(Str))
ChapterRead == Str & Opt(Str) & Opt(Float) & Opt(Float) & Opt(I64) & Strings
                   & Opt(Str) & Opt(Str) & Opt(Str) & Bool
MangaRead == Str & Str & Opt(Str) & Strings & Strings & Opt(Str) & Opt(Str) & Strings
                 & Enum(4) & Enum(3) & Enum(4) & Enum(1) & Opt(I64) & Opt(List(ChapterRead))
MangaPageRead == List(MangaRead) & Bool
(* A page's content: an address, text, an image of the store, a zip entry. *)
(* The bytes of the image, looked up in the store, are no part of the      *)
(* payload; pages are never handed back.                                   *)
PageContentRead == Union(U8, << <<0, Str & Flagged(Pairs)>>, <<1, Str>>,
                                <<2, I32>>, <<3, Str & Str>> >>, <<>>)
PageRead == PageContentRead & Opt(Str) & Bool & Opt(Str)
Flag == Filled(Bool, FALSE)
SortDefaultRead == I64 & Flag
SelectRead == AndFlagLike(Flag, 1) & List(Str) & Strings & Opt(Str)
MultiSelectRead == AndFlagLike(Flag & Flag, 2) & List(Str) & Strings & Strings & Strings
TextTag == <<1>>
SortTag == <<2>>
CheckTag == <<3>>
SelectTag == <<4>>
MultiSelectTag == <<5>>
NoteTag == <<6>>
RangeTag == <<7>>
FilterTags == {TextTag, SortTag, CheckTag, SelectTag, MultiSelectTag, NoteTag, RangeTag}
ASSUME TagAssumption == 1 .. 7 \subseteq Byte \ NotUtf8

FilterConfigRead ==
    Union(Str, << <<TextTag, Opt(Str)>>,
                  <<SortTag, Filled(Bool, TRUE) & List(Str) & Opt(SortDefaultRead)>>,
                  <<CheckTag, Opt(Str) & Flag & Opt(Bool)>>,
                  <<SelectTag, SelectRead>>,
                  <<MultiSelectTag, MultiSelectRead>>,
                  <<NoteTag, Str>>,
                  <<RangeTag, Opt(Float) & Opt(Float) & Flag>> >>,
          << <<>> >>)
ListingRead == Str & Str & Enum(1)
DeepLinkRead == Opt(Str) & Opt(Str) & Opt(ListingRead)

(* A filter without an id is known by its title, or by its type; one of an *)
(* unknown type is a text without a placeholder.                           *)
FilterOf(f) ==
    LET id == f[1][1][1]
        title == f[1][1][2]
        tag == f[2][1]
    IN <<<<<<IF id # <<>> THEN id[1] ELSE IF title # <<>> THEN title[1] ELSE tag,
             title>>, f[1][2]>>,
         IF tag \in FilterTags THEN f[2] ELSE <<TextTag, <<>>>> >>

FilterFields == Opt(Str) & Opt(Str) & Opt(Bool) & FilterConfigRead
Resolved(T) ==
    [T EXCEPT
        !.meant = [f \in T.values |-> FilterOf(T.meant[f])],
        !.read = [r \in Reader |->
                     LET o == T.read[r]
                     IN IF Good(o) THEN Got(FilterOf(o.v), o.at) ELSE o]]
FilterRead == Resolved(FilterFields)

(* What to_postcard writes *)
ChapterWrite == Str & Opt(Str) & Opt(Float) & Opt(Float) & Opt(I64) & Strings
                    & Opt(Str) & Opt(Str) & Opt(Str) & Bool
MangaWrite == Str & Str & Opt(Str) & Strings & Strings & Opt(Str) & Opt(Str) & Strings
                  & U8 & U8 & U8 & U8 & Opt(I64) & Opt(List(ChapterWrite))
SortDefaultWrite == I64 & Always(Bool)

(* Bug: the first flag is written bare, and read as an option. *)
SelectWrite_BareFlag == Bool & Always(Bool) & List(Str) & Strings & Opt(Str)

SelectWrite == Always(Bool) & Always(Bool) & List(Str) & Strings & Opt(Str)
MultiSelectWrite == Always(Bool) & Always(Bool) & Always(Bool) & List(Str)
                        & Strings & Strings & Strings
FilterConfigWrite ==
    Union(Str, << <<TextTag, Opt(Str)>>,
                  <<SortTag, Always(Bool) & List(Str) & Opt(SortDefaultWrite)>>,
                  <<CheckTag, Opt(Str) & Always(Bool) & Opt(Bool)>>,
                  <<SelectTag, SelectWrite>>,
                  <<MultiSelectTag, MultiSelectWrite>>,
                  <<NoteTag, Str>>,
                  <<RangeTag, Opt(Float) & Opt(Float) & Always(Bool)>> >>, <<>>)
FilterWrite == Always(Str) & Opt(Str) & Opt(Bool) & FilterConfigWrite
ListingWrite == Str & Str & U8

(* What the host only writes: filter values, responses, cookies. *)
FilterValueWrite ==
    Union(U8, << <<0, Str & Str>>, <<1, Str & I32 & Bool>>, <<2, Str & I64>>,
                 <<3, Str & Str>>, <<4, Str & List(Str) & List(Str)>>,
                 <<5, Str & Opt(Float) & Opt(Float)>> >>, <<>>)
RequestWrite == Opt(Str) & Pairs
ResponseWrite == U16 & Pairs & RequestWrite & I32
CookieWrite == Str & Str & Opt(Float) & Str & Str & Bool & Bool

-----------------------------------------------------------------------------
(* What a payload may be, how it is read, and how it is written again when *)
(* Dart or the host hands it back.                                         *)
Models == [manga |-> MangaRead, manga_page |-> MangaPageRead, chapter |-> ChapterRead,
           page |-> PageRead, content |-> PageContentRead, filter |-> FilterRead,
           listing |-> ListingRead, deep_link |-> DeepLinkRead,
           filter_value |-> FilterValueWrite, response |-> ResponseWrite,
           cookie |-> CookieWrite]
Names == {"manga", "manga_page", "chapter", "page", "content", "filter", "listing",
          "deep_link", "filter_value", "response", "cookie"}
Writable == [manga |-> MangaWrite, chapter |-> ChapterWrite, filter |-> FilterWrite,
             listing |-> ListingWrite]

CONSTANTS Sends,        \* Sends[n]: the values of model n that are sent
          Changes       \* bytes that may overwrite one

ASSUME PayloadAssumption ==
    /\ \A n \in Names : Sends[n] \subseteq Models[n].values
    /\ Changes \subseteq Byte

VARIABLES name,     \* which model travels
          sent,     \* what the source means
          bytes,    \* what it wrote, or what is left of that
          fault,    \* "none", "cut", "changed"
          result    \* <<>> until it was decoded
vars == <<name, sent, bytes, fault, result>>

Decode(n, s) == Models[n].read[[data |-> s, offset |-> 0]]

-----------------------------------------------------------------------------
(* What is written fits into memory. *)
Init ==
    /\ name \in Names
    /\ sent \in Sends[name]
    /\ bytes = Models[name].wire[sent]
    /\ Short(bytes)
    /\ fault = "none"
    /\ result = <<>>

Cut == /\ fault = "none" /\ result = <<>>
       /\ \E n \in 0 .. Len(bytes) - 1 : bytes' = SubSeq(bytes, 1, n)
       /\ fault' = "cut"
       /\ UNCHANGED <<name, sent, result>>

Change == /\ fault = "none" /\ result = <<>>
          /\ \E i \in DOMAIN bytes, b \in Changes : bytes' = [bytes EXCEPT ![i] = b]
          /\ fault' = "changed"
          /\ UNCHANGED <<name, sent, result>>

Receive == /\ result = <<>>
           /\ result' = <<Decode(name, bytes)>>
           /\ UNCHANGED <<name, sent, bytes, fault>>

Next == Cut \/ Change \/ Receive
Spec == Init /\ [][Next]_vars

-----------------------------------------------------------------------------
(* Properties *)
Received == result # <<>> /\ Good(result[1])

(* What is written in the layout that from_postcard of a model reads       *)
(* arrives: numbers at the ends of their range, nested options and lists,  *)
(* absent flags with the defaults of the model, and no byte left over.     *)
(* (Whether reader and writer agree on the layout is EchoIsStable's.)      *)
DecodesWhatWasSent ==
    result # <<>> /\ fault = "none" =>
        result[1] = Got(Models[name].meant[sent], Len(bytes))

(* What the host decoded, be it from bytes that were changed, it can hand  *)
(* back as an argument: to_postcard writes what from_postcard reads, and   *)
(* decoding that gives the same value again, with the defaults filled in   *)
(* (mangas, chapters and listings, which get_manga_update, get_page_list   *)
(* and get_manga_list are given, and filters, which have a writer too).    *)
EchoIsStable ==
    Received /\ name \in DOMAIN Writable =>
        LET again == Writable[name].wire[result[1].v]
        IN Short(again) => Decode(name, again) = Got(result[1].v, Len(again))

(* A payload that ends early is an error, never a shorter value: every     *)
(* read looks at the end of the buffer first (need in postcard.rs).        *)
CutIsNoticed == result # <<>> /\ fault = "cut" => result[1] = Failed

=============================================================================
