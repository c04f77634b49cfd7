----------------------------- MODULE ImageBlocks -----------------------------
(***************************************************************************)
(* The content constructors of the Python binding: which payloads become   *)
(* an image block. A payload is its number of bytes; base64 text is its    *)
(* length, whether it is valid, and the number of bytes it stands for.     *)
(***************************************************************************)
EXTENDS Integers

CONSTANTS
    MediaType,     \* image MIME types a caller may name
    Supported,     \* SUPPORTED_IMAGE_MEDIA_TYPES
    Suffix,        \* file name suffixes
    MediaTypeOf,   \* _MEDIA_TYPES_BY_SUFFIX: Suffix -> MediaType or NoType
    NoType         \* no media type given, or none known for the suffix

ASSUME ImageAssumption ==
    /\ Supported \subseteq MediaType
    /\ NoType \notin MediaType
    /\ MediaTypeOf \in [Suffix -> Supported \cup {NoType}]

\* What a constructor does: it raises ImageError, or builds a block.
Rejected  == [built |-> FALSE, tag |-> "ImageError", media_type |-> NoType]
Block(tag, type) == [built |-> TRUE, tag |-> tag, media_type |-> type]

text(value) == Block("Text_block", NoType)

\* The provider fetches the URL and sniffs the bytes: nothing is checked.
image_url(type) == Block("Url", type)

check_media_type(type) == type \in Supported

check_max_bytes(max) == max > 0

\* Base64 writes four characters for each group of three bytes begun.
EncodedLength(bytes) == ((bytes + 2) \div 3) * 4

Encoded(bytes) == [length |-> EncodedLength(bytes), valid |-> TRUE, bytes |-> bytes]

\* The length is looked at before the text is decoded.
decode_base64(data, max) ==
    /\ data.length <= EncodedLength(max)
    /\ data.valid
    /\ data.bytes # 0
    /\ data.bytes <= max

image_base64(data, type, max) ==
    IF check_max_bytes(max) /\ decode_base64(data, max) /\ check_media_type(type)
    THEN Block("Base64", type) ELSE Rejected

\* The type in the call, or else the suffix's; a suffix without one is refused.
FileType(suffix, type) == IF type = NoType THEN MediaTypeOf[suffix] ELSE type

\* At most one byte past the limit is read.
ReadUpTo(size, limit) == IF size < limit THEN size ELSE limit

image_file(size, suffix, type, max) ==
    LET raw == ReadUpTo(size, max + 1)
    IN  IF /\ check_max_bytes(max)
           /\ check_media_type(FileType(suffix, type))
           /\ raw # 0
           /\ raw <= max
        THEN image_base64(Encoded(raw), FileType(suffix, type), max)
        ELSE Rejected
=============================================================================
