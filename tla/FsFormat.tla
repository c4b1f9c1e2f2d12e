------------------------------ MODULE FsFormat ------------------------------
(***************************************************************************)
(* How crimp tells the three filesystem images apart.  An image file is    *)
(* abstracted to what the recognisers look at: the first four bytes, the   *)
(* length of the file, and the whole-image size a cramfs superblock        *)
(* declares at byte 4.  (src/src/extract/identify.c, fs_util.c and the     *)
(* read_superblock / detect_endianness functions of the extractors.)       *)
(***************************************************************************)
EXTENDS Integers, Sequences

Byte == 0 .. 255

\* crimp_fs_decode_u16 and crimp_fs_decode_u32: the byte order is the
\* image's, never the host's.  p[1] is C's p[0].  A 32-bit value is the pair
\* of its 16-bit halves, so that it stays inside TLC's integers.
decode_u16(p, big_endian) ==
    IF big_endian THEN p[1] * 256 + p[2] ELSE p[2] * 256 + p[1]

decode_u32(p, big_endian) ==
    IF big_endian THEN <<p[1] * 256 + p[2], p[3] * 256 + p[4]>>
                  ELSE <<p[4] * 256 + p[3], p[2] * 256 + p[1]>>

SQUASHFS_MAGIC == <<104, 115, 113, 115>>    \* "hsqs"
CRAMFS_MAGIC   == <<10445, 15685>>          \* 0x28cd3d45
JFFS2_MAGIC    == 6533                      \* 0x1985

SQUASHFS_SUPER_SIZE == 96
CRAMFS_SUPER_SIZE   == 76
JFFS2_HEADER_SIZE   == 12

ImageFile == [magic : [1 .. 4 -> Byte], size : Nat, declared : Nat]

\* squashfs.c read_superblock: the whole 96-byte superblock, then memcmp.
squashfs_super(f) ==
    /\ f.size >= SQUASHFS_SUPER_SIZE
    /\ \A k \in 1 .. 4 : f.magic[k] = SQUASHFS_MAGIC[k]

\* A fault: the magic is not compared.
MUT_cramfs_super_any_magic(f) ==
    f.size >= CRAMFS_SUPER_SIZE /\ f.declared >= CRAMFS_SUPER_SIZE

\* cramfs.c read_superblock: the magic in either byte order, and a declared
\* size that at least covers the superblock.
cramfs_super(f) ==
    /\ f.size >= CRAMFS_SUPER_SIZE
    /\ \E be \in BOOLEAN : decode_u32(f.magic, be) = CRAMFS_MAGIC
    /\ f.declared >= CRAMFS_SUPER_SIZE

\* jffs2.c detect_endianness.
jffs2_detect(f) ==
    /\ f.size >= 2
    /\ \E be \in BOOLEAN : decode_u16(f.magic, be) = JFFS2_MAGIC

\* jffs2.c scan_and_sort asks for one common header besides.
jffs2_scannable(f) == jffs2_detect(f) /\ f.size >= JFFS2_HEADER_SIZE

\* The three extractors, in the order extract_dispatch and crimp_fs_identify
\* try them.
Extractors == <<"squashfs", "cramfs", "jffs2">>

\* The header test an extractor makes before it creates output_dir.
Accepts(f, k) ==
    CASE Extractors[k] = "squashfs" -> squashfs_super(f)
      [] Extractors[k] = "cramfs"   -> cramfs_super(f)
      [] Extractors[k] = "jffs2"    -> jffs2_scannable(f)

crimp_fs_identify(f) ==
    IF squashfs_super(f) THEN "squashfs"
    ELSE IF cramfs_super(f) THEN "cramfs"
    ELSE IF jffs2_detect(f) THEN "jffs2"
    ELSE "unknown"
=============================================================================
