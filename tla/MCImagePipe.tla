------------------------------ MODULE MCImagePipe ------------------------------
EXTENDS ImagePipe

\* More pieces of data than there are permits, with free space before them.
FreeAndData == <<"free", "data", "data", "data", "data", "data", "data", "data">>

================================================================================
