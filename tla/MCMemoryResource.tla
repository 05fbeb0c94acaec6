-------------------------- MODULE MCMemoryResource --------------------------
EXTENDS MemoryResource, TLC
\* For the pool: sizes that fit whose blocks fill an order, whose rest is too small for a
\* block, and one that is left to malloc; and mixed alignments and sizes that do not
\* always fit.  For the fixed nodes: also more alignment than their size gives.  For the
\* stack: an over-aligned frame that leaves room for the saved base, and one that does not.
MCPrograms ==
    "PoolResource" :> {{<<8, 16>>, <<48, 16>>, <<100, 16>>, <<240, 16>>},
                       {<<112, 8>>, <<136, 8>>, <<40, 32>>}}
    @@ "FixPoolResource" :> {{<<8, 8>>, <<15, 16>>, <<24, 32>>}}
    @@ "StackfulPool" :> {{<<8, 8>>, <<40, 16>>, <<24, 32>>}, {<<24, 16>>, <<32, 32>>}}
=============================================================================
