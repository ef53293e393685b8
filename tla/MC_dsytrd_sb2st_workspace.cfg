CONSTANT Problem <- Unset
SPECIFICATION Spec
INVARIANT WorkspaceSuffices
