---------------------------- MODULE MCManifests ----------------------------
EXTENDS Manifests

Doc(scope, ns) == [scope |-> scope, namespace |-> ns]

MCSources ==
    {<<Doc("cluster", NoNamespace), Doc("namespaced", "default"), Doc("namespaced", "kube")>>,
     <<Doc("namespaced", NoNamespace), Doc("skipped", NoNamespace), Doc("cluster", NoNamespace)>>,
     <<Doc("namespaced", "kube"), Doc("nameless", NoNamespace)>>,
     <<>>}

===========================================================================
